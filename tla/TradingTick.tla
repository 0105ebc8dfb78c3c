---------------------------- MODULE TradingTick ----------------------------
(***************************************************************************)
(* The position of one session: the columns entry_quantity and             *)
(* position_side of its row (entry_price is set and cleared with them),    *)
(* the orders that bot_engine._bot_loop sends to change it, and the        *)
(* transaction that records both.                                          *)
(*                                                                         *)
(* A tick loads the row into an object, changes the object as the broker   *)
(* answers, and commits once, at its end; whatever leaves the tick earlier *)
(* rolls the object back, and never the orders.  A commit writes a column  *)
(* only if the object's value differs from the one it loaded.  An          *)
(* administrator's force_close_position does the same with an object of    *)
(* its own beside the running tick.                                        *)
(*                                                                         *)
(* Quantities are in tenths of a share: the service records fractions and  *)
(* orders whole shares.  The portfolio is worth the same all along, so the *)
(* sizes of the ladder are Base, 2 Base and 4 Base.  The status of the row *)
(* is in BotSessions, the gates in RiskGate, the exits in Strategies.      *)
(***************************************************************************)
EXTENDS Integers

CONSTANTS
  Base,      \* the quantity of a first entry
  Sides,     \* the sides martingale takes
  Events,    \* the market events that select event_driven
  MaxOpen,   \* strategy_config.max_open_orders
  Trouble,   \* what may go wrong, of Troubles
  Bound      \* bound of the exposure and the recorded position, in shares

(* rebooted     the service dies or the task is cancelled, in any state, and*)
(*              a new task follows: the old one may outlive its cancel      *)
(* refused      a close is answered with an error                          *)
(* rejected     a close is answered with an order that is REJECTED         *)
(* unlisted     get_orders is answered with an error                       *)
(* fills        the feed has reported a FILLED order                       *)
(* unanswered   the connection breaks while an order is sent               *)
(* resent       an order is executed, answered 5xx and sent again, to be   *)
(*              executed once more or to end in an error                   *)
(* unauthorized an order is answered 401                                   *)
(* uncommitted  a commit fails                                             *)
(* forced       an administrator closes the position                       *)
Troubles == {"rebooted", "refused", "rejected", "unlisted", "fills", "unanswered",
             "resent", "unauthorized", "uncommitted", "forced"}

(* unrecorded   the broker accepted an order that no commit records        *)
(* doubled      it executed an order of a signal more often than it answered*)
(* beside       an administrator's close and a tick ran at the same time   *)
(* outlived     a task outlived its cancel and runs beside its successor   *)
Happenings == {"unrecorded", "doubled", "beside", "outlived"}

ASSUME SizesAssumption == Base \in Nat \ {0} /\ MaxOpen \in Nat /\ Bound \in Nat
ASSUME MarketAssumption == /\ Sides \subseteq {"BUY", "SELL"}
                           /\ Events \subseteq {"bull", "bear", "shock", "weak"}
ASSUME TroubleAssumption == Trouble \subseteq Troubles

(* Definitions named Slip... are plausible slips of the code they precede. *)
(* No specification uses them: each is a mutant that a property must catch.*)

MaxLevels == 3   \* martingale._MAX_LEVELS
NumLevels == 5   \* grid_trading._NUM_LEVELS

VARIABLES
  row,       \* the position columns of bot_sessions
  exposure,  \* what the orders accepted for the position add up to, in shares
  open,      \* the open orders at the broker that ticks placed
  strategy,  \* current_strategy
  ladder,    \* mart_state
  pc,        \* where the tick is, "shared" once the session has two tasks
  tx,        \* its transaction
  market,    \* what it selects its strategy by
  signal,    \* the order its strategy asks for
  count,     \* the open orders it knows of
  forcePc,   \* where force_close_position is
  forceTx,   \* its transaction
  happened   \* history: which of Happenings there were

memory == <<strategy, ladder>>
request == <<market, signal, count>>
broker == <<exposure, open>>
forcing == <<forcePc, forceTx>>
vars == <<row, broker, memory, pc, tx, request, forcing, happened>>

-----------------------------------------------------------------------------
Position(side, qty) == [side |-> side, qty |-> qty]
NoPosition == Position("none", 0)
Held(p) == p.side # "none"
Signed(side, n) == IF side = "BUY" THEN n ELSE -n

(* broker_client.place_order orders max(1, int(quantity)) shares, and      *)
(* _close_position takes 1 when no quantity is recorded.                   *)
Shares(qty) == IF qty < 10 THEN 1 ELSE qty \div 10

(* What a position amounts to in shares and as recorded                    *)
Worth(p) == IF Held(p) THEN Signed(p.side, Shares(p.qty)) ELSE 0
Quantity(p) == IF Held(p) THEN Signed(p.side, p.qty) ELSE 0

Ladder(level, side) == [level |-> level, side |-> side]
NoLadder == Ladder(0, "none")
LevelSize(level) == IF level = 1 THEN Base ELSE IF level = 2 THEN 2 * Base ELSE 4 * Base

(* An order for a side and quantity, to be placed n times                  *)
Order(side, qty, n) == [side |-> side, qty |-> qty, n |-> n]
NoOrder == Order("none", 0, 0)

(* A transaction: the columns as loaded and as the object now has them,    *)
(* the sum of the position's trades it adds, and whether the broker        *)
(* accepted an order in it                                                 *)
Tx(loaded, object, net, sent) ==
  [loaded |-> loaded, object |-> object, net |-> net, sent |-> sent]
NoTx == Tx(NoPosition, NoPosition, 0, FALSE)

(* The columns after its commit                                            *)
Written(t) ==
  Position(IF t.object.side # t.loaded.side THEN t.object.side ELSE row.side,
           IF t.object.qty # t.loaded.qty THEN t.object.qty ELSE row.qty)

InBound(n) == n \in (-Bound)..Bound

Init ==
  /\ row = NoPosition /\ exposure = 0 /\ open = 0
  /\ strategy = "hold" /\ ladder = NoLadder
  /\ pc = "idle" /\ tx = NoTx
  /\ market = "hold" /\ signal = NoOrder /\ count = 0
  /\ forcePc = "idle" /\ forceTx = NoTx
  /\ happened = {}

Happens(what, when) == happened' = happened \cup (IF when THEN {what} ELSE {})
Goto(place) == pc' = place /\ UNCHANGED <<tx, request>>
TickOver ==
  /\ pc' = "idle" /\ tx' = NoTx
  /\ market' = "hold" /\ signal' = NoOrder /\ count' = 0
Forgotten == strategy' = "hold" /\ ladder' = NoLadder

-----------------------------------------------------------------------------
(* _close_position                                                         *)

(* What the caller makes of the last attempt, and what all of them did.    *)
CloseAnswers == {"accepted"} \cup ({"rejected", "refused"} \cap Trouble)
                             \cup (IF "resent" \in Trouble THEN {"twice", "lost"} ELSE {})
Failed(answer) == answer \in {"refused", "lost"}
Executions(answer) ==
  IF answer = "twice" THEN 2 ELSE IF answer \in {"accepted", "lost"} THEN 1 ELSE 0
NotTaken(answer) == Happens("unrecorded", answer = "lost")

(* The object after an answer.  An order that comes back REJECTED is not   *)
(* told from an accepted one; an error is logged and the position kept.    *)
SlipRemains(p, answer) == NoPosition
SlipKeepsQuantity(p, answer) ==
  IF Failed(answer) THEN p ELSE Position("none", p.qty)
Remains(p, answer) == IF Failed(answer) THEN p ELSE NoPosition

ClosingTx(t, answer) ==
  Tx(t.loaded, Remains(t.object, answer),
     IF Failed(answer) THEN t.net ELSE t.net - Quantity(t.object),
     t.sent \/ answer \in {"accepted", "twice"})

CloseAnswered(t, answer) ==
  /\ exposure' = exposure - Executions(answer) * Worth(t.object)
  /\ InBound(exposure')

-----------------------------------------------------------------------------
(* The tick, up to the signals                                             *)

Load ==
  /\ pc = "idle"
  /\ pc' = "loaded"
  /\ tx' = Tx(row, row, 0, FALSE)
  /\ Happens("beside", forcePc # "idle")
  /\ UNCHANGED <<row, broker, memory, request, forcing>>

(* A halt, a missing price or balance, or a risk gate ends the tick.       *)
EndsBeforeSelection ==
  /\ pc = "loaded"
  /\ TickOver
  /\ UNCHANGED <<row, broker, memory, forcing, happened>>

(* select_strategy on what the market shows (see Strategies)               *)
Markets == Events \cup {"martingale", "grid", "hold"}
Selected(m) == IF m \in Events THEN "event_driven" ELSE m

(* Leaving grid cancels some of its orders: those it knows and can cancel. *)
OrdersLeft(new) == IF strategy = "grid" /\ new # "grid" THEN 0..open ELSE {open}

SwitchTo(new) ==
  /\ strategy' = new
  /\ ladder' = IF strategy = "martingale" /\ new # "martingale" THEN NoLadder ELSE ladder
  /\ open' \in OrdersLeft(new)
  /\ pc' = "selected"
  /\ UNCHANGED <<row, signal, count, forcing>>

LeavesPosition(new) ==
  strategy \in {"event_driven", "martingale"} /\ new # strategy /\ Held(tx.object)

SwitchCloses(m) ==
  /\ pc = "loaded" /\ LeavesPosition(Selected(m))
  /\ pc' = "switching" /\ market' = m
  /\ UNCHANGED <<row, broker, memory, tx, signal, count, forcing, happened>>

Select(m) ==
  /\ pc = "loaded" /\ ~LeavesPosition(Selected(m))
  /\ market' = m
  /\ SwitchTo(Selected(m))
  /\ UNCHANGED <<exposure, tx, happened>>

SwitchClosed(answer) ==
  /\ pc = "switching"
  /\ CloseAnswered(tx, answer)
  /\ tx' = ClosingTx(tx, answer)
  /\ SwitchTo(Selected(market))
  /\ NotTaken(answer)
  /\ UNCHANGED market

StopLoss ==
  /\ pc = "selected"
  /\ strategy = "event_driven" /\ Held(tx.object)
  /\ Goto("closing")
  /\ UNCHANGED <<row, broker, memory, forcing, happened>>

-----------------------------------------------------------------------------
(* The signals on an answer of get_orders, which lists the open orders of  *)
(* the ticks and perhaps others.                                           *)

Listed(n) ==
  /\ pc = "selected"
  /\ count' = n
  /\ UNCHANGED <<row, broker, strategy, tx, market, forcing, happened>>

Asks(order) == pc' = "placing" /\ signal' = order
(* A CLOSE with no position on record closes nothing.                      *)
AsksToClose ==
  /\ pc' = IF Held(tx.object) THEN "closing" ELSE "committing"
  /\ UNCHANGED signal
AsksNothing == pc' = "committing" /\ UNCHANGED signal

EventSignals(n) ==
  /\ strategy = "event_driven" /\ Listed(n)
  /\ \/ /\ market = "bull" \/ (market = "shock" /\ ~Held(tx.object))
        /\ Asks(Order("BUY", Base, 1))
     \/ market = "bear" /\ AsksToClose
     \/ /\ market = "weak" \/ (market = "shock" /\ Held(tx.object))
        /\ AsksNothing
  /\ UNCHANGED ladder

(* Which entry, stop or exit comes when is in Strategies.  The ladder moves*)
(* when the signal is made, whether or not its order is then accepted.     *)
LadderEnters(n, side) ==
  /\ strategy = "martingale" /\ ladder.level = 0 /\ Listed(n)
  /\ Asks(Order(side, Base, 1))
  /\ ladder' = Ladder(1, side)

SlipHasNext == ladder.level > 0
HasNext == ladder.level \in 1..(MaxLevels - 1)
LadderDoubles(n) ==
  /\ strategy = "martingale" /\ HasNext /\ Listed(n)
  /\ Asks(Order(ladder.side, LevelSize(ladder.level + 1), 1))
  /\ ladder' = Ladder(ladder.level + 1, ladder.side)

LadderExits(n) ==
  /\ strategy = "martingale" /\ ladder.level > 0 /\ Listed(n)
  /\ AsksToClose
  /\ ladder' = NoLadder

GridOrders(n, side, k) ==
  /\ strategy = "grid" /\ Listed(n)
  /\ Asks(Order(side, Base, k))
  /\ UNCHANGED ladder

NoSignals(n) ==
  /\ strategy # "event_driven" /\ Listed(n)
  /\ AsksNothing
  /\ UNCHANGED ladder

(* The close of a stop-loss, a bear event or an exit of the ladder         *)
Closed(answer) ==
  /\ pc = "closing"
  /\ CloseAnswered(tx, answer)
  /\ tx' = ClosingTx(tx, answer)
  /\ pc' = "committing"
  /\ NotTaken(answer)
  /\ UNCHANGED <<row, open, memory, request, forcing>>

-----------------------------------------------------------------------------
(* The orders of a tick's signals                                          *)

can_place_order == count < MaxOpen
Placing == pc = "placing" /\ can_place_order

(* mart_level_before > 0: the signal has raised the level since            *)
Doubling == strategy = "martingale" /\ ladder.level > 1

(* What an accepted order makes of the position: grid orders are no part   *)
(* of it.                                                                  *)
SlipEntered(p, s) == IF strategy = "grid" THEN p ELSE Position(s.side, s.qty)
Entered(p, s) ==
  IF strategy = "grid" THEN p
  ELSE Position(s.side, IF Doubling THEN p.qty + s.qty ELSE s.qty)

Counted(n) == IF strategy = "grid" THEN 0 ELSE n
OrderWorth(s) == Counted(Signed(s.side, Shares(s.qty)))
EnteringTx(s) ==
  Tx(tx.loaded, Entered(tx.object, s), tx.net + Counted(Signed(s.side, s.qty)), TRUE)

SlipSignalDone ==
  /\ signal' = Order(signal.side, signal.qty, signal.n - 1)
  /\ pc' = IF signal.n = 0 THEN "committing" ELSE "placing"
SignalDone ==
  /\ signal' = Order(signal.side, signal.qty, signal.n - 1)
  /\ pc' = IF signal.n = 1 THEN "committing" ELSE "placing"

Skip ==
  /\ pc = "placing" /\ ~can_place_order
  /\ SignalDone
  /\ UNCHANGED <<row, broker, memory, tx, market, count, forcing, happened>>

(* all_orders and symbol_orders take up the order if it is answered open.  *)
SlipKnown(opened) == count
Known(opened) == count + opened

(* The order is executed `times` times, and answered open or not.          *)
Placed(times, opened) ==
  /\ Placing
  /\ exposure' = exposure + times * OrderWorth(signal)
  /\ InBound(exposure')
  /\ Shares(Entered(tx.object, signal).qty) <= Bound
  /\ open' = open + times * opened
  /\ tx' = EnteringTx(signal)
  /\ count' = Known(opened)
  /\ SignalDone
  /\ Happens("doubled", times > 1)
  /\ UNCHANGED <<row, memory, market, forcing>>

(* The broker executes an order and no answer of it is taken.              *)
OrderExecuted ==
  /\ Placing
  /\ exposure' = exposure + OrderWorth(signal)
  /\ InBound(exposure')
  /\ open' = open + 1

(* REJECTED or CANCELLED in the answer, or an error other than 401: the    *)
(* answer to the last attempt, whatever an earlier one did.                *)
PlacementRefused(executed) ==
  /\ Placing
  /\ SignalDone
  /\ IF executed
     THEN OrderExecuted /\ happened' = happened \cup {"unrecorded", "doubled"}
     ELSE UNCHANGED <<broker, happened>>
  /\ UNCHANGED <<row, memory, tx, market, count, forcing>>

-----------------------------------------------------------------------------
(* The ends of a tick                                                      *)

Commit ==
  /\ pc = "committing"
  /\ row' = Written(tx)
  /\ TickOver
  /\ UNCHANGED <<broker, memory, forcing, happened>>

(* 401 to an order: what the tick did so far is committed with the status  *)
(* "error", and the task ends.  A later task finds the memory of Init.     *)
PlacementUnauthorized ==
  /\ "unauthorized" \in Trouble
  /\ Placing
  /\ Goto("parting")
  /\ UNCHANGED <<row, broker, memory, forcing, happened>>

Part ==
  /\ pc = "parting"
  /\ row' = Written(tx)
  /\ TickOver /\ Forgotten
  /\ UNCHANGED <<broker, forcing, happened>>

(* get_orders fails; a FILLED update makes the loop evaluate `select`,     *)
(* which bot_engine does not import, and raise; or the commit fails.       *)
RollsBack ==
  /\ \/ pc = "selected" /\ Trouble \cap {"unlisted", "fills"} # {}
     \/ pc \in {"committing", "parting"} /\ "uncommitted" \in Trouble
  /\ TickOver
  /\ Happens("unrecorded", tx.sent)
  /\ UNCHANGED <<row, broker, memory, forcing>>

(* A close is on its way to the broker, which may or may not execute it    *)
(* though no answer is taken.                                              *)
CloseExecuted ==
  /\ pc \in {"switching", "closing"}
  /\ CloseAnswered(tx, "accepted")
  /\ UNCHANGED open

InFlight(executed) ==
  IF executed THEN OrderExecuted \/ CloseExecuted ELSE UNCHANGED broker

BreaksOff(executed) ==
  /\ InFlight(executed)
  /\ TickOver
  /\ Happens("unrecorded", tx.sent \/ executed)
  /\ UNCHANGED <<row, forcing>>

(* httpx raises, and the except clause of _request raises AttributeError.  *)
Unanswered(executed) ==
  /\ "unanswered" \in Trouble
  /\ Placing \/ pc \in {"switching", "closing"}
  /\ BreaksOff(executed)
  /\ UNCHANGED memory

(* The process ends, or a cancel finds the task outside a broker call.     *)
Rebooted(executed) ==
  /\ "rebooted" \in Trouble /\ pc # "shared"
  /\ BreaksOff(executed)
  /\ Forgotten

(* A cancel that lands in a broker call is such an AttributeError too      *)
(* (broker_client.py:62, bot_engine.py:787): the tick breaks off and its   *)
(* task goes on beside the one that replaces it.  From here on the two, and*)
(* the tasks that follow them, are told apart neither in their memory nor  *)
(* in their transactions.                                                  *)
Outlives(executed) ==
  /\ "rebooted" \in Trouble
  /\ pc \in {"loaded", "switching", "selected", "closing", "placing"}
  /\ InFlight(executed)
  /\ Forgotten /\ pc' = "shared" /\ tx' = NoTx
  /\ market' = "hold" /\ signal' = NoOrder /\ count' = 0
  /\ happened' = happened \cup {"outlived"}
                         \cup (IF tx.sent \/ executed THEN {"unrecorded"} ELSE {})
  /\ UNCHANGED <<row, forcing>>

(* A step of any of them: it commits the columns it changed, whatever the  *)
(* others made of the rest, or an order of it is executed.                 *)
SharedCommit ==
  /\ pc = "shared"
  /\ row' \in [side : Sides \cup {"none"}, qty : {0, Base}]
  /\ UNCHANGED <<broker, memory, pc, tx, request, forcing, happened>>

SharedOrder(n, opened) ==
  /\ pc = "shared"
  /\ exposure' = exposure + n /\ InBound(exposure')
  /\ open' = open + opened /\ open' <= 2 * MaxOpen
  /\ UNCHANGED <<row, memory, pc, tx, request, forcing, happened>>

-----------------------------------------------------------------------------
(* force_close_position                                                    *)

ForceLoad ==
  /\ "forced" \in Trouble
  /\ forcePc = "idle" /\ Held(row)
  /\ forcePc' = "closing" /\ forceTx' = Tx(row, row, 0, FALSE)
  /\ Happens("beside", pc # "idle")
  /\ UNCHANGED <<row, broker, memory, pc, tx, request>>

ForceClosed(answer) ==
  /\ forcePc = "closing"
  /\ CloseAnswered(forceTx, answer)
  /\ forcePc' = "committing" /\ forceTx' = ClosingTx(forceTx, answer)
  /\ NotTaken(answer)
  /\ UNCHANGED <<row, open, memory, pc, tx, request>>

ForceCommit ==
  /\ forcePc = "committing"
  /\ row' = Written(forceTx)
  /\ forcePc' = "idle" /\ forceTx' = NoTx
  /\ UNCHANGED <<broker, memory, pc, tx, request, happened>>

ForceUnanswered(executed) ==
  /\ "unanswered" \in Trouble
  /\ forcePc = "closing"
  /\ IF executed THEN CloseAnswered(forceTx, "accepted") ELSE UNCHANGED exposure
  /\ forcePc' = "idle" /\ forceTx' = NoTx
  /\ Happens("unrecorded", executed)
  /\ UNCHANGED <<row, open, memory, pc, tx, request>>

ForceRollsBack ==
  /\ "uncommitted" \in Trouble
  /\ forcePc = "committing"
  /\ forcePc' = "idle" /\ forceTx' = NoTx
  /\ Happens("unrecorded", forceTx.sent)
  /\ UNCHANGED <<row, broker, memory, pc, tx, request>>

-----------------------------------------------------------------------------
(* The broker fills an order or the user cancels it.                       *)
OrderLeaves ==
  /\ open > 0
  /\ open' = open - 1
  /\ UNCHANGED <<row, exposure, memory, pc, tx, request, forcing, happened>>

Times == {1} \cup IF "resent" \in Trouble THEN {2} ELSE {}
Behind == {FALSE} \cup IF "resent" \in Trouble THEN {TRUE} ELSE {}

SignalsMade ==
  \E n \in {open, open + 1} :
    \/ EventSignals(n) \/ LadderDoubles(n) \/ LadderExits(n) \/ NoSignals(n)
    \/ \E side \in Sides : LadderEnters(n, side)
    \/ \E side \in {"BUY", "SELL"}, k \in 1..NumLevels : GridOrders(n, side, k)

Next ==
  \/ Load \/ EndsBeforeSelection \/ StopLoss
  \/ \E m \in Markets : SwitchCloses(m) \/ Select(m)
  \/ \E answer \in CloseAnswers :
       SwitchClosed(answer) \/ Closed(answer) \/ ForceClosed(answer)
  \/ SignalsMade
  \/ Skip
  \/ \E executed \in Behind : PlacementRefused(executed)
  \/ \E times \in Times, opened \in 0..1 : Placed(times, opened)
  \/ Commit \/ PlacementUnauthorized \/ Part \/ RollsBack
  \/ \E executed \in BOOLEAN :
       Unanswered(executed) \/ Rebooted(executed) \/ Outlives(executed)
         \/ ForceUnanswered(executed)
  \/ SharedCommit
  \/ \E n \in {-1, 1}, opened \in 0..1 : SharedOrder(n, opened)
  \/ ForceLoad \/ ForceCommit \/ ForceRollsBack
  \/ OrderLeaves

Spec == Init /\ [][Next]_vars

-----------------------------------------------------------------------------
(* Properties                                                              *)

PositionSides == {"BUY", "SELL", "none"}
StrategyNames == {"event_driven", "martingale", "grid", "hold"}
Positions == [side : PositionSides, qty : Nat]
Ladders == [level : 0..MaxLevels, side : PositionSides]
Orders == [side : PositionSides, qty : Nat, n : 0..NumLevels]
Transactions == [loaded : Positions, object : Positions, net : Int, sent : BOOLEAN]

TypeOK ==
  /\ row \in Positions
  /\ exposure \in Int /\ open \in Nat
  /\ strategy \in StrategyNames /\ ladder \in Ladders
  /\ pc \in {"idle", "loaded", "switching", "selected", "closing", "placing",
             "committing", "parting", "shared"}
  /\ pc = "shared" => "outlived" \in happened
  /\ pc = "placing" => signal.n > 0
  /\ tx \in Transactions
  /\ market \in Markets /\ signal \in Orders /\ count \in Nat
  /\ forcePc \in {"idle", "closing", "committing"} /\ forceTx \in Transactions
  /\ happened \in SUBSET Happenings

(* The ticks never have more orders open at the broker than the session's  *)
(* limit, however ticks break off, tasks are replaced and several signals  *)
(* of one tick follow each other on one answer of get_orders (:621-706),   *)
(* unless the broker executed more than it answered for (:77) or two tasks *)
(* counted and placed beside each other.                                   *)
OpenOrdersBounded == {"doubled", "outlived"} \cap happened = {} => open <= MaxOpen

(* One transaction at a time has written the position so far.              *)
OneWriter == {"beside", "outlived"} \cap happened = {}

(* The row never holds a part of a position: side and quantity come and go *)
(* together, whatever fails and although a commit leaves out the columns   *)
(* that did not change (_close_position, :671-684), until an administrator *)
(* closes the position while a tick runs or two tasks tick for it.         *)
PositionWhole == OneWriter => (Held(row) <=> row.qty > 0)

(* A position leaves the row only in the commit that inserts the trade of  *)
(* exactly its quantity: no failed close, broken tick, new task or forced  *)
(* close between ticks drops it (:101-152), until two transactions of it   *)
(* run beside each other.                                                  *)
PositionLeavesByTrade ==
  [][Held(row) /\ ~Held(row') /\ OneWriter
       => \E t \in {tx, forceTx} : t.net = -Quantity(row)]_vars

Quiet == pc = "idle" /\ forcePc = "idle"

(* Between ticks the row records what the broker accepted: entries and     *)
(* doublings that were refused are not in it, closes are.                  *)
PositionIsExposure == Quiet => Worth(row) = exposure

(* "Position sizing: 1% -> 2% -> 4% of portfolio on consecutive            *)
(* stop-losses" (martingale.py:3): no position exceeds the three levels.   *)
LadderCapped == row.qty <= 7 * Base

(* "bot_trades: Executed trades with realized P&L" (README.md:185): between*)
(* ticks, every order the broker accepted has its row.                     *)
TradesComplete == Quiet => "unrecorded" \notin happened

=============================================================================
