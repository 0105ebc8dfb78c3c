------------------------------ MODULE RiskGate ------------------------------
(***************************************************************************)
(* The portfolio-level risk gates of bot_engine._bot_loop for one session: *)
(* the daily profit-and-loss counter, the daily balance peak, the pauses   *)
(* they cause, the automatic resume on a new trading day, and what clients,*)
(* restarts and tasks that outlive a restart do to all of these.           *)
(*                                                                         *)
(* The counters live in the task, the status in its row.  A tick awaits    *)
(* the database and the broker between loading the row, passing the gates  *)
(* and trading, so midnight (UTC) and clients can come in between.  Money  *)
(* is counted in a whole unit, limits in percent.                          *)
(***************************************************************************)
EXTENDS Integers

CONSTANTS
  LastDay,        \* the days are 1..LastDay: bound of the clock
  Totals,         \* the total balances the broker can report
  Pnls,           \* the profit or loss one close can realise
  PnlBound,       \* bound of what a session realises in a day, either way
  DailyLimit,     \* strategy_config.daily_loss_limit_pct, in percent
  DrawdownLimit,  \* strategy_config.max_drawdown_pct, in percent
  Faults,         \* whether the commit of a status change may fail
  Restarts,       \* whether the task may be replaced by a new one
  NoPeak          \* peak_balance is None

ASSUME DaysAssumption == LastDay \in Nat \ {0}
ASSUME MoneyAssumption == Totals \subseteq Nat /\ Pnls \subseteq Int /\ PnlBound \in Nat
ASSUME LimitsAssumption == DailyLimit \in Nat \ {0} /\ DrawdownLimit \in Nat \ {0}
ASSUME FlagsAssumption == Faults \in BOOLEAN /\ Restarts \in BOOLEAN
ASSUME NoPeakAssumption == NoPeak \notin Nat

NoDay == 0        \* last_reset is None
Days == 1..LastDay

(* Definitions named Slip... are plausible slips of the code they precede. *)
(* No specification uses them: each is a mutant that a property must catch.*)

VARIABLES
  day,        \* datetime.now(UTC).date()
  status,     \* bot_sessions.status, as far as this session may trade
  pc,         \* where the tick is
  dailyPnl,   \* daily_pnl of the task
  peak,       \* peak_balance of the task
  lastReset,  \* last_reset of the task
  total,      \* total_balance: the last answer of get_balance
  lost,       \* history: what the session realised on the day its tick counts for
  highest,    \* history: the highest total the gates saw today
  others,     \* a task of the session that lost its cancel runs beside this one
  replaced,   \* history: today was not this task's alone
  pausedOn    \* history: the trading day whose limits paused the row

counters == <<dailyPnl, peak, lastReset>>
history == <<lost, highest, others, replaced>>
vars == <<day, status, pc, counters, total, history, pausedOn>>

Init ==
  /\ day = 1
  /\ status = "active"
  /\ pc = "idle"
  /\ dailyPnl = 0 /\ peak = NoPeak /\ lastReset = NoDay
  /\ total = 0
  /\ lost = 0 /\ highest = 0 /\ others = FALSE /\ replaced = FALSE
  /\ pausedOn = NoDay

-----------------------------------------------------------------------------
(* risk_manager.py                                                         *)

is_daily_loss_exceeded(pnl, balance) ==
  balance > 0 /\ -pnl * 100 >= DailyLimit * balance

is_max_drawdown_exceeded(balance, top) ==
  top > 0 /\ (top - balance) * 100 >= DrawdownLimit * top

-----------------------------------------------------------------------------
(* The tick                                                                *)

(* The row is loaded.  A paused session waits, and resumes once the day of *)
(* its counters is over.                                                   *)
SlipNewDay == lastReset < day
SlipLateDay == lastReset # NoDay /\ lastReset + 1 < day
NewDay == lastReset # NoDay /\ lastReset < day

LoadActive ==
  /\ pc = "idle" /\ status = "active"
  /\ pc' = "loaded"
  /\ UNCHANGED <<day, status, counters, total, history, pausedOn>>

SlipAutoResume ==
  /\ pc = "idle" /\ status = "paused" /\ NewDay
  /\ pc' = "resuming"
  /\ dailyPnl' = 0 /\ peak' = NoPeak /\ lastReset' = day + 1
  /\ UNCHANGED <<day, status, total, history, pausedOn>>
AutoResume ==
  /\ pc = "idle" /\ status = "paused" /\ NewDay
  /\ pc' = "resuming"
  /\ dailyPnl' = 0 /\ peak' = NoPeak /\ lastReset' = day
  /\ UNCHANGED <<day, status, total, history, pausedOn>>

(* A commit that writes the status, and what the tick goes on to.          *)
CommitResume ==
  /\ pc = "resuming"
  /\ status' = "active" /\ pausedOn' = NoDay
  /\ pc' = "loaded"
  /\ UNCHANGED <<day, counters, total, history>>

CommitPause ==
  /\ pc = "pausing"
  /\ status' = "paused" /\ pausedOn' = lastReset
  /\ pc' = "idle"
  /\ UNCHANGED <<day, counters, total, history>>

(* The broker does not answer, the symbol is halted, or the commit fails:  *)
(* the row keeps what it has and the counters what they were set to.       *)
TickGivesUp ==
  /\ pc = "loaded" \/ (Faults /\ pc \in {"resuming", "pausing"})
  /\ pc' = "idle"
  /\ UNCHANGED <<day, status, counters, total, history, pausedOn>>

(* From the answer of get_balance to the strategies, with no await unless  *)
(* a gate closes: the daily reset, then both gates.  A tick that gets here *)
(* has loaded, or assigned, a status other than "paused".                  *)
PnlNow == IF lastReset # day THEN 0 ELSE dailyPnl

SlipPeakNow(t) ==
  IF lastReset # day THEN t ELSE peak
PeakNow(t) ==
  IF lastReset # day THEN t
  ELSE IF peak # NoPeak /\ t > peak THEN t ELSE peak

GateClosed(t) ==
  \/ is_daily_loss_exceeded(PnlNow, t)
  \/ PnlNow < 0 /\ PeakNow(t) # NoPeak /\ is_max_drawdown_exceeded(t, PeakNow(t))

Gate(t) ==
  /\ pc = "loaded"
  /\ total' = t
  /\ dailyPnl' = PnlNow /\ peak' = PeakNow(t) /\ lastReset' = day
  /\ pc' = IF GateClosed(t) THEN "pausing" ELSE "trading"
  /\ highest' = IF t > highest THEN t ELSE highest
  /\ UNCHANGED <<day, status, lost, others, replaced, pausedOn>>

(* _close_position returns what it realised, and daily_pnl takes it up.  A *)
(* close that comes after midnight counts for the day of its tick.         *)
SlipClose(x) ==
  /\ pc = "trading"
  /\ {dailyPnl + x, lost + x} \subseteq (-PnlBound)..PnlBound
  /\ dailyPnl' = x
  /\ lost' = IF lastReset = day THEN lost + x ELSE lost
  /\ UNCHANGED <<day, status, pc, peak, lastReset, total, highest, others, replaced,
                 pausedOn>>
Close(x) ==
  /\ pc = "trading"
  /\ {dailyPnl + x, lost + x} \subseteq (-PnlBound)..PnlBound
  /\ dailyPnl' = dailyPnl + x
  /\ lost' = IF lastReset = day THEN lost + x ELSE lost
  /\ UNCHANGED <<day, status, pc, peak, lastReset, total, highest, others, replaced,
                 pausedOn>>

TickEnds ==
  /\ pc = "trading"
  /\ pc' = "idle"
  /\ UNCHANGED <<day, status, counters, total, history, pausedOn>>

-----------------------------------------------------------------------------
(* Around the tick                                                         *)

Midnight ==
  /\ day < LastDay
  /\ day' = day + 1
  /\ lost' = 0 /\ highest' = 0 /\ replaced' = others
  /\ UNCHANGED <<status, pc, counters, total, others, pausedOn>>

(* POST /pause, /resume, /start on a running session and PUT /config       *)
ClientPauses ==
  /\ status = "active"
  /\ status' = "paused"
  /\ UNCHANGED <<day, pc, counters, total, history, pausedOn>>

ClientResumes ==
  /\ status = "paused"
  /\ status' = "active" /\ pausedOn' = NoDay
  /\ UNCHANGED <<day, pc, counters, total, history>>

(* A new task: restore after a restart of the service keeps the status,    *)
(* POST /restart, its admin twin and a start after a stop make it active.  *)
(* The cancel of the old one is lost when it lands in a broker call, which *)
(* a loaded or trading tick awaits (broker_client.py:62): that tick fails  *)
(* and its task goes on, with counters of its own.                         *)
Restart(s, beside) ==
  /\ Restarts
  /\ beside => s = "active" /\ (others \/ pc \in {"loaded", "trading"})
  /\ status' = s
  /\ pausedOn' = IF s = "active" THEN NoDay ELSE pausedOn
  /\ pc' = "idle"
  /\ dailyPnl' = 0 /\ peak' = NoPeak /\ lastReset' = NoDay
  /\ others' = beside /\ replaced' = TRUE
  /\ UNCHANGED <<day, total, lost, highest>>

(* What a task that lost its cancel does to the session: it pauses the row *)
(* for the limits of a day it counted, resumes it by its own last_reset,   *)
(* and realises profits and losses that this task does not count.  It ends *)
(* at an inactive row, after which only a Restart makes the session trade. *)
OtherPauses(d) ==
  /\ others /\ d <= day
  /\ status' = "paused" /\ pausedOn' = d
  /\ UNCHANGED <<day, pc, counters, total, history>>

OtherResumes ==
  /\ others
  /\ status' = "active" /\ pausedOn' = NoDay
  /\ UNCHANGED <<day, pc, counters, total, history>>

OtherCloses(x) ==
  /\ others /\ lost + x \in (-PnlBound)..PnlBound
  /\ lost' = lost + x
  /\ UNCHANGED <<day, status, pc, counters, total, highest, others, replaced, pausedOn>>

OtherTask ==
  \/ \E d \in Days : OtherPauses(d)
  \/ OtherResumes
  \/ \E x \in Pnls : OtherCloses(x)

TickStep ==
  \/ LoadActive \/ AutoResume \/ CommitResume \/ CommitPause \/ TickGivesUp
  \/ \E t \in Totals : Gate(t)
  \/ TickEnds

Next ==
  \/ TickStep
  \/ \E x \in Pnls : Close(x)
  \/ Midnight \/ ClientPauses \/ ClientResumes
  \/ \E s \in {status, "active"}, beside \in BOOLEAN : Restart(s, beside)
  \/ OtherTask

Spec == Init /\ [][Next]_vars

(* Liveness only: the task of a session is scheduled, every call it awaits *)
(* is answered or times out (broker_client and the feed bound their waits),*)
(* and a tick places finitely many orders.  The clock owes nothing.        *)
FairSpec == Spec /\ WF_vars(TickStep)

-----------------------------------------------------------------------------
(* Properties                                                              *)

TypeOK ==
  /\ day \in Days
  /\ status \in {"active", "paused"}
  /\ pc \in {"idle", "loaded", "resuming", "pausing", "trading"}
  /\ dailyPnl \in Int
  /\ peak \in Nat \cup {NoPeak}
  /\ lastReset \in Days \cup {NoDay}
  /\ total \in Nat
  /\ lost \in Int /\ highest \in Nat /\ others \in BOOLEAN /\ replaced \in BOOLEAN
  /\ pausedOn \in Days \cup {NoDay}

(* A tick goes past the gates to the strategies                            *)
PassesGates == pc = "loaded" /\ pc' = "trading"

(* No tick trades while what the session realised today exceeds the daily  *)
(* limit of the balance it has, on a day that was its task's alone: neither*)
(* a resume by the client, nor a midnight or a new task of an earlier day, *)
(* nor a failed commit lets it past (:387-413).  The counter is the task's:*)
(* one started today, or one that lost its cancel and runs beside it, has  *)
(* its own, and the limit holds for neither sum.                           *)
DailyLossGate ==
  [][PassesGates /\ ~replaced => ~is_daily_loss_exceeded(lost', total')]_vars

(* With a peak recorded, a session that lost money today does not trade    *)
(* while its balance is that far below the day's highest, on a day that was*)
(* its task's alone (:387-439).                                            *)
ArmedDrawdownGate ==
  [][PassesGates /\ ~replaced /\ lost' < 0 /\ peak' # NoPeak
       => ~is_max_drawdown_exceeded(total', highest')]_vars

(* The tick that resumes a session never lifts a pause its limits caused   *)
(* the same day, however client resumes, failed commits and new tasks come *)
(* between the decision and its commit (bot_engine.py:245), unless a second*)
(* task of the session runs beside it: its pause is lifted by the next tick*)
(* of one whose last_reset is of an earlier day.                           *)
PauseHoldsToday ==
  [][pausedOn = day /\ pausedOn' # day /\ ~others => ~CommitResume]_vars

(* The task does not know that a day has passed since the pause: it is a   *)
(* new one, or the commit of today's resume failed after the reset.        *)
Forgotten == lastReset = NoDay \/ (pc = "idle" /\ lastReset = day)

(* "a pause that was triggered by the daily-loss or drawdown limit is no   *)
(* longer valid once the day rolls over" (bot_engine.py:242): the row is   *)
(* resumed, whatever clients, midnights and other tasks do between, unless *)
(* a restart or a failed commit made the task forget.                      *)
LimitPauseExpires ==
  \A d \in Days : (pausedOn = d /\ day > d) ~> (pausedOn # d \/ Forgotten)

=============================================================================
