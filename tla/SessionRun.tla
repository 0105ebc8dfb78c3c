----------------------------- MODULE SessionRun -----------------------------
(***************************************************************************)
(* Ticks of several sessions of one symbol, from the read of the row over  *)
(* the halt check to the end, as bot_engine._bot_loop composes them with   *)
(* the cache of the halt flag that all of them share (MarketCache), while  *)
(* clients pause, resume and stop the sessions.                            *)
(*                                                                         *)
(* Registry, token and restarts are in BotSessions, the risk gates and the *)
(* resume on a new day in RiskGate, the orders in OrderFeed and TradingTick*)
(***************************************************************************)
EXTENDS MarketCache

CONSTANTS
  Faults    \* whether a halt check or a commit may fail

ASSUME FaultsAssumption == Faults \in BOOLEAN

VARIABLES
  row,    \* bot_sessions.status
  tick,   \* where the tick of each session is, the status it has loaded, and
          \* what its commit in flight writes
  blind,  \* history: something failed in the latest tick
  firm    \* history: the row was paused when no tick was under way, or has been
          \* left paused by the one that was

vars == <<market, cache, row, tick, blind, firm>>

Tick(pc, seen, want) == [pc |-> pc, seen |-> seen, want |-> want]
Rests == Tick("idle", "none", "none")
Over == Tick("ended", "none", "none")
Sees(s, pc) == Tick(pc, tick[s].seen, "none")
Goes(s, k) == tick' = [tick EXCEPT ![s] = k]

Init ==
  /\ CacheInit
  /\ row = [s \in Readers |-> "active"]
  /\ tick = [s \in Readers |-> Rests]
  /\ blind = [s \in Readers |-> FALSE]
  /\ firm = [s \in Readers |-> FALSE]

(* A tick that ends leaves a paused row to the ticks to come.              *)
TickOver(s) ==
  /\ Goes(s, Rests)
  /\ firm' = [firm EXCEPT ![s] = row[s] = "paused"]

-----------------------------------------------------------------------------
(* The tick                                                                *)

(* What follows the answer of is_halted                                    *)
SlipDecides(s, seen, answer) ==
  \/ answer /\ seen = "halted" /\ TickOver(s)
  \/ answer /\ seen # "halted"
     /\ Goes(s, Tick("writing", seen, "halted")) /\ UNCHANGED firm
  \/ ~answer /\ Goes(s, Tick("trading", seen, "none")) /\ UNCHANGED firm
Decides(s, seen, answer) ==
  \/ answer /\ seen = "halted" /\ TickOver(s)
  \/ answer /\ seen # "halted"
     /\ Goes(s, Tick("writing", seen, "halted")) /\ UNCHANGED firm
  \/ ~answer /\ seen = "halted"
     /\ Goes(s, Tick("writing", seen, "active")) /\ UNCHANGED firm
  \/ ~answer /\ seen # "halted"
     /\ Goes(s, Tick("trading", seen, "none")) /\ UNCHANGED firm

(* The row is loaded.  A paused one ends the tick and a deactivated one the*)
(* task; the others go on to the halt check, which a fresh entry answers.  *)
SlipWaitsPaused(s) == FALSE
WaitsPaused(s) == row[s] = "paused"

TickLoads(s) ==
  /\ tick[s].pc = "idle" /\ ~WaitsPaused(s)
  /\ blind' = [blind EXCEPT ![s] = FALSE]
  /\ IF row[s] = "deactivated"
     THEN Goes(s, Over) /\ UNCHANGED <<cache, firm>>
     ELSE \/ Hit /\ Decides(s, row[s], entry.value) /\ UNCHANGED cache
          \/ Asks(s) /\ Goes(s, Tick("checking", row[s], "none")) /\ UNCHANGED firm
  /\ UNCHANGED <<market, row>>

CheckMade(s) == AnswerMade(s) /\ UNCHANGED <<row, tick, blind, firm>>

CheckAnswered(s) ==
  /\ tick[s].pc = "checking"
  /\ Stores(s)
  /\ Decides(s, tick[s].seen, fetch[s].value)
  /\ UNCHANGED <<market, row, blind>>

(* A BrokerAPIError other than 401 is logged, and the tick goes on to trade*)
(* whatever it has loaded; any other error of the client ends the tick.    *)
CheckFails(s) ==
  /\ Faults
  /\ tick[s].pc = "checking"
  /\ StopsWaiting(s)
  /\ blind' = [blind EXCEPT ![s] = TRUE]
  /\ \/ Goes(s, Sees(s, "trading")) /\ UNCHANGED firm
     \/ TickOver(s)
  /\ UNCHANGED <<market, row>>

(* The commit of the new status lands: HALT_DETECTED ends the tick,        *)
(* HALT_CLEARED lets it go on.                                             *)
TickCommits(s) ==
  /\ tick[s].pc = "writing"
  /\ row' = [row EXCEPT ![s] = tick[s].want]
  /\ firm' = [firm EXCEPT ![s] = FALSE]
  /\ Goes(s, IF tick[s].want = "halted" THEN Rests
             ELSE Tick("trading", tick[s].want, "none"))
  /\ UNCHANGED <<market, cache, blind>>

TickCommitFails(s) ==
  /\ Faults
  /\ tick[s].pc = "writing"
  /\ TickOver(s)
  /\ blind' = [blind EXCEPT ![s] = TRUE]
  /\ UNCHANGED <<market, cache, row>>

TickEnds(s) ==
  /\ tick[s].pc = "trading"
  /\ TickOver(s)
  /\ UNCHANGED <<market, cache, row, blind>>

-----------------------------------------------------------------------------
(* Clients, the broker and time                                            *)

Pauses(s) ==
  /\ row[s] \in {"active", "halted"}
  /\ row' = [row EXCEPT ![s] = "paused"]
  /\ firm' = [firm EXCEPT ![s] = tick[s].pc = "idle"]
  /\ UNCHANGED <<market, cache, tick, blind>>

Resumes(s) ==
  /\ row[s] \in {"paused", "halted"}
  /\ row' = [row EXCEPT ![s] = "active"]
  /\ firm' = [firm EXCEPT ![s] = FALSE]
  /\ UNCHANGED <<market, cache, tick, blind>>

(* stop_bot cancels the task, which ends, before the commit; no one starts *)
(* the session again.                                                      *)
Stops(s) ==
  /\ tick[s].pc # "ended"
  /\ Goes(s, Over)
  /\ StopsWaiting(s)
  /\ row' = [row EXCEPT ![s] = "deactivated"]
  /\ firm' = [firm EXCEPT ![s] = FALSE]
  /\ UNCHANGED <<market, blind>>

(* The cancel is lost in a broker call (broker_client.py:62): for the loop *)
(* that is a failed tick, and the next one loads the row again, before or  *)
(* after the commit of the stop lands.                                     *)
CancelLost(s) ==
  /\ tick[s].pc \in {"checking", "trading"}
  /\ TickOver(s)
  /\ StopsWaiting(s)
  /\ blind' = [blind EXCEPT ![s] = TRUE]
  /\ UNCHANGED <<market, row>>

Deactivates(s) ==
  /\ tick[s].pc # "ended"
  /\ row' = [row EXCEPT ![s] = "deactivated"]
  /\ firm' = [firm EXCEPT ![s] = FALSE]
  /\ UNCHANGED <<market, cache, tick, blind>>

ClockTicks == TimePasses /\ UNCHANGED <<row, tick, blind, firm>>
Flips == MarketFlips /\ UNCHANGED <<row, tick, blind, firm>>

TickStep(s) ==
  \/ TickLoads(s) \/ CheckAnswered(s) \/ CheckFails(s)
  \/ TickCommits(s) \/ TickCommitFails(s)
  \/ TickEnds(s)

Next ==
  \/ \E s \in Readers :
       \/ TickStep(s) \/ CheckMade(s)
       \/ Pauses(s) \/ Resumes(s) \/ Stops(s) \/ CancelLost(s) \/ Deactivates(s)
  \/ ClockTicks \/ Flips

Spec == Init /\ [][Next]_vars

(* Liveness only: ready tasks are scheduled, the broker answers or the     *)
(* client's timeout of ten seconds ends its wait, a tick places finitely   *)
(* many orders, and time passes.  Nothing is assumed of clients or of the  *)
(* market.                                                                 *)
FairSpec ==
  /\ Spec
  /\ \A s \in Readers : WF_vars(TickStep(s)) /\ WF_vars(CheckMade(s))
  /\ WF_vars(ClockTicks)

-----------------------------------------------------------------------------
(* Properties                                                              *)

RowValues == {"active", "halted", "paused", "deactivated"}
Ticks == [pc : {"idle", "checking", "writing", "trading", "ended"},
          seen : {"none", "halted", "active"}, want : {"none", "halted", "active"}]

TypeOK ==
  /\ CacheTypes
  /\ row \in [Readers -> RowValues]
  /\ tick \in [Readers -> Ticks]
  /\ blind \in [Readers -> BOOLEAN] /\ firm \in [Readers -> BOOLEAN]

(* A tick that goes on to trade, or to lift the halt of its row, because it*)
(* was told that the symbol is not halted                                  *)
GoesOn(s) ==
  /\ tick[s].pc \in {"idle", "checking"} /\ ~blind'[s]
  /\ tick'[s].pc = "trading" \/ tick'[s].want = "active"

(* No tick goes on by an answer older than the cache's time to live, or    *)
(* than its own wait for the broker: whichever of several tasks asked, was *)
(* answered and stored last, the symbol was not halted that recently.      *)
GoesOnByRecentAnswer ==
  [][\A s \in Readers : GoesOn(s) =>
       \/ ago[FALSE] < Ttl
       \/ Waiting(s) /\ ago[FALSE] <= fetch[s].age]_vars

(* A tick trades for a row it has loaded as halted only if its halt check  *)
(* failed, which the loop takes for "go on" (bot_engine.py:328).           *)
HaltTradesOnlyBlind ==
  \A s \in Readers :
    tick[s].pc = "trading" /\ tick[s].seen = "halted" => blind[s]

(* A pause is lost only to the commit of a tick that was under way when it *)
(* came (bot_engine.py:287): once such a tick is over, the row stays paused*)
(* and the session at rest until a client lifts the pause.                 *)
FirmPauseHolds ==
  \A s \in Readers : firm[s] => row[s] = "paused" /\ tick[s].pc = "idle"

(* A row that was halted is active again once the symbol trades, unless    *)
(* something fails, the symbol halts again or a client intervenes: neither *)
(* a cached answer nor another session's late one keeps it halted for good.*)
HaltClears ==
  \A s \in Readers :
    (row[s] = "halted" /\ ~halted) ~> (row[s] # "halted" \/ halted \/ blind[s])
=============================================================================
