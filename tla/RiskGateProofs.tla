--------------------------- MODULE RiskGateProofs ---------------------------
(***************************************************************************)
(* What holds of RiskGate for every balance, limit and number of days.     *)
(* Calendar orders the days the counters and the pause belong to while the *)
(* task has the session for itself; Ledger says that its counters are what *)
(* happened on the current day, when no other task had a part in it.       *)
(***************************************************************************)
EXTENDS RiskGate, TLAPS

Calendar ==
  /\ lastReset <= day
  /\ pausedOn <= day
  /\ others => replaced
  /\ others \/ lastReset = NoDay \/ pausedOn <= lastReset
  /\ ~others /\ pc = "resuming" => pausedOn < day
  /\ pc \in {"trading", "pausing", "resuming"} => lastReset # NoDay

Ledger ==
  ~replaced =>
    /\ lastReset = day => lost = dailyPnl
    /\ lastReset # day => lost = 0 /\ highest = 0
    /\ lastReset = day /\ peak # NoPeak => peak = highest

-----------------------------------------------------------------------------
(* Every reachable state is well typed, and its days are in order: a row   *)
(* that resumes was paused on an earlier day.                              *)
LEMMA CalendarHolds == Spec => [](TypeOK /\ Calendar)
<1>1. Init => TypeOK /\ Calendar
  <2>1. Init => replaced \in BOOLEAN /\ others \in BOOLEAN /\ ~others
    BY DEF Init
  <2> QED BY <2>1, DaysAssumption DEF Init, TypeOK, Calendar, Days, NoDay
<1>2. TypeOK /\ Calendar /\ [Next]_vars => (TypeOK /\ Calendar)'
  <2> SUFFICES ASSUME TypeOK, Calendar, [Next]_vars
               PROVE  (TypeOK /\ Calendar)'
    OBVIOUS
  <2> USE DaysAssumption DEF TypeOK, Calendar, Days, NoDay, counters, history
  <2>1. CASE LoadActive
    BY <2>1 DEF LoadActive
  <2>2. CASE AutoResume
    BY <2>2 DEF AutoResume, NewDay
  <2>3. CASE CommitResume
    BY <2>3 DEF CommitResume
  <2>4. CASE CommitPause
    BY <2>4 DEF CommitPause
  <2>5. CASE TickGivesUp
    BY <2>5 DEF TickGivesUp
  <2>6. ASSUME NEW t \in Totals, Gate(t) PROVE (TypeOK /\ Calendar)'
    <3>1. t \in Nat /\ PeakNow(t) \in Nat \cup {NoPeak} /\ PnlNow \in Int
      BY MoneyAssumption DEF PeakNow, PnlNow
    <3>2. others' = others /\ replaced' = replaced
      BY <2>6 DEF Gate
    <3> QED BY <2>6, <3>1, <3>2 DEF Gate
  <2>7. CASE TickEnds
    BY <2>7 DEF TickEnds
  <2>8. ASSUME NEW x \in Pnls, Close(x) PROVE (TypeOK /\ Calendar)'
    BY <2>8, MoneyAssumption DEF Close
  <2>9. CASE Midnight
    <3>1. others' = others /\ replaced' = others
      BY <2>9 DEF Midnight
    <3> QED BY <2>9, <3>1 DEF Midnight
  <2>10. CASE ClientPauses
    BY <2>10 DEF ClientPauses
  <2>11. CASE ClientResumes
    BY <2>11 DEF ClientResumes
  <2>12. ASSUME NEW s \in {status, "active"}, NEW beside \in BOOLEAN, Restart(s, beside)
         PROVE  (TypeOK /\ Calendar)'
    <3>1. others' = beside /\ replaced'
      BY <2>12 DEF Restart
    <3> QED BY <2>12, <3>1 DEF Restart
  <2>13. ASSUME NEW d \in Days, OtherPauses(d) PROVE (TypeOK /\ Calendar)'
    BY <2>13 DEF OtherPauses
  <2>14. CASE OtherResumes
    BY <2>14 DEF OtherResumes
  <2>15. ASSUME NEW x \in Pnls, OtherCloses(x) PROVE (TypeOK /\ Calendar)'
    BY <2>15, MoneyAssumption DEF OtherCloses
  <2>16. CASE UNCHANGED vars
    BY <2>16 DEF vars
  <2> QED
    BY <2>1, <2>2, <2>3, <2>4, <2>5, <2>6, <2>7, <2>8, <2>9, <2>10, <2>11,
       <2>12, <2>13, <2>14, <2>15, <2>16 DEF Next, TickStep, OtherTask
<1> QED BY <1>1, <1>2, PTL DEF Spec

(* Every reachable state of the gates and their counters is well typed.    *)
THEOREM TypeCorrect == Spec => []TypeOK
BY CalendarHolds, PTL

(* No tick lifts a limit pause on the day it was set (bot_engine.py:245),  *)
(* new tasks and failed commits included, while no other task is left that *)
(* may have set it.                                                        *)
THEOREM PauseHoldsTodayCorrect == Spec => PauseHoldsToday
<1>1. TypeOK /\ Calendar /\ [Next]_vars
        => [pausedOn = day /\ pausedOn' # day /\ ~others => ~CommitResume]_vars
  BY DaysAssumption DEF TypeOK, Calendar, CommitResume, Days, NoDay
<1> QED BY <1>1, CalendarHolds, PTL DEF Spec, PauseHoldsToday

-----------------------------------------------------------------------------
(* On a day a task had for itself, its counters are the day's truth.       *)
LEMMA LedgerHolds == Spec => []Ledger
<1>1. Init => Ledger
  BY DEF Init, Ledger, NoDay
<1>2. TypeOK /\ Calendar /\ Ledger /\ [Next]_vars => Ledger'
  <2> SUFFICES ASSUME TypeOK, Calendar, Ledger, [Next]_vars
               PROVE  Ledger'
    OBVIOUS
  <2> USE DEF TypeOK, Calendar, Ledger, Days, NoDay, counters, history
  <2>1. CASE LoadActive
    BY <2>1 DEF LoadActive
  <2>2. CASE AutoResume
    BY <2>2 DEF AutoResume, NewDay
  <2>3. CASE CommitResume
    BY <2>3 DEF CommitResume
  <2>4. CASE CommitPause
    BY <2>4 DEF CommitPause
  <2>5. CASE TickGivesUp
    BY <2>5 DEF TickGivesUp
  <2>6. ASSUME NEW t \in Totals, Gate(t) PROVE Ledger'
    <3>1. t \in Nat /\ lastReset' = day' /\ lost' = lost /\ replaced' = replaced
      BY <2>6, MoneyAssumption DEF Gate
    <3>2. ~replaced => dailyPnl' = lost'
      BY <2>6 DEF Gate, PnlNow
    <3>3. ~replaced /\ peak' # NoPeak => peak' = highest'
      BY <2>6, <3>1, NoPeakAssumption DEF Gate, PeakNow
    <3> QED BY <3>1, <3>2, <3>3
  <2>7. CASE TickEnds
    BY <2>7 DEF TickEnds
  <2>8. ASSUME NEW x \in Pnls, Close(x) PROVE Ledger'
    BY <2>8, MoneyAssumption DEF Close
  <2>9. CASE Midnight
    BY <2>9 DEF Midnight
  <2>10. CASE ClientPauses
    BY <2>10 DEF ClientPauses
  <2>11. CASE ClientResumes
    BY <2>11 DEF ClientResumes
  <2>12. ASSUME NEW s \in {status, "active"}, NEW beside \in BOOLEAN, Restart(s, beside)
         PROVE  Ledger'
    BY <2>12 DEF Restart
  <2>13. CASE OtherTask
    BY <2>13 DEF OtherTask, OtherPauses, OtherResumes, OtherCloses
  <2>14. CASE UNCHANGED vars
    BY <2>14 DEF vars
  <2> QED
    BY <2>1, <2>2, <2>3, <2>4, <2>5, <2>6, <2>7, <2>8, <2>9, <2>10, <2>11,
       <2>12, <2>13, <2>14 DEF Next, TickStep
<1> QED BY <1>1, <1>2, CalendarHolds, PTL DEF Spec

(* A step that passes the gates is the Gate of some balance, found open.   *)
LEMMA GateFound ==
  ASSUME [Next]_vars, PassesGates
  PROVE  \E t \in Totals : Gate(t) /\ ~GateClosed(t)
<1> USE DEF PassesGates
<1>1. CASE UNCHANGED vars
  BY <1>1 DEF vars
<1>2. ASSUME NEW t \in Totals, Gate(t) PROVE ~GateClosed(t)
  BY <1>2 DEF Gate
<1> QED
  BY <1>1, <1>2 DEF Next, TickStep, LoadActive, AutoResume, CommitResume,
     CommitPause, TickGivesUp, TickEnds, Close, Midnight, ClientPauses,
     ClientResumes, Restart, OtherTask, OtherPauses, OtherResumes, OtherCloses

(* On a day a task had for itself, no tick trades while the realised loss  *)
(* meets the daily limit (bot_engine.py:387-413), whatever resumes,        *)
(* midnights, failures and new tasks of other days come between.           *)
THEOREM DailyLossGateCorrect == Spec => DailyLossGate
<1>1. Ledger' /\ [Next]_vars
        => [PassesGates /\ ~replaced => ~is_daily_loss_exceeded(lost', total')]_vars
  <2> SUFFICES ASSUME Ledger', [Next]_vars, PassesGates, ~replaced
               PROVE  ~is_daily_loss_exceeded(lost', total')
    OBVIOUS
  <2>1. PICK t \in Totals : Gate(t) /\ ~GateClosed(t)
    BY GateFound
  <2>2. ~is_daily_loss_exceeded(PnlNow, t)
    BY <2>1 DEF GateClosed
  <2>3. total' = t /\ dailyPnl' = PnlNow /\ lost' = dailyPnl'
    BY <2>1 DEF Gate, Ledger
  <2> QED BY <2>2, <2>3
<1> QED BY <1>1, LedgerHolds, PTL DEF Spec, DailyLossGate

(* On a day a task had for itself, a session with a recorded peak and a    *)
(* loss does not trade that far below the day's highest balance.           *)
THEOREM ArmedDrawdownGateCorrect == Spec => ArmedDrawdownGate
<1>1. Ledger' /\ [Next]_vars
        => [PassesGates /\ ~replaced /\ lost' < 0 /\ peak' # NoPeak
              => ~is_max_drawdown_exceeded(total', highest')]_vars
  <2> SUFFICES ASSUME Ledger', [Next]_vars, PassesGates, ~replaced, lost' < 0,
                      peak' # NoPeak
               PROVE  ~is_max_drawdown_exceeded(total', highest')
    OBVIOUS
  <2>1. PICK t \in Totals : Gate(t) /\ ~GateClosed(t)
    BY GateFound
  <2>2. total' = t /\ dailyPnl' = PnlNow /\ peak' = PeakNow(t)
        /\ lost' = dailyPnl' /\ peak' = highest'
    BY <2>1 DEF Gate, Ledger
  <2>3. ~is_max_drawdown_exceeded(t, PeakNow(t))
    BY <2>1, <2>2 DEF GateClosed
  <2> QED BY <2>2, <2>3
<1> QED BY <1>1, LedgerHolds, PTL DEF Spec, ArmedDrawdownGate

=============================================================================
