-------------------------- MODULE SessionRunProofs --------------------------
(***************************************************************************)
(* Proofs about SessionRun and the cache its sessions share: types, that   *)
(* the cache never makes an answer look younger than it is, that no tick   *)
(* goes on by an older one, that only a failed check trades through a halt *)
(* and that a pause no tick is under way to overwrite holds.               *)
(***************************************************************************)
EXTENDS SessionRun, TLAPS

(* An answer on its way, like one in the cache, was true no longer ago than*)
(* its reader asked.                                                       *)
AnswersInv ==
  /\ ago[halted] = 0
  /\ NeverYounger
  /\ \A s \in Readers : fetch[s].answered => Waiting(s) /\ ago[fetch[s].value] <= fetch[s].age

(* What a tick decides is in `want` until it is committed, and no tick that*)
(* has yet to decide wants anything.                                       *)
TicksInv ==
  \A s \in Readers :
    /\ tick[s].pc \in {"idle", "checking"} => tick[s].want = "none"
    /\ tick[s].pc = "writing" => tick[s].want \in {"halted", "active"}
    /\ tick[s].pc = "checking" => tick[s].seen \in {"halted", "active"}

IInv == TypeOK /\ AnswersInv /\ TicksInv /\ HaltTradesOnlyBlind /\ FirmPauseHolds

LEMMA OlderMonotone ==
  ASSUME NEW x \in Ages, NEW y \in Ages
  PROVE  /\ Older(x) \in Ages
         /\ x <= y => Older(x) <= Older(y)
         /\ x <= Older(x)
BY AgesAssumption DEF Older, Ages

LEMMA Below ==
  ASSUME NEW x \in Ages, NEW y \in Ages, x <= y, y < Ttl
  PROVE  x < Ttl
BY AgesAssumption DEF Ages

LEMMA OlderNone == Older(NoAge) = NoAge
BY NoAgeAssumption DEF Older

-----------------------------------------------------------------------------
LEMMA InitHolds == Init => IInv
<1> SUFFICES ASSUME Init PROVE IInv
  OBVIOUS
<1>1. TypeOK
  <2>1. CacheTypes
    <3>1. 0 \in Ages /\ MaxAge \in Ages
      BY AgesAssumption DEF Ages
    <3>2. ago \in [BOOLEAN -> Ages]
      BY <3>1 DEF Init, CacheInit
    <3> QED
      BY <3>2 DEF Init, CacheInit, CacheTypes, NoEntry, Entry, NoFetch, Fetch
  <2>2. tick \in [Readers -> Ticks]
    BY DEF Init, Ticks, Rests, Tick
  <2> QED
    BY <2>1, <2>2 DEF Init, TypeOK, RowValues
<1>2. AnswersInv
  BY DEF Init, CacheInit, AnswersInv, NeverYounger, NoEntry, Entry, NoFetch, Fetch, Waiting
<1>3. TicksInv /\ HaltTradesOnlyBlind /\ FirmPauseHolds
  BY DEF Init, TicksInv, HaltTradesOnlyBlind, FirmPauseHolds, Rests, Tick
<1> QED
  BY <1>1, <1>2, <1>3 DEF IInv

-----------------------------------------------------------------------------
(* The cache                                                               *)

CacheVars == <<market, cache>>

(* What a step does to the cache and its readers                           *)
CacheStep ==
  \/ \E s \in Readers : AnswerMade(s) \/ (Asks(s) /\ UNCHANGED market)
                        \/ ((Stores(s) \/ StopsWaiting(s)) /\ UNCHANGED market)
  \/ TimePasses \/ MarketFlips \/ UNCHANGED CacheVars

LEMMA CacheView ==
  ASSUME [Next]_vars
  PROVE  CacheStep
BY DEF Next, TickStep, TickLoads, CheckMade, CheckAnswered, CheckFails, TickCommits,
   TickCommitFails, TickEnds, Pauses, Resumes, Stops, CancelLost,
   Deactivates, ClockTicks, Flips, CacheStep, CacheVars, vars

LEMMA CacheStepKeeps ==
  ASSUME CacheTypes, AnswersInv, CacheStep
  PROVE  CacheTypes' /\ AnswersInv'
<1> USE AgesAssumption, NoAgeAssumption
<1>1. ASSUME NEW s \in Readers, AnswerMade(s) PROVE CacheTypes' /\ AnswersInv'
  BY <1>1 DEF AnswerMade, CacheTypes, AnswersInv, NeverYounger, Waiting, Fetch, Ages, market
<1>2. ASSUME NEW s \in Readers, Asks(s), UNCHANGED market PROVE CacheTypes' /\ AnswersInv'
  BY <1>2 DEF Asks, CacheTypes, AnswersInv, NeverYounger, Waiting, Fetch, Ages, market
<1>3. ASSUME NEW s \in Readers, Stores(s), UNCHANGED market PROVE CacheTypes' /\ AnswersInv'
  BY <1>3 DEF Stores, Remembers, CacheTypes, AnswersInv, NeverYounger, Waiting, Entry, NoFetch,
     Fetch, Ages, market
<1>4. ASSUME NEW s \in Readers, StopsWaiting(s), UNCHANGED market PROVE CacheTypes' /\ AnswersInv'
  BY <1>4 DEF StopsWaiting, CacheTypes, AnswersInv, NeverYounger, Waiting, NoFetch, Fetch, Ages, market
<1>5. CASE TimePasses
  <2>1. CacheTypes'
    BY <1>5, OlderMonotone, OlderNone DEF TimePasses, CacheTypes, Ages
  <2>2. ago'[halted'] = 0
    BY <1>5 DEF TimePasses, CacheTypes
  <2>3. \A v \in BOOLEAN, x \in Ages : ago[v] <= x => ago'[v] <= Older(x)
    BY <1>5, OlderMonotone DEF TimePasses, CacheTypes, Ages
  <2>4. NeverYounger'
    BY <1>5, <2>3, OlderNone DEF TimePasses, AnswersInv, NeverYounger, CacheTypes
  <2>5. ASSUME NEW s \in Readers, fetch'[s].answered
        PROVE  Waiting(s)' /\ ago'[fetch'[s].value] <= fetch'[s].age
    <3>1. /\ fetch'[s].answered = fetch[s].answered /\ fetch'[s].value = fetch[s].value
          /\ fetch'[s].age = Older(fetch[s].age)
      BY <1>5 DEF TimePasses, CacheTypes
    <3>2. fetch[s].answered
      BY <2>5, <3>1
    <3>3. fetch[s].age \in Ages /\ fetch[s].value \in BOOLEAN /\ ago[fetch[s].value] <= fetch[s].age
      BY <3>2 DEF AnswersInv, Waiting, CacheTypes
    <3> QED
      BY <2>3, <3>1, <3>3, OlderMonotone DEF Waiting, Ages
  <2> QED
    BY <2>1, <2>2, <2>4, <2>5 DEF AnswersInv
<1>6. CASE MarketFlips
  BY <1>6 DEF MarketFlips, CacheTypes, AnswersInv, NeverYounger, Waiting, Ages, cache
<1>7. CASE UNCHANGED CacheVars
  BY <1>7 DEF CacheVars, CacheTypes, AnswersInv, NeverYounger, Waiting, market, cache
<1> QED
  BY <1>1, <1>2, <1>3, <1>4, <1>5, <1>6, <1>7 DEF CacheStep

-----------------------------------------------------------------------------
(* The ticks                                                               *)

SessionInv ==
  /\ row \in [Readers -> RowValues] /\ tick \in [Readers -> Ticks]
  /\ blind \in [Readers -> BOOLEAN] /\ firm \in [Readers -> BOOLEAN]
  /\ TicksInv /\ HaltTradesOnlyBlind /\ FirmPauseHolds

(* The invariant of one session                                            *)
SessionOK(s) ==
  /\ row[s] \in RowValues /\ tick[s] \in Ticks
  /\ blind[s] \in BOOLEAN /\ firm[s] \in BOOLEAN
  /\ tick[s].pc \in {"idle", "checking"} => tick[s].want = "none"
  /\ tick[s].pc = "writing" => tick[s].want \in {"halted", "active"}
  /\ tick[s].pc = "checking" => tick[s].seen \in {"halted", "active"}
  /\ tick[s].pc = "trading" /\ tick[s].seen = "halted" => blind[s]
  /\ firm[s] => row[s] = "paused" /\ tick[s].pc = "idle"

(* A step touches one session.                                             *)
OnlyTouches(s) ==
  \E r, k, b, f :
    /\ row' = [row EXCEPT ![s] = r] /\ tick' = [tick EXCEPT ![s] = k]
    /\ blind' = [blind EXCEPT ![s] = b] /\ firm' = [firm EXCEPT ![s] = f]

LEMMA Touches ==
  ASSUME NEW s, NEW r, NEW k, NEW b, NEW f,
         row' = [row EXCEPT ![s] = r], tick' = [tick EXCEPT ![s] = k],
         blind' = [blind EXCEPT ![s] = b], firm' = [firm EXCEPT ![s] = f]
  PROVE  OnlyTouches(s)
BY Zenon DEF OnlyTouches

LEMMA OneSession ==
  ASSUME SessionInv, NEW s \in Readers, OnlyTouches(s), SessionOK(s)'
  PROVE  SessionInv'
<1>1. PICK r, k, b, f :
        /\ row' = [row EXCEPT ![s] = r] /\ tick' = [tick EXCEPT ![s] = k]
        /\ blind' = [blind EXCEPT ![s] = b] /\ firm' = [firm EXCEPT ![s] = f]
  BY DEF OnlyTouches
<1>2. r \in RowValues /\ k \in Ticks /\ b \in BOOLEAN /\ f \in BOOLEAN
  BY <1>1 DEF SessionInv, SessionOK
<1>3. /\ row' \in [Readers -> RowValues] /\ tick' \in [Readers -> Ticks]
      /\ blind' \in [Readers -> BOOLEAN] /\ firm' \in [Readers -> BOOLEAN]
  BY <1>1, <1>2 DEF SessionInv
<1>4. \A d \in Readers \ {s} :
        row'[d] = row[d] /\ tick'[d] = tick[d] /\ blind'[d] = blind[d] /\ firm'[d] = firm[d]
  BY <1>1 DEF SessionInv
<1>5. TicksInv' /\ HaltTradesOnlyBlind' /\ FirmPauseHolds'
  BY <1>4 DEF SessionInv, SessionOK, TicksInv, HaltTradesOnlyBlind, FirmPauseHolds
<1> QED
  BY <1>3, <1>5 DEF SessionInv

LEMMA Member ==
  ASSUME SessionInv, NEW s \in Readers
  PROVE  SessionOK(s)
BY DEF SessionInv, SessionOK, TicksInv, HaltTradesOnlyBlind, FirmPauseHolds

LEMMA Same ==
  ASSUME SessionInv, NEW s \in Readers
  PROVE  /\ row = [row EXCEPT ![s] = row[s]] /\ tick = [tick EXCEPT ![s] = tick[s]]
         /\ blind = [blind EXCEPT ![s] = blind[s]] /\ firm = [firm EXCEPT ![s] = firm[s]]
BY DEF SessionInv

(* A tick that ends leaves its row as it is.                               *)
LEMMA TickOverKeeps ==
  ASSUME SessionInv, NEW s \in Readers, TickOver(s), row' = row,
         NEW b \in BOOLEAN, blind' = [blind EXCEPT ![s] = b]
  PROVE  OnlyTouches(s) /\ SessionOK(s)'
<1>1. tick'[s] = Rests /\ firm'[s] = (row[s] = "paused") /\ blind'[s] = b
  BY DEF TickOver, Goes, SessionInv
<1>2. OnlyTouches(s)
  <2>1. /\ row' = [row EXCEPT ![s] = row[s]] /\ tick' = [tick EXCEPT ![s] = Rests]
        /\ firm' = [firm EXCEPT ![s] = row[s] = "paused"]
    BY Same, Zenon DEF TickOver, Goes
  <2> QED
    BY <2>1, Zenon DEF OnlyTouches
<1>3. Rests \in Ticks /\ Rests.pc = "idle" /\ Rests.want = "none"
  BY DEF Rests, Tick, Ticks
<1>4. firm'[s] \in BOOLEAN /\ (firm'[s] => row'[s] = "paused")
  BY <1>1
<1> QED
  BY <1>1, <1>2, <1>3, <1>4, Member DEF SessionOK

(* A tick that goes to k, with no pause held                               *)
LEMMA GoesKeeps ==
  ASSUME SessionInv, NEW s \in Readers, NEW k \in Ticks, Goes(s, k), row' = row, firm' = firm,
         NEW b \in BOOLEAN, blind' = [blind EXCEPT ![s] = b], ~firm[s],
         k.pc \in {"idle", "checking"} => k.want = "none",
         k.pc = "writing" => k.want \in {"halted", "active"},
         k.pc = "checking" => k.seen \in {"halted", "active"},
         k.pc = "trading" /\ k.seen = "halted" => b
  PROVE  OnlyTouches(s) /\ SessionOK(s)'
<1>1. tick'[s] = k /\ blind'[s] = b
  BY DEF Goes, SessionInv
<1>2. OnlyTouches(s)
  <2>1. /\ row' = [row EXCEPT ![s] = row[s]] /\ tick' = [tick EXCEPT ![s] = k]
        /\ firm' = [firm EXCEPT ![s] = firm[s]]
    BY Same, Zenon DEF Goes
  <2> QED
    BY <2>1, Touches
<1> QED
  BY <1>1, <1>2, Member DEF SessionOK

LEMMA DecidesKeeps ==
  ASSUME SessionInv, NEW s \in Readers, NEW seen \in {"halted", "active"}, NEW answer \in BOOLEAN,
         Decides(s, seen, answer), row' = row, ~firm[s],
         NEW b \in BOOLEAN, blind' = [blind EXCEPT ![s] = b]
  PROVE  OnlyTouches(s) /\ SessionOK(s)'
<1>1. CASE answer /\ seen = "halted"
  BY <1>1, TickOverKeeps DEF Decides
<1>2. CASE answer /\ seen # "halted"
  <2>1. Tick("writing", seen, "halted") \in Ticks
    BY DEF Tick, Ticks
  <2> QED
    BY <1>2, <2>1, GoesKeeps DEF Decides, Tick
<1>3. CASE ~answer /\ seen = "halted"
  <2>1. Tick("writing", seen, "active") \in Ticks
    BY DEF Tick, Ticks
  <2> QED
    BY <1>3, <2>1, GoesKeeps DEF Decides, Tick
<1>4. CASE ~answer /\ seen # "halted"
  <2>1. Tick("trading", seen, "none") \in Ticks
    BY DEF Tick, Ticks
  <2> QED
    BY <1>4, <2>1, GoesKeeps DEF Decides, Tick
<1> QED
  BY <1>1, <1>2, <1>3, <1>4

LEMMA SessionStepKeeps ==
  ASSUME SessionInv, CacheTypes, AnswersInv, [Next]_vars
  PROVE  SessionInv'
<1>1. ASSUME NEW s \in Readers, TickLoads(s) PROVE OnlyTouches(s) /\ SessionOK(s)'
  <2>1. row' = row /\ blind' = [blind EXCEPT ![s] = FALSE] /\ row[s] # "paused" /\ ~firm[s]
    BY <1>1, Member DEF TickLoads, WaitsPaused, SessionOK
  <2>2. CASE row[s] = "deactivated"
    <3>1. Over \in Ticks /\ Over.pc = "ended"
      BY DEF Over, Tick, Ticks
    <3> QED
      BY <1>1, <2>1, <2>2, <3>1, GoesKeeps DEF TickLoads
  <2>3. CASE row[s] # "deactivated" /\ Decides(s, row[s], entry.value)
    <3>1. row[s] \in {"halted", "active"} /\ entry.value \in BOOLEAN
      BY <2>1, <2>3, Member DEF SessionOK, RowValues, CacheTypes
    <3> QED
      BY <2>1, <2>3, <3>1, DecidesKeeps
  <2>4. CASE row[s] # "deactivated" /\ Goes(s, Tick("checking", row[s], "none")) /\ UNCHANGED firm
    <3>1. row[s] \in {"halted", "active"}
      BY <2>1, <2>4, Member DEF SessionOK, RowValues
    <3>2. Tick("checking", row[s], "none") \in Ticks
      BY <3>1 DEF Tick, Ticks
    <3> QED
      BY <2>1, <2>4, <3>1, <3>2, GoesKeeps DEF Tick
  <2> QED
    BY <1>1, <2>2, <2>3, <2>4 DEF TickLoads
<1>2. ASSUME NEW s \in Readers, CheckAnswered(s) PROVE OnlyTouches(s) /\ SessionOK(s)'
  <2>1. /\ tick[s].pc = "checking" /\ row' = row /\ blind' = blind
        /\ Decides(s, tick[s].seen, fetch[s].value)
    BY <1>2 DEF CheckAnswered
  <2>2. /\ tick[s].seen \in {"halted", "active"} /\ ~firm[s] /\ blind[s] \in BOOLEAN
        /\ fetch[s].value \in BOOLEAN /\ blind' = [blind EXCEPT ![s] = blind[s]]
    BY <2>1, Member, Same DEF SessionOK, CacheTypes
  <2> QED
    BY <2>1, <2>2, DecidesKeeps
<1>3. ASSUME NEW s \in Readers, CheckFails(s) PROVE OnlyTouches(s) /\ SessionOK(s)'
  <2>1. /\ tick[s].pc = "checking" /\ row' = row /\ blind' = [blind EXCEPT ![s] = TRUE]
        /\ (Goes(s, Sees(s, "trading")) /\ UNCHANGED firm) \/ TickOver(s)
    BY <1>3 DEF CheckFails
  <2>2. Sees(s, "trading") \in Ticks /\ Sees(s, "trading").pc = "trading" /\ ~firm[s]
    BY <2>1, Member DEF SessionOK, Sees, Tick, Ticks
  <2> QED
    BY <2>1, <2>2, GoesKeeps, TickOverKeeps
<1>4. ASSUME NEW s \in Readers, TickCommits(s) PROVE OnlyTouches(s) /\ SessionOK(s)'
  <2> DEFINE k == IF tick[s].want = "halted" THEN Rests ELSE Tick("trading", tick[s].want, "none")
  <2>1. /\ row' = [row EXCEPT ![s] = tick[s].want] /\ firm' = [firm EXCEPT ![s] = FALSE]
        /\ tick' = [tick EXCEPT ![s] = k] /\ blind' = blind /\ tick[s].pc = "writing"
    BY <1>4 DEF TickCommits, Goes
  <2>2. tick[s].want \in {"halted", "active"}
    BY <2>1, Member DEF SessionOK
  <2>3. k \in Ticks /\ k.pc \in {"idle", "trading"} /\ (k.pc = "idle" => k.want = "none")
        /\ (k.pc = "trading" => k.seen = "active")
    BY <2>2 DEF Rests, Tick, Ticks
  <2> HIDE DEF k
  <2>4. row'[s] \in RowValues /\ tick'[s] = k /\ firm'[s] = FALSE /\ blind'[s] = blind[s]
    BY <2>1, <2>2 DEF SessionInv, RowValues
  <2>5. OnlyTouches(s)
    BY <2>1, Same DEF OnlyTouches
  <2> QED
    BY <2>3, <2>4, <2>5, Member DEF SessionOK
<1>5. ASSUME NEW s \in Readers, TickCommitFails(s) PROVE OnlyTouches(s) /\ SessionOK(s)'
  BY <1>5, TickOverKeeps DEF TickCommitFails
<1>6. ASSUME NEW s \in Readers, TickEnds(s) PROVE OnlyTouches(s) /\ SessionOK(s)'
  <2>1. blind[s] \in BOOLEAN /\ blind' = [blind EXCEPT ![s] = blind[s]]
    BY <1>6, Member, Same DEF TickEnds, SessionOK
  <2> QED
    BY <1>6, <2>1, TickOverKeeps DEF TickEnds
<1>7. ASSUME NEW s \in Readers, Pauses(s) PROVE OnlyTouches(s) /\ SessionOK(s)'
  <2>1. /\ row'[s] = "paused" /\ tick'[s] = tick[s] /\ blind'[s] = blind[s]
        /\ firm'[s] = (tick[s].pc = "idle")
    BY <1>7 DEF Pauses, SessionInv
  <2>2. OnlyTouches(s)
    <3>1. /\ tick' = [tick EXCEPT ![s] = tick[s]] /\ blind' = [blind EXCEPT ![s] = blind[s]]
          /\ row' = [row EXCEPT ![s] = "paused"]
          /\ firm' = [firm EXCEPT ![s] = tick[s].pc = "idle"]
      BY <1>7, Same, Zenon DEF Pauses
    <3> QED
      BY <3>1, Zenon DEF OnlyTouches
  <2>3. firm'[s] \in BOOLEAN /\ (firm'[s] => tick'[s].pc = "idle")
    BY <2>1
  <2> QED
    BY <2>1, <2>2, <2>3, Member DEF SessionOK, RowValues
<1>8. ASSUME NEW s \in Readers, Resumes(s) PROVE OnlyTouches(s) /\ SessionOK(s)'
  <2>1. row'[s] = "active" /\ tick'[s] = tick[s] /\ blind'[s] = blind[s] /\ firm'[s] = FALSE
    BY <1>8 DEF Resumes, SessionInv
  <2>2. OnlyTouches(s)
    BY <1>8, Same DEF Resumes, OnlyTouches
  <2> QED
    BY <2>1, <2>2, Member DEF SessionOK, RowValues
<1>9. ASSUME NEW s \in Readers, Stops(s) PROVE OnlyTouches(s) /\ SessionOK(s)'
  <2>1. row'[s] = "deactivated" /\ tick'[s] = Over /\ blind'[s] = blind[s] /\ firm'[s] = FALSE
    BY <1>9 DEF Stops, Goes, SessionInv
  <2>2. OnlyTouches(s)
    BY <1>9, Same DEF Stops, Goes, OnlyTouches
  <2>3. Over \in Ticks /\ Over.pc = "ended"
    BY DEF Over, Tick, Ticks
  <2> QED
    BY <2>1, <2>2, <2>3, Member DEF SessionOK, RowValues
<1>12. ASSUME NEW s \in Readers, CancelLost(s) PROVE OnlyTouches(s) /\ SessionOK(s)'
  <2>1. TickOver(s) /\ row' = row /\ blind' = [blind EXCEPT ![s] = TRUE]
    BY <1>12 DEF CancelLost
  <2> QED
    BY <2>1, TickOverKeeps
<1>13. ASSUME NEW s \in Readers, Deactivates(s) PROVE OnlyTouches(s) /\ SessionOK(s)'
  <2>1. row'[s] = "deactivated" /\ tick'[s] = tick[s] /\ blind'[s] = blind[s] /\ firm'[s] = FALSE
    BY <1>13 DEF Deactivates, SessionInv
  <2>2. OnlyTouches(s)
    BY <1>13, Same DEF Deactivates, OnlyTouches
  <2> QED
    BY <2>1, <2>2, Member DEF SessionOK, RowValues
<1>10. ASSUME UNCHANGED <<row, tick, blind, firm>> PROVE SessionInv'
  BY <1>10 DEF SessionInv, TicksInv, HaltTradesOnlyBlind, FirmPauseHolds
<1>11. \/ \E s \in Readers : OnlyTouches(s) /\ SessionOK(s)'
       \/ UNCHANGED <<row, tick, blind, firm>>
  BY <1>1, <1>2, <1>3, <1>4, <1>5, <1>6, <1>7, <1>8, <1>9, <1>12, <1>13
  DEF Next, TickStep, CheckMade, ClockTicks, Flips, vars
<1> QED
  BY <1>10, <1>11, OneSession

-----------------------------------------------------------------------------
LEMMA StepHolds == IInv /\ [Next]_vars => IInv'
<1> SUFFICES ASSUME IInv, [Next]_vars PROVE IInv'
  OBVIOUS
<1>1. CacheTypes /\ SessionInv
  BY DEF IInv, TypeOK, SessionInv
<1>2. CacheTypes' /\ AnswersInv'
  BY <1>1, CacheView, CacheStepKeeps DEF IInv
<1>3. SessionInv'
  BY <1>1, SessionStepKeeps DEF IInv
<1> QED
  BY <1>2, <1>3 DEF IInv, TypeOK, SessionInv

LEMMA AlwaysHolds == Spec => []IInv
BY InitHolds, StepHolds, PTL DEF Spec

(* Every variable keeps its type, whatever the number of sessions and the  *)
(* time to live.                                                           *)
THEOREM TypeCorrect == Spec => []TypeOK
<1>1. IInv => TypeOK
  BY DEF IInv
<1> QED
  BY <1>1, AlwaysHolds, PTL

(* The cache never makes an answer look younger than it is.                *)
THEOREM CacheCorrect == Spec => []NeverYounger
<1>1. IInv => NeverYounger
  BY DEF IInv, AnswersInv
<1> QED
  BY <1>1, AlwaysHolds, PTL

(* A tick trades through a halt only if its check failed.                  *)
THEOREM HaltCorrect == Spec => []HaltTradesOnlyBlind
<1>1. IInv => HaltTradesOnlyBlind
  BY DEF IInv
<1> QED
  BY <1>1, AlwaysHolds, PTL

(* A pause that no tick was under way to overwrite holds.                  *)
THEOREM PauseCorrect == Spec => []FirmPauseHolds
<1>1. IInv => FirmPauseHolds
  BY DEF IInv
<1> QED
  BY <1>1, AlwaysHolds, PTL

(* No tick goes on by an answer older than the time to live or its wait.   *)
THEOREM AnswerCorrect == Spec => GoesOnByRecentAnswer
<1> DEFINE Recent(s) == GoesOn(s) => \/ ago[FALSE] < Ttl
                                     \/ Waiting(s) /\ ago[FALSE] <= fetch[s].age
<1>1. ASSUME IInv, [Next]_vars, NEW s \in Readers PROVE Recent(s)
  <2> SUFFICES ASSUME GoesOn(s)
        PROVE  ago[FALSE] < Ttl \/ (Waiting(s) /\ ago[FALSE] <= fetch[s].age)
    OBVIOUS
  <2>1. tick'[s] # tick[s] /\ tick[s].pc \in {"idle", "checking"} /\ ~blind'[s]
    BY <1>1 DEF GoesOn, IInv, TicksInv
  <2>2. TickLoads(s) \/ CheckAnswered(s)
    <3>1. \A d \in Readers \ {s} :
            ~(\E k : Goes(d, k)) /\ ~TickOver(d)
      BY <1>1, <2>1 DEF Goes, TickOver, IInv, TypeOK
    <3>2. ~CheckFails(s)
      BY <1>1, <2>1 DEF CheckFails, IInv, TypeOK
    <3>3. ~TickCommits(s) /\ ~TickCommitFails(s) /\ ~TickEnds(s)
      BY <2>1 DEF TickCommits, TickCommitFails, TickEnds
    <3>4. ~Stops(s)
      BY <1>1 DEF Stops, Goes, Over, Tick, GoesOn, IInv, TypeOK
    <3>5. tick' # tick
      BY <2>1
    <3>6. \A d \in Readers : ~CancelLost(d)
      BY <1>1, <2>1, <3>1 DEF CancelLost, IInv, TypeOK
    <3> QED
      BY <1>1, <3>1, <3>2, <3>3, <3>4, <3>5, <3>6
      DEF Next, TickStep, TickLoads, Decides, CheckMade, CheckAnswered, CheckFails, TickCommits,
          TickCommitFails, TickEnds, Pauses, Resumes, Stops, Deactivates,
          ClockTicks, Flips, vars
  <2>3. CASE TickLoads(s)
    <3>1. Hit /\ entry.value = FALSE
      <4>1. tick'[s].pc = "trading" \/ tick'[s].want = "active"
        BY DEF GoesOn
      <4>2. ASSUME Decides(s, row[s], entry.value) PROVE entry.value = FALSE
        BY <1>1, <4>1, <4>2 DEF Decides, Goes, TickOver, Rests, Tick, IInv, TypeOK, CacheTypes
      <4>3. ~Goes(s, Over) /\ ~Goes(s, Tick("checking", row[s], "none"))
        BY <1>1, <4>1 DEF Goes, Over, Tick, IInv, TypeOK
      <4> QED
        BY <2>3, <4>2, <4>3 DEF TickLoads
    <3>2. ago[FALSE] <= entry.age /\ entry.age < Ttl /\ entry.age \in Ages /\ ago[FALSE] \in Ages
      BY <1>1, <3>1 DEF Hit, IInv, TypeOK, CacheTypes, AnswersInv, NeverYounger
    <3> QED
      BY <3>2, Below
  <2>4. CASE CheckAnswered(s)
    <3>1. Decides(s, tick[s].seen, fetch[s].value) /\ Waiting(s) /\ fetch[s].answered
      BY <2>4 DEF CheckAnswered, Stores
    <3>2. fetch[s].value = FALSE
      BY <1>1, <3>1 DEF GoesOn, Decides, Goes, TickOver, Rests, Tick, IInv, TypeOK, CacheTypes
    <3>3. ago[fetch[s].value] <= fetch[s].age
      BY <1>1, <3>1 DEF IInv, AnswersInv
    <3>4. ago[FALSE] <= fetch[s].age
      BY <3>2, <3>3, Zenon
    <3> QED
      BY <3>1, <3>4
  <2> QED
    BY <2>2, <2>3, <2>4
<1>2. IInv /\ [Next]_vars => [\A s \in Readers : Recent(s)]_vars
  BY <1>1
<1> QED
  BY <1>2, AlwaysHolds, PTL DEF Spec, GoesOnByRecentAnswer
=============================================================================
