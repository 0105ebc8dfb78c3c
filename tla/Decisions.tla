----------------------------- MODULE Decisions ------------------------------
(***************************************************************************)
(* Strategies with the log of its decisions: what activity_logger.py keeps *)
(* of the ticks of a session, when it suppresses one, and what a           *)
(* rolled-back tick takes with it.                                         *)
(*                                                                         *)
(* A decision row is added in the transaction of its tick.  The throttle is*)
(* a dictionary of the process, set as soon as the row is added.  Ages are *)
(* counted in whole steps of time.  Publication cannot fail a tick: the    *)
(* warm-up of main.py has met the outage that get_producer lets through.   *)
(***************************************************************************)
EXTENDS Strategies

CONSTANTS
  Throttle   \* DECISION_LOG_THROTTLE_SECS

ASSUME ThrottleAssumption == Throttle \in Nat \ {0}

Elapsed == Throttle
RowAges == 0..Throttle

VARIABLES
  stamped,  \* age of _last_decision_write[session_id], Elapsed if there is none
  kept,     \* history: age of the session's last committed decision row
  missing   \* history: a later one was rolled back

log == <<stamped, kept, missing>>
decisionVars == <<vars, log>>

DecisionsInit ==
  /\ Init
  /\ stamped = Elapsed /\ kept = Elapsed /\ missing = FALSE

-----------------------------------------------------------------------------
(* log_decision, at the end of a tick                                      *)

(* _should_persist_decision                                                *)
Persists == strategy' # strategy \/ out'.n > 0 \/ stamped >= Throttle

SlipStamps == stamped' = 0
Stamps == stamped' = IF Persists THEN 0 ELSE stamped

DecisionKept ==
  /\ Stamps
  /\ kept' = IF Persists THEN 0 ELSE kept
  /\ missing' = (missing /\ ~Persists)

(* The commit fails, or the task is cancelled before it.                   *)
DecisionLost ==
  /\ Stamps
  /\ kept' = kept
  /\ missing' = (missing \/ Persists)

(* A tick may also end before it, with a commit or without.                *)
LogsDecision == DecisionKept \/ DecisionLost \/ UNCHANGED log

LoggedTick(m) == Tick(m) /\ LogsDecision

-----------------------------------------------------------------------------
(* A stop and a start keep the throttle, the administrator's restart resets*)
(* it, and a new process does not know it.                                 *)
TaskReplaced ==
  /\ NewTask
  /\ stamped' \in {stamped, Elapsed}
  /\ UNCHANGED <<kept, missing>>

TimePasses ==
  /\ stamped' = Min({stamped + 1, Elapsed})
  /\ kept' = Min({kept + 1, Elapsed})
  /\ UNCHANGED <<vars, missing>>

DecisionsNext ==
  \/ \E m \in Markets : LoggedTick(m)
  \/ TaskReplaced \/ TimePasses

DecisionsSpec == DecisionsInit /\ [][DecisionsNext]_decisionVars

(* Liveness only, as in Strategies                                         *)
DecisionsFairSpec ==
  DecisionsSpec /\ WF_vars((\E m \in Markets : AnsweredTick(m)) /\ LogsDecision)

-----------------------------------------------------------------------------
(* Properties                                                              *)

(* A decision is suppressed only next to a committed one as recent, unless *)
(* the tick of one was rolled back since (activity_logger.py:112): no      *)
(* order of switches, signals, restarts and failed commits opens a gap in  *)
(* the log of a session whose ticks reach their end.                       *)
SuppressedForReason == stamped < Throttle => kept <= stamped \/ missing
=============================================================================
