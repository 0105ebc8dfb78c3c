-------------------------- MODULE OrderFeedProofs ---------------------------
(***************************************************************************)
(* Proofs about OrderFeed and the requests it is built from: types, that   *)
(* orders are sent only while their tick awaits them, that a wait ends     *)
(* early only for a price, that a fill fails one tick at most, and that the*)
(* requests implement BrokerCall.                                          *)
(***************************************************************************)
EXTENDS OrderFeed, TLAPS

Pending(c) == phase[c] \in {"sent", "waiting"}

(* What the broker may still execute of an order is of an attempt made, and*)
(* not executed before; a call that waits has an attempt left.             *)
RequestInv ==
  /\ RequestTypes
  /\ \A c \in Calls :
       /\ wire[c] \cup done[c] \subseteq 0..attempt[c]
       /\ wire[c] \cap done[c] = {}
       /\ phase[c] = "unsent" => wire[c] = {} /\ done[c] = {}
       /\ phase[c] = "waiting" => attempt[c] < Retries
  /\ NothingBehindFirstRefusal

(* One call at a time, awaited by the tick; fills are of executed copies.  *)
LoopInv ==
  /\ \A c, d \in Calls : Pending(c) /\ Pending(d) => c = d
  /\ SentWhileAwaited
  /\ stopped => loop \in {"draining", "over"}

FillInv ==
  /\ \A o \in news \cup updates \cup gone : o \in Orders /\ o[2] \in done[o[1]]
  /\ news \cap gone = {}
  /\ FillFailsOneTick

IInv == TypeOK /\ RequestInv /\ LoopInv /\ WokenByNews /\ FillInv

-----------------------------------------------------------------------------
(* Requests                                                                *)

LEMMA RequestsStart == RequestInit => RequestInv
  BY RetriesAssumption, SMT
  DEF RequestInit, RequestInv, RequestTypes, NothingBehindFirstRefusal, Attempts, Ended

LEMMA RequestStepKeeps ==
  ASSUME RequestInv, [RequestNext]_requests
  PROVE  RequestInv'
<1>1. CASE UNCHANGED requests
  BY <1>1 DEF RequestInv, RequestTypes, NothingBehindFirstRefusal, requests
<1>2. ASSUME NEW c \in Calls, PlaceOrder(c) PROVE RequestInv'
  BY <1>2, RetriesAssumption, SMT
  DEF RequestInv, RequestTypes, NothingBehindFirstRefusal, PlaceOrder, Enters, Attempts, Ended
<1>3. ASSUME NEW c \in Calls, Answered(c) PROVE RequestInv'
  BY <1>3, RetriesAssumption, SMT
  DEF RequestInv, RequestTypes, NothingBehindFirstRefusal, Answered, Enters, Attempts, Ended
<1>4. ASSUME NEW c \in Calls, Refused(c) PROVE RequestInv'
  BY <1>4, RetriesAssumption, SMT
  DEF RequestInv, RequestTypes, NothingBehindFirstRefusal, Refused, Enters, Attempts, Ended
<1>5. ASSUME NEW c \in Calls, ServerError(c) PROVE RequestInv'
  BY <1>5, RetriesAssumption, SMT
  DEF RequestInv, RequestTypes, NothingBehindFirstRefusal, ServerError, AnotherRetry, Leaves,
      Enters, Attempts, Ended
<1>6. ASSUME NEW c \in Calls, Resent(c) PROVE RequestInv'
  BY <1>6, RetriesAssumption, SMT
  DEF RequestInv, RequestTypes, NothingBehindFirstRefusal, Resent, Enters, Attempts, Ended
<1>7. ASSUME NEW c \in Calls, Broken(c) PROVE RequestInv'
  BY <1>7, RetriesAssumption, SMT
  DEF RequestInv, RequestTypes, NothingBehindFirstRefusal, Broken, Leaves, Enters, Attempts, Ended
<1>8. ASSUME NEW c \in Calls, Cancelled(c) PROVE RequestInv'
  BY <1>8, RetriesAssumption, SMT
  DEF RequestInv, RequestTypes, NothingBehindFirstRefusal, Cancelled, Enters, Attempts, Ended
<1>9. ASSUME NEW c \in Calls, NEW n \in Attempts, Executed(c, n) PROVE RequestInv'
  BY <1>9, RetriesAssumption, SMT
  DEF RequestInv, RequestTypes, NothingBehindFirstRefusal, Executed, Attempts, Ended
<1> QED
  BY <1>1, <1>2, <1>3, <1>4, <1>5, <1>6, <1>7, <1>8, <1>9 DEF RequestNext, Returns, Broker

-----------------------------------------------------------------------------
(* Requests implement BrokerCall.                                          *)

LEMMA CallsStart == RequestInit => Call!Init
  BY DEF RequestInit, Call!Init, verdicts, remains, Verdict, Ended

(* A call that enters another phase, seen by its caller                    *)
LEMMA EntersVerdict ==
  ASSUME RequestTypes, NEW c \in Calls, NEW p, Enters(c, p)
  PROVE  /\ verdicts' = [verdicts EXCEPT ![c] = Verdict(p)]
         /\ phase'[c] = p /\ verdicts[c] = Verdict(phase[c])
  BY DEF RequestTypes, Enters, verdicts

LEMMA Remains ==
  ASSUME RequestTypes, NEW c \in Calls, NEW p, Enters(c, p),
         wire' \in [Calls -> SUBSET Attempts],
         \A d \in Calls \ {c} : wire'[d] = wire[d]
  PROVE  remains' = [remains EXCEPT ![c] = IF p \in Ended THEN wire'[c] ELSE {}]
  BY DEF RequestTypes, Enters, remains

(* A call that ends                                                        *)
LEMMA EndsCall ==
  ASSUME RequestInv, RequestInv', NEW c \in Calls, NEW p \in Ended, Enters(c, p),
         phase[c] \in {"sent", "waiting"},
         p = "answered" => done[c] # {},
         done' = done, \A d \in Calls \ {c} : wire'[d] = wire[d]
  PROVE  Call!Next
<1> DEFINE v == Verdict(p)
<1>1. /\ verdicts' = [verdicts EXCEPT ![c] = v]
      /\ verdicts[c] = "pending"
  BY EntersVerdict DEF RequestInv, Verdict
<1>2. v \in {"accepted", "error"} /\ (v = "accepted" => done[c] # {})
  BY DEF Verdict, Ended
<1>3. remains' = [remains EXCEPT ![c] = wire'[c]]
  BY Remains DEF RequestInv, RequestTypes
<1>4. wire'[c] \in SUBSET Attempts /\ wire'[c] \subseteq Attempts \ done[c]
  BY DEF RequestInv, RequestTypes
<1> HIDE DEF v
<1>5. Call!End(c, v, wire'[c])
  BY <1>1, <1>2, <1>3, <1>4 DEF Call!End
<1> QED
  BY <1>2, <1>4, <1>5 DEF Call!Next

LEMMA RequestsImplement ==
  ASSUME RequestInv, RequestInv', [RequestNext]_requests
  PROVE  Call!Next \/ UNCHANGED Call!calls
<1>1. CASE UNCHANGED requests
  BY <1>1 DEF requests, Call!calls, verdicts, remains
<1>2. ASSUME NEW c \in Calls, PlaceOrder(c) PROVE Call!Next
  <2>1. verdicts' = [verdicts EXCEPT ![c] = "pending"] /\ verdicts[c] = "none"
    BY <1>2, EntersVerdict DEF PlaceOrder, RequestInv, Verdict
  <2>2. remains' = remains
    BY <1>2 DEF PlaceOrder, RequestInv, RequestTypes, Enters, remains, Ended
  <2>3. Call!Begin(c)
    BY <1>2, <2>1, <2>2 DEF PlaceOrder, Call!Begin
  <2> QED
    BY <2>3 DEF Call!Next
<1>3. ASSUME NEW c \in Calls, Answered(c) PROVE Call!Next
  BY <1>3, EndsCall DEF Answered, Ended
<1>4. ASSUME NEW c \in Calls, Refused(c) PROVE Call!Next
  BY <1>4, EndsCall DEF Refused, Ended, RequestInv, RequestTypes
<1>5. ASSUME NEW c \in Calls, ServerError(c) PROVE Call!Next \/ UNCHANGED Call!calls
  <2>1. \A d \in Calls \ {c} : wire'[d] = wire[d]
    BY <1>5 DEF ServerError, Leaves, RequestInv, RequestTypes
  <2>2. CASE AnotherRetry(c)
    <3>1. Enters(c, "waiting") /\ phase[c] = "sent" /\ done' = done
      BY <1>5, <2>2 DEF ServerError
    <3>2. verdicts' = verdicts
      BY <3>1 DEF Enters, RequestInv, RequestTypes, verdicts, Verdict
    <3>3. remains' = remains
      BY <2>1, <3>1 DEF Enters, RequestInv, RequestTypes, remains, Ended
    <3> QED
      BY <3>1, <3>2, <3>3 DEF Call!calls
  <2>3. CASE ~AnotherRetry(c)
    BY <1>5, <2>1, <2>3, EndsCall DEF ServerError, Ended
  <2> QED
    BY <2>2, <2>3
<1>6. ASSUME NEW c \in Calls, Resent(c) PROVE UNCHANGED Call!calls
  <2>1. verdicts' = verdicts
    BY <1>6 DEF Resent, Enters, RequestInv, RequestTypes, verdicts, Verdict
  <2>2. remains' = remains
    BY <1>6 DEF Resent, Enters, RequestInv, RequestTypes, remains, Ended
  <2> QED
    BY <1>6, <2>1, <2>2 DEF Resent, Call!calls
<1>7. ASSUME NEW c \in Calls, Broken(c) PROVE Call!Next
  <2>1. \A d \in Calls \ {c} : wire'[d] = wire[d]
    BY <1>7 DEF Broken, Leaves, RequestInv, RequestTypes
  <2> QED
    BY <1>7, <2>1, EndsCall DEF Broken, Ended
<1>8. ASSUME NEW c \in Calls, Cancelled(c) PROVE Call!Next
  BY <1>8, EndsCall DEF Cancelled, Ended
<1>9. ASSUME NEW c \in Calls, NEW n \in Attempts, Executed(c, n) PROVE Call!Next
  <2>1. verdicts' = verdicts
    BY <1>9 DEF Executed, verdicts
  <2>2. remains' = [remains EXCEPT ![c] = remains[c] \ {n}]
    <3>1. \A d \in Calls \ {c} : remains'[d] = remains[d]
      BY <1>9 DEF Executed, RequestInv, RequestTypes, remains
    <3>2. remains'[c] = remains[c] \ {n}
      <4>1. CASE phase[c] \in Ended
        BY <1>9, <4>1 DEF Executed, RequestInv, RequestTypes, remains
      <4>2. CASE phase[c] \notin Ended
        BY <1>9, <4>2 DEF Executed, RequestInv, RequestTypes, remains
      <4> QED
        BY <4>1, <4>2
    <3> QED
      BY <3>1, <3>2 DEF remains
  <2>3. verdicts[c] = "pending" \/ n \in remains[c]
    BY <1>9 DEF Executed, RequestInv, RequestTypes, remains, verdicts, Verdict, Ended
  <2>4. n \notin done[c]
    BY <1>9 DEF Executed, RequestInv
  <2>5. Call!Execute(c, n)
    BY <1>9, <2>1, <2>2, <2>3, <2>4 DEF Executed, Call!Execute
  <2> QED
    BY <2>5 DEF Call!Next
<1> QED
  BY <1>1, <1>2, <1>3, <1>4, <1>5, <1>6, <1>7, <1>8, <1>9 DEF RequestNext, Returns, Broker

-----------------------------------------------------------------------------
(* The loop and the feed                                                   *)

(* What a step of the task does to the requests                            *)
LEMMA RequestView ==
  ASSUME [Next]_vars
  PROVE  [RequestNext]_requests
BY DEF Next, LoopStep, LoopReturns, TickReads, TickLists, TickEnds, TaskOver, TickPlaces,
   CallReturns, Wakes, WaitTimesOut, TaskCancelled, CancelLost, FeedCancelled, Connects, BackoffOver, Drops,
   PriceArrives,
   UpdateArrives, UpdateMissed, OrderExecuted, RequestNext, Returns, Broker, vars

LEMMA TypesStep ==
  ASSUME TypeOK, RequestInv', FillInv', [Next]_vars
  PROVE  TypeOK'
<1>1. RequestTypes'
  BY DEF RequestInv
<1>2. /\ loop' \in {"reading", "listing", "trading", "calling", "waiting", "draining", "over"}
      /\ feed' \in {"connecting", "open", "backoff", "ended"}
  BY DEF TypeOK, Next, LoopStep, LoopReturns, TickReads, TickLists, TickEnds, TaskOver, TickPlaces,
     CallReturns, Wakes, WaitTimesOut, TaskCancelled, CancelLost, FeedCancelled, Connects, BackoffOver, Drops,
     PriceArrives,
     UpdateArrives, UpdateMissed, OrderExecuted, Waits, Leaving, Retreats, vars, feeds
<1>3. stopped' \in BOOLEAN /\ event' \in BOOLEAN /\ unread' \in BOOLEAN
  BY DEF TypeOK, Next, LoopStep, LoopReturns, TickReads, TickLists, TickEnds, TaskOver, TickPlaces,
     CallReturns, Wakes, WaitTimesOut, TaskCancelled, CancelLost, FeedCancelled, Connects, BackoffOver, Drops,
     PriceArrives,
     UpdateArrives, UpdateMissed, OrderExecuted, Waits, Leaving, vars, feeds, prices
<1>4. news' \subseteq Orders /\ updates' \subseteq Orders /\ gone' \subseteq Orders
  BY DEF FillInv
<1> QED
  BY <1>1, <1>2, <1>3, <1>4 DEF TypeOK

(* A call is pending only between TickPlaces and its end.                  *)
LEMMA LoopStepKeeps ==
  ASSUME RequestInv, LoopInv, [Next]_vars
  PROVE  LoopInv'
<1> USE DEF LoopInv, SentWhileAwaited, Pending
<1>1. CASE LoopStep
  <2>1. CASE LoopReturns
    <3>1. phase' = phase /\ loop \in {"reading", "listing"} /\ loop' = "draining"
      BY <2>1 DEF LoopReturns, Leaving, requests
    <3>2. \A d \in Calls : ~(phase[d] \in {"sent", "waiting"})
      BY <3>1
    <3> QED
      BY <3>1, <3>2
  <2>2. CASE TickReads \/ TickLists \/ TickEnds \/ TaskOver \/ Wakes \/ WaitTimesOut
    <3>1. phase' = phase /\ stopped' = stopped
      BY <2>2 DEF TickReads, TickLists, TickEnds, TaskOver, Wakes, WaitTimesOut, requests, feeds
    <3>2. loop \in {"reading", "listing", "trading", "waiting", "draining"}
      BY <2>2 DEF TickReads, TickLists, TickEnds, TaskOver, Wakes, WaitTimesOut
    <3>3. loop = "draining" => loop' = "over"
      BY <2>2 DEF TickReads, TickLists, TickEnds, TaskOver, Wakes, WaitTimesOut
    <3>4. \A d \in Calls : ~(phase[d] \in {"sent", "waiting"})
      BY <3>2
    <3> QED
      BY <3>1, <3>2, <3>3, <3>4
  <2>3. ASSUME NEW c \in Calls, TickPlaces(c) PROVE LoopInv'
    <3>1. \A d \in Calls : ~Pending(d)
      BY <2>3 DEF TickPlaces
    <3>2. \A d \in Calls \ {c} : phase'[d] = phase[d]
      BY <2>3 DEF TickPlaces, PlaceOrder, Enters, RequestInv, RequestTypes
    <3>3. loop' = "calling" /\ ~stopped /\ stopped' = stopped
      BY <2>3 DEF TickPlaces, feeds
    <3> QED
      BY <3>1, <3>2, <3>3
  <2>4. ASSUME NEW c \in Calls, CallReturns(c) PROVE LoopInv'
    <3>1. Pending(c) /\ loop = "calling" /\ ~stopped /\ \A d \in Calls \ {c} : ~Pending(d)
      BY <2>4 DEF CallReturns, Answered, Refused, ServerError, Resent, Broken
    <3>2. \A d \in Calls \ {c} : phase'[d] = phase[d]
      BY <2>4 DEF CallReturns, Answered, Refused, ServerError, Resent, Broken, Enters,
         RequestInv, RequestTypes
    <3>3. ~Pending(c)' \/ (loop' = "calling" /\ ~stopped')
      BY <2>4, <3>1 DEF CallReturns, Answered, Refused, ServerError, Resent, Broken, Enters,
         RequestInv, RequestTypes
    <3>4. stopped' => loop' = "draining"
      BY <2>4, <3>1 DEF CallReturns, Leaving, Waits
    <3> QED
      BY <3>1, <3>2, <3>3, <3>4
  <2> QED
    BY <1>1, <2>1, <2>2, <2>3, <2>4 DEF LoopStep
<1>2. CASE TaskCancelled \/ CancelLost
  <2>1. ASSUME NEW c \in Calls, Cancelled(c)
      PROVE  \A d \in Calls : ~(phase'[d] \in {"sent", "waiting"})
    <3>1. \A d \in Calls \ {c} : ~Pending(d) /\ phase'[d] = phase[d]
      BY <2>1 DEF Cancelled, Enters, RequestInv, RequestTypes
    <3>2. phase'[c] = "cancelled"
      BY <2>1 DEF Cancelled, Enters, RequestInv, RequestTypes
    <3> QED
      BY <3>1, <3>2
  <2>2. ASSUME loop # "calling", UNCHANGED requests
        PROVE  \A d \in Calls : ~(phase'[d] \in {"sent", "waiting"})
    <3>1. phase' = phase
      BY <2>2 DEF requests
    <3> QED
      BY <2>2, <3>1
  <2>3. (\E c \in Calls : Cancelled(c)) \/ (loop # "calling" /\ UNCHANGED requests)
    BY <1>2 DEF TaskCancelled, CancelLost
  <2>4. \A d \in Calls : ~(phase'[d] \in {"sent", "waiting"})
    BY <2>1, <2>2, <2>3
  <2>5. loop' = "draining" \/ (~stopped /\ ~stopped')
    <3>1. CASE TaskCancelled
      BY <3>1 DEF TaskCancelled, Leaving
    <3>2. CASE CancelLost
      <4>1. loop \notin {"draining", "over"}
        BY <3>2 DEF CancelLost, Cancelled
      <4> QED
        BY <3>2, <4>1 DEF CancelLost, feeds
    <3> QED
      BY <1>2, <3>1, <3>2
  <2> QED
    BY <2>4, <2>5
<1>3. CASE FeedCancelled \/ Connects \/ BackoffOver \/ Drops \/ PriceArrives
  BY <1>3 DEF FeedCancelled, Connects, BackoffOver, Drops, PriceArrives, requests
<1>4. ASSUME NEW c \in Calls, NEW n \in Attempts, OrderExecuted(c, n) PROVE LoopInv'
  BY <1>4 DEF OrderExecuted, Executed, feeds
<1>5. ASSUME NEW o \in Orders, UpdateArrives(o) \/ UpdateMissed(o) PROVE LoopInv'
  BY <1>5 DEF UpdateArrives, UpdateMissed, requests, feeds
<1>6. CASE UNCHANGED vars
  BY <1>6 DEF vars, requests, feeds
<1> QED
  BY <1>1, <1>2, <1>3, <1>4, <1>5, <1>6 DEF Next

LEMMA WokenStep ==
  ASSUME TypeOK, WokenByNews, [Next]_vars
  PROVE  WokenByNews'
BY DEF WokenByNews, TypeOK, Next, LoopStep, LoopReturns, TickReads, TickLists, TickEnds, TaskOver,
   TickPlaces, CallReturns, Wakes, WaitTimesOut, TaskCancelled, CancelLost, FeedCancelled, Connects, BackoffOver, Drops,
   PriceArrives, UpdateArrives, UpdateMissed, OrderExecuted, Waits, Leaving, vars, prices

(* Executions only grow, and one is reported once.                         *)
LEMMA FillStep ==
  ASSUME RequestInv, FillInv, [Next]_vars
  PROVE  FillInv'
<1> USE DEF FillInv, FillFailsOneTick
<1>1. CASE UNCHANGED <<done, news, updates, gone>>
  BY <1>1
<1>2. CASE TickLists
  BY <1>2 DEF TickLists, Pops, requests
<1>3. ASSUME NEW c \in Calls, NEW n \in Attempts, OrderExecuted(c, n) PROVE FillInv'
  <2>1. <<c, n>> \in Orders /\ n \notin done[c] /\ n \in done'[c]
    BY <1>3 DEF OrderExecuted, Executed, Orders, RequestInv, RequestTypes
  <2>2. \A o \in Orders : o[2] \in done[o[1]] => o[2] \in done'[o[1]]
    BY <1>3 DEF OrderExecuted, Executed, Orders, RequestInv, RequestTypes
  <2>3. <<c, n>> \notin news \cup updates \cup gone
    BY <2>1
  <2> QED
    BY <1>3, <2>1, <2>2, <2>3 DEF OrderExecuted
<1>4. ASSUME NEW o \in Orders, UpdateArrives(o) PROVE FillInv'
  BY <1>4 DEF UpdateArrives, requests, feeds
<1>5. ASSUME NEW o \in Orders, UpdateMissed(o) PROVE FillInv'
  BY <1>5 DEF UpdateMissed, requests
<1>6. CASE LoopStep /\ ~TickLists
  BY <1>1, <1>6 DEF LoopStep, LoopReturns, TickReads, TickEnds, TaskOver, TickPlaces, CallReturns,
     Wakes, WaitTimesOut, PlaceOrder, Answered, Refused, ServerError, Resent, Broken, requests, fills
<1>7. CASE TaskCancelled \/ CancelLost
  BY <1>1, <1>7 DEF TaskCancelled, CancelLost, Cancelled, requests, fills
<1>8. CASE FeedCancelled \/ Connects \/ BackoffOver \/ Drops \/ PriceArrives
  BY <1>1, <1>8 DEF FeedCancelled, Connects, BackoffOver, Drops, PriceArrives, requests, fills
<1>9. CASE UNCHANGED vars
  BY <1>1, <1>9 DEF vars, requests, fills
<1> QED
  BY <1>2, <1>3, <1>4, <1>5, <1>6, <1>7, <1>8, <1>9 DEF Next

LEMMA InitHolds == Init => IInv
<1> SUFFICES ASSUME Init PROVE IInv
  OBVIOUS
<1>1. RequestInv
  BY RequestsStart DEF Init
<1>2. TypeOK /\ LoopInv /\ WokenByNews /\ FillInv
  BY <1>1 DEF Init, RequestInit, RequestInv, TypeOK, LoopInv, SentWhileAwaited, Pending,
     WokenByNews, FillInv, FillFailsOneTick
<1> QED
  BY <1>1, <1>2 DEF IInv

LEMMA StepHolds == IInv /\ [Next]_vars => IInv'
BY RequestView, RequestStepKeeps, TypesStep, LoopStepKeeps, WokenStep, FillStep DEF IInv

LEMMA AlwaysHolds == Spec => []IInv
BY InitHolds, StepHolds, PTL DEF Spec

-----------------------------------------------------------------------------
(* Every variable of a task and its feed keeps its type, whatever the      *)
(* number of calls and retries.                                            *)
THEOREM TypeCorrect == Spec => []TypeOK
<1>1. IInv => TypeOK
  BY DEF IInv
<1> QED
  BY <1>1, AlwaysHolds, PTL

(* An order refused without a retry has not been executed and will not be. *)
THEOREM FirstRefusalCorrect == Spec => []NothingBehindFirstRefusal
<1>1. IInv => NothingBehindFirstRefusal
  BY DEF IInv, RequestInv
<1> QED
  BY <1>1, AlwaysHolds, PTL

(* Nothing is sent of an order that no tick awaits: not after its call was *)
(* cut off by a cancel, and nothing at all once the loop is left.          *)
THEOREM SentCorrect == Spec => []SentWhileAwaited
<1>1. IInv => SentWhileAwaited
  BY DEF IInv, LoopInv
<1> QED
  BY <1>1, AlwaysHolds, PTL

(* A wait ends early only for a price the loop has not read.               *)
THEOREM WakeCorrect == Spec => []WokenByNews
<1>1. IInv => WokenByNews
  BY DEF IInv
<1> QED
  BY <1>1, AlwaysHolds, PTL

(* A fill fails one tick at most.                                          *)
THEOREM FillCorrect == Spec => []FillFailsOneTick
<1>1. IInv => FillFailsOneTick
  BY DEF IInv, FillInv
<1> QED
  BY <1>1, AlwaysHolds, PTL

(* The orders of a task are BrokerCalls: initial states map to an initial  *)
(* state, and every step of the task, of the feed or of the broker to a    *)
(* step of the calls or to none.                                           *)
THEOREM CallsCorrect == Spec => OrdersAreCalls
<1>1. Init => Call!Init
  BY CallsStart DEF Init
<1>2. IInv /\ IInv' /\ [Next]_vars => [Call!Next]_(Call!calls)
  BY RequestView, RequestsImplement DEF IInv
<1> QED
  BY <1>1, <1>2, AlwaysHolds, PTL DEF Spec, OrdersAreCalls, Call!Spec
=============================================================================
