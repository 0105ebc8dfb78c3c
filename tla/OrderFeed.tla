----------------------------- MODULE OrderFeed ------------------------------
(***************************************************************************)
(* One task: the tick loop, the WebSocket feed that runs beside it and the *)
(* orders it places, from the start of the loop to the end of both.  The   *)
(* feed brings prices, which end the wait between two ticks, and the fills *)
(* of orders, which may overtake the answer of the call that placed them.  *)
(*                                                                         *)
(* The orders are BrokerRequests, those of the tick's signals; the closes  *)
(* before them, and what a tick does with an order, are in TradingTick, the*)
(* statuses of the row in SessionRun and BotSessions.                      *)
(***************************************************************************)
EXTENDS BrokerRequest

VARIABLES
  loop,     \* where the tick loop is
  feed,     \* where BotWebSocketFeed.run is
  stopped,  \* _stop
  event,    \* _price_events[symbol]
  unread,   \* history: _prices has one of the symbol that no tick has looked at
  news,     \* the executed copies whose fill the relay has still to report
  updates,  \* _order_updates: the copies whose fill has been reported
  gone      \* history: the copies whose fill was popped or never reported

feeds == <<feed, stopped>>
prices == <<event, unread>>
fills == <<news, updates, gone>>
vars == <<requests, loop, feeds, prices, fills>>

Orders == Calls \X Attempts

Init ==
  /\ RequestInit
  /\ loop = "reading" /\ feed = "connecting" /\ stopped = FALSE
  /\ event = FALSE /\ unread = FALSE
  /\ news = {} /\ updates = {} /\ gone = {}

-----------------------------------------------------------------------------
(* The loop                                                                *)

(* wait_for_price: the event is cleared before the wait.                   *)
SlipWaits == loop' = "waiting" /\ UNCHANGED event
Waits == loop' = "waiting" /\ event' = FALSE

(* The loop returns: `finally` stops the feed and awaits it.               *)
Leaving == loop' = "draining" /\ stopped' = TRUE

(* The row is deactivated or in error, or a call is answered with a 401.   *)
LoopReturns ==
  /\ loop \in {"reading", "listing"}
  /\ Leaving
  /\ UNCHANGED <<requests, feed, prices, fills>>

(* Prices are the feed's once it has enough of them, whether or not it is  *)
(* still connected; until then they are the broker's, which seed the feed's*)
(* buffer if that is empty, and what it has received remains unread.       *)
TickReads ==
  /\ loop = "reading"
  /\ loop' = "listing"
  /\ unread' \in {FALSE, unread}
  /\ UNCHANGED <<requests, feeds, event, fills>>

(* The tick is over: all signals are dealt with, or the row is paused or   *)
(* halted, there are too few prices, a gate is closed, a call has failed.  *)
TickEnds ==
  /\ loop \in {"reading", "listing", "trading"}
  /\ Waits
  /\ UNCHANGED <<requests, feeds, unread, fills>>

(* pop_order_updates                                                       *)
SlipPops == gone' = gone \cup updates /\ UNCHANGED <<updates, news>>
Pops == gone' = gone \cup updates /\ updates' = {} /\ UNCHANGED news

(* The orders are listed, and brought up to date with what the feed has    *)
(* reported: the first fill raises NameError, as select is not imported.   *)
TickLists ==
  /\ loop = "listing"
  /\ Pops
  /\ IF updates = {} THEN loop' = "trading" /\ UNCHANGED event ELSE Waits
  /\ UNCHANGED <<requests, feeds, unread>>

(* The calls of a task come one after another; which is which is no matter.*)
IsNext(c) == c = CHOOSE d \in Calls : phase[d] = "unsent"

TickPlaces(c) ==
  /\ loop = "trading"
  /\ PlaceOrder(c) /\ IsNext(c)
  /\ loop' = "calling"
  /\ UNCHANGED <<feeds, prices, fills>>

(* The call is answered, refused or given up and the next signal follows.  *)
(* A 401 ends the loop, and an error that is no BrokerAPIError the tick.   *)
CallReturns(c) ==
  /\ \/ Answered(c) /\ loop' = "trading" /\ UNCHANGED <<stopped, event>>
     \/ Refused(c) /\ loop' = "trading" /\ UNCHANGED <<stopped, event>>
     \/ Refused(c) /\ Leaving /\ UNCHANGED event
     \/ ServerError(c) /\ loop' = (IF phase'[c] = "waiting" THEN "calling" ELSE "trading")
        /\ UNCHANGED <<stopped, event>>
     \/ Resent(c) /\ UNCHANGED <<loop, stopped, event>>
     \/ Broken(c) /\ Waits /\ UNCHANGED stopped
  /\ UNCHANGED <<feed, unread, fills>>

Wakes ==
  /\ loop = "waiting" /\ event
  /\ loop' = "reading"
  /\ UNCHANGED <<requests, feeds, prices, fills>>

WaitTimesOut ==
  /\ loop = "waiting"
  /\ loop' = "reading"
  /\ UNCHANGED <<requests, feeds, prices, fills>>

(* stop_bot cancels the task in the wait for a price, in the database or in*)
(* the backoff between two attempts: the loop returns (:783).              *)
TaskCancelled ==
  /\ loop \notin {"draining", "over"}
  /\ Leaving
  /\ \/ \E c \in Calls : phase[c] = "waiting" /\ Cancelled(c)
     \/ loop # "calling" /\ UNCHANGED requests
  /\ UNCHANGED <<feed, prices, fills>>

(* It cancels the task in an HTTP call: what the loop sees is the          *)
(* AttributeError of broker_client.py:62, a failed tick like any other, and*)
(* it goes on (:787-801).  Nobody told the feed to stop.                   *)
CancelLost ==
  /\ \/ loop \in {"reading", "listing"} /\ UNCHANGED requests
     \/ \E c \in Calls : phase[c] = "sent" /\ Cancelled(c)
  /\ Waits
  /\ UNCHANGED <<feeds, unread, fills>>

(* A task that returned by itself is still registered: a stop cancels it in*)
(* its wait for the feed, and the feed with it.  (Who has been cancelled   *)
(* before, and can be again by the end of the process only, is not told    *)
(* apart, neither here nor above.)                                         *)
FeedCancelled ==
  /\ loop = "draining" /\ feed # "ended"
  /\ feed' = "ended"
  /\ UNCHANGED <<requests, loop, stopped, prices, fills>>

TaskOver ==
  /\ loop = "draining" /\ feed = "ended"
  /\ loop' = "over"
  /\ UNCHANGED <<requests, feeds, prices, fills>>

-----------------------------------------------------------------------------
(* The feed                                                                *)

(* `while not self._stop.is_set()`, and the wait before the next attempt   *)
Retreats == feed' = IF stopped THEN "ended" ELSE "backoff"

Connects ==
  /\ feed = "connecting"
  /\ \/ feed' = "open"
     \/ Retreats
  /\ UNCHANGED <<requests, loop, stopped, prices, fills>>

(* The delay is over, or _stop ends it.                                    *)
BackoffOver ==
  /\ feed = "backoff"
  /\ feed' = IF stopped THEN "ended" ELSE "connecting"
  /\ UNCHANGED <<requests, loop, stopped, prices, fills>>

(* The connection is closed or lost.                                       *)
Drops ==
  /\ feed = "open"
  /\ Retreats
  /\ UNCHANGED <<requests, loop, stopped, prices, fills>>

(* _stop is looked at when there is a message, and only then.              *)
SlipQuits == FALSE
Quits == stopped

PriceArrives ==
  /\ feed = "open"
  /\ IF Quits
     THEN feed' = "ended" /\ UNCHANGED prices
     ELSE event' = TRUE /\ unread' = TRUE /\ UNCHANGED feed
  /\ UNCHANGED <<requests, loop, stopped, fills>>

UpdateArrives(o) ==
  /\ feed = "open" /\ o \in news
  /\ news' = news \ {o}
  /\ IF Quits
     THEN feed' = "ended" /\ gone' = gone \cup {o} /\ UNCHANGED updates
     ELSE updates' = updates \cup {o} /\ UNCHANGED <<feed, gone>>
  /\ UNCHANGED <<requests, loop, stopped, prices>>

(* The relay reports a fill once, whether or not anyone is connected.      *)
UpdateMissed(o) ==
  /\ feed # "open" /\ o \in news
  /\ news' = news \ {o} /\ gone' = gone \cup {o}
  /\ UNCHANGED <<requests, loop, feeds, prices, updates>>

OrderExecuted(c, n) ==
  /\ Executed(c, n)
  /\ news' = news \cup {<<c, n>>}
  /\ UNCHANGED <<loop, feeds, prices, updates, gone>>

-----------------------------------------------------------------------------
LoopStep ==
  \/ LoopReturns \/ TickReads \/ TickLists \/ TickEnds \/ TaskOver
  \/ \E c \in Calls : TickPlaces(c) \/ CallReturns(c)
  \/ Wakes \/ WaitTimesOut

Next ==
  \/ LoopStep \/ TaskCancelled \/ CancelLost \/ FeedCancelled
  \/ Connects \/ BackoffOver \/ Drops \/ PriceArrives
  \/ \E c \in Calls, n \in Attempts : OrderExecuted(c, n)
  \/ \E o \in Orders : UpdateArrives(o) \/ UpdateMissed(o)

Spec == Init /\ [][Next]_vars

(* Liveness only: a ready task is scheduled, calls and waits have timeouts,*)
(* and an attempt to connect ends within open_timeout.  Nothing is assumed *)
(* of what the relay sends.                                                *)
FairSpec == Spec /\ WF_vars(LoopStep) /\ WF_vars(Connects) /\ WF_vars(BackoffOver)

-----------------------------------------------------------------------------
(* Properties                                                              *)

TypeOK ==
  /\ RequestTypes
  /\ loop \in {"reading", "listing", "trading", "calling", "waiting", "draining", "over"}
  /\ feed \in {"connecting", "open", "backoff", "ended"}
  /\ stopped \in BOOLEAN /\ event \in BOOLEAN /\ unread \in BOOLEAN
  /\ news \subseteq Orders /\ updates \subseteq Orders /\ gone \subseteq Orders

(* An order is being sent, or is to be sent again (broker_client.py:56),   *)
(* only while the tick awaits its call: a cancel, lost or not, is the end  *)
(* of it, in flight as in a backoff, and once the loop is left nothing is  *)
(* sent, although the broker may still execute what was sent before.  A    *)
(* loop whose cancel was lost is not left, and sends orders of later ticks.*)
SentWhileAwaited ==
  \A c \in Calls : phase[c] \in {"sent", "waiting"} => loop = "calling" /\ ~stopped

(* A wait that ends before its time ends for a price the loop has not read:*)
(* one that came during the tick does not count, however it interleaves    *)
(* with the tick (ws_feed.py:108).                                         *)
WokenByNews == loop = "waiting" /\ event => unread

(* A fill fails one tick at most: the updates it came with are gone before *)
(* the tick stumbles over it (bot_engine.py:545).                          *)
FillFailsOneTick == updates \cap (gone \cup news) = {}

(* A task that has left its loop, and so has told its feed to stop, ends as*)
(* long as prices keep coming on every connection: it is a message that    *)
(* makes the feed notice (ws_feed.py:137).  A lost cancel tells it nothing.*)
StopDrains == WF_vars(PriceArrives) => (stopped ~> loop = "over")
=============================================================================
