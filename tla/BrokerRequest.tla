--------------------------- MODULE BrokerRequest ----------------------------
(***************************************************************************)
(* BrokerClient._request for the orders ticks place: POST /api/orders is   *)
(* sent again after a 5xx, up to Retries times, with nothing that would    *)
(* let the broker recognise it.  The broker may execute an attempt before, *)
(* after or without its answer reaching the client.                        *)
(*                                                                         *)
(* The clause for network errors names httpx.TransientError, which httpx   *)
(* does not have: a refused connection, a read that times out or a body    *)
(* that is no JSON raises at once and is never retried.  The other methods *)
(* of the client go through the same code and change nothing twice.        *)
(***************************************************************************)
EXTENDS Naturals

CONSTANTS
  Calls,    \* the orders placed
  Retries   \* _RETRIES

ASSUME RetriesAssumption == Retries \in Nat

Attempts == 0..Retries

(* Definitions named Slip... are plausible slips of the code they precede. *)
(* No specification uses them: each is a mutant that a property must catch.*)

VARIABLES
  phase,    \* where each call is: "unsent", "sent", "waiting", or how it ended
  attempt,  \* the number of the attempt it is at
  wire,     \* the attempts the broker may still execute
  done      \* the attempts it has executed

Ended == {"answered", "refused", "failed", "broken", "cancelled"}
requests == <<phase, attempt, wire, done>>

RequestInit ==
  /\ phase = [c \in Calls |-> "unsent"]
  /\ attempt = [c \in Calls |-> 0]
  /\ wire = [c \in Calls |-> {}]
  /\ done = [c \in Calls |-> {}]

Enters(c, p) == phase' = [phase EXCEPT ![c] = p]

(* What a failed attempt leaves at the broker: it may have got through.    *)
Leaves(c) == \E left \in {wire[c], wire[c] \ {attempt[c]}} : wire' = [wire EXCEPT ![c] = left]

PlaceOrder(c) ==
  /\ phase[c] = "unsent"
  /\ Enters(c, "sent")
  /\ wire' = [wire EXCEPT ![c] = {0}]
  /\ UNCHANGED <<attempt, done>>

(* The broker executes an attempt, whether or not anyone still waits for it*)
Executed(c, n) ==
  /\ n \in wire[c]
  /\ wire' = [wire EXCEPT ![c] = @ \ {n}]
  /\ done' = [done EXCEPT ![c] = @ \cup {n}]
  /\ UNCHANGED <<phase, attempt>>

(* 2xx: r.json() returns.                                                  *)
Answered(c) ==
  /\ phase[c] = "sent" /\ attempt[c] \in done[c]
  /\ Enters(c, "answered")
  /\ UNCHANGED <<attempt, wire, done>>

(* 4xx: raised at once, whatever earlier attempts have done.               *)
Refused(c) ==
  /\ phase[c] = "sent" /\ attempt[c] \notin done[c]
  /\ Enters(c, "refused")
  /\ wire' = [wire EXCEPT ![c] = @ \ {attempt[c]}]
  /\ UNCHANGED <<attempt, done>>

(* 5xx: the gateway does not say what became of the order behind it.       *)
AnotherRetry(c) == attempt[c] < Retries
SlipServerError(c) ==
  /\ phase[c] = "sent"
  /\ Leaves(c)
  /\ Enters(c, IF attempt[c] > 0 /\ AnotherRetry(c) THEN "waiting" ELSE "refused")
  /\ UNCHANGED <<attempt, done>>
ServerError(c) ==
  /\ phase[c] = "sent"
  /\ Leaves(c)
  /\ Enters(c, IF AnotherRetry(c) THEN "waiting" ELSE "failed")
  /\ UNCHANGED <<attempt, done>>

(* The backoff is over.                                                    *)
SlipResent(c) ==
  /\ phase[c] \in {"waiting", "cancelled"} /\ AnotherRetry(c)
  /\ Enters(c, "sent")
  /\ attempt' = [attempt EXCEPT ![c] = @ + 1]
  /\ wire' = [wire EXCEPT ![c] = @ \cup {attempt[c] + 1}]
  /\ UNCHANGED done
Resent(c) ==
  /\ phase[c] = "waiting"
  /\ Enters(c, "sent")
  /\ attempt' = [attempt EXCEPT ![c] = @ + 1]
  /\ wire' = [wire EXCEPT ![c] = @ \cup {attempt[c] + 1}]
  /\ UNCHANGED done

(* The connection fails, the ten seconds pass, or the body is no JSON.     *)
Broken(c) ==
  /\ phase[c] = "sent"
  /\ Leaves(c)
  /\ Enters(c, "broken")
  /\ UNCHANGED <<attempt, done>>

(* The task is cancelled in the call, whose except clause makes an         *)
(* AttributeError of that (:62), or in its backoff, which is outside it.   *)
Cancelled(c) ==
  /\ phase[c] \in {"sent", "waiting"}
  /\ Enters(c, "cancelled")
  /\ UNCHANGED <<attempt, wire, done>>

(* What the client does of itself, and what the broker does                *)
Returns(c) == Answered(c) \/ Refused(c) \/ ServerError(c) \/ Resent(c) \/ Broken(c)
Broker(c) == \E n \in Attempts : Executed(c, n)
RequestNext == \E c \in Calls : PlaceOrder(c) \/ Returns(c) \/ Cancelled(c) \/ Broker(c)

-----------------------------------------------------------------------------
(* Properties                                                              *)

RequestTypes ==
  /\ phase \in [Calls -> {"unsent", "sent", "waiting"} \cup Ended]
  /\ attempt \in [Calls -> Attempts]
  /\ wire \in [Calls -> SUBSET Attempts]
  /\ done \in [Calls -> SUBSET Attempts]

(* What the phase of a call, and what is left of it, mean to its caller    *)
Verdict(p) == CASE p = "unsent" -> "none"
                [] p \in {"sent", "waiting"} -> "pending"
                [] p = "answered" -> "accepted"
                [] OTHER -> "error"
verdicts == [c \in Calls |-> Verdict(phase[c])]
remains == [c \in Calls |-> IF phase[c] \in Ended THEN wire[c] ELSE {}]

Call == INSTANCE BrokerCall WITH
  Copies <- Attempts, verdict <- verdicts, executed <- done, underway <- remains

(* However attempts are answered, delayed, lost, repeated or cut off, an   *)
(* order is a BrokerCall: never executed more often than it may be sent,   *)
(* executed when it is accepted, and nothing is sent of it once it is over.*)
OrdersAreCalls == Call!Spec

(* An order that is refused without a retry has not been executed and will *)
(* not be: only then may the tick take the error for "no order" (:706).    *)
NothingBehindFirstRefusal ==
  \A c \in Calls : phase[c] = "refused" /\ attempt[c] = 0 => wire[c] \cup done[c] = {}
=============================================================================
