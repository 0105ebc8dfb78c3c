----------------------------- MODULE BrokerCall -----------------------------
(***************************************************************************)
(* What a caller of BrokerClient may rely on when it places an order,      *)
(* without attempts, backoff or answers: the order may be executed more    *)
(* than once, but in no more copies than Copies; an accepted order has been*)
(* executed; and a call that is over starts nothing new, although copies   *)
(* already on their way may still be executed.  An error promises nothing  *)
(* of what was executed before.                                            *)
(***************************************************************************)
CONSTANTS
  Calls,   \* the orders placed
  Copies   \* the executions one of them may come to

VARIABLES
  verdict,   \* what the call has returned: "none", "pending", "accepted", "error"
  executed,  \* the copies the broker has executed
  underway   \* the copies it may still execute once the call is over

calls == <<verdict, executed, underway>>

Over(c) == verdict[c] \in {"accepted", "error"}

Init ==
  /\ verdict = [c \in Calls |-> "none"]
  /\ executed = [c \in Calls |-> {}]
  /\ underway = [c \in Calls |-> {}]

Begin(c) ==
  /\ verdict[c] = "none"
  /\ verdict' = [verdict EXCEPT ![c] = "pending"]
  /\ UNCHANGED <<executed, underway>>

Execute(c, copy) ==
  /\ verdict[c] = "pending" \/ copy \in underway[c]
  /\ copy \notin executed[c]
  /\ executed' = [executed EXCEPT ![c] = @ \cup {copy}]
  /\ underway' = [underway EXCEPT ![c] = @ \ {copy}]
  /\ UNCHANGED verdict

End(c, v, left) ==
  /\ verdict[c] = "pending"
  /\ v = "accepted" => executed[c] # {}
  /\ left \subseteq Copies \ executed[c]
  /\ verdict' = [verdict EXCEPT ![c] = v]
  /\ underway' = [underway EXCEPT ![c] = left]
  /\ UNCHANGED executed

Next ==
  \E c \in Calls :
    \/ Begin(c)
    \/ \E copy \in Copies : Execute(c, copy)
    \/ \E v \in {"accepted", "error"}, left \in SUBSET Copies : End(c, v, left)

Spec == Init /\ [][Next]_calls
=============================================================================
