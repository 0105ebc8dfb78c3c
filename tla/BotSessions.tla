---------------------------- MODULE BotSessions ----------------------------
(***************************************************************************)
(* The session life cycle of the bot service: the task registry of         *)
(* bot_manager.py, the status column of bot_sessions, the HTTP handlers of *)
(* routers/bots.py and routers/admin_bots.py that change either, the part  *)
(* of a tick of bot_engine.py that reads or writes the status, and the     *)
(* restore of main.py after a restart.                                     *)
(*                                                                         *)
(* The service is one asyncio event loop: the code between two awaits is   *)
(* one action, and every await (a database or broker call) ends one.  The  *)
(* database is PostgreSQL at READ COMMITTED behind SQLAlchemy: a commit    *)
(* writes only the columns whose value differs from the one its own        *)
(* session loaded, so a handler's commit depends on what it has "seen".    *)
(*                                                                         *)
(* task.cancel() only sends a CancelledError: it is raised at the await    *)
(* where the task stands, and what that await is decides what it does.     *)
(* Outside a broker call it ends the loop.  Inside one it is lost, with    *)
(* the registry entry gone: the task is adrift and goes on ticking.        *)
(* A commit in flight when the cancel arrives has either landed (TickCommit*)
(* came first) or is rolled back: PostgreSQL holds the row lock from the   *)
(* UPDATE on, so it cannot land after the commit of that handler.          *)
(***************************************************************************)
EXTENDS FiniteSets, Naturals, Functions

CONSTANTS
  Sessions,     \* the rows of bot_sessions that can come to exist
  Users,
  Owner,        \* [Sessions -> Users]: bot_sessions.user_id
  Symbols,
  Tasks,        \* the asyncio tasks unfinished at once (recycled when finished)
  Requests,     \* the HTTP requests in flight at once
  Endpoints,    \* the endpoints clients call
  NewTokens,    \* the kinds of token clients activate with
  Faults,       \* whether database calls may fail
  KeyRotation,  \* whether a restart may come with another BOT_FERNET_KEY
  NoTask, NoRequest, NoSession, NoSymbol

(* Definitions named Slip... are plausible slips of the code they precede. *)
(* No specification uses them: each is a mutant that a property must catch.*)

Live == {"active", "paused", "halted"}
Statuses == Live \cup {"deactivated", "error"}
TokenKinds == {"valid", "opaque", "expired", "unreadable"}
Activations == {"activate", "activate_all"}

-----------------------------------------------------------------------------
(* What each endpoint does with the rows it selects, as data.              *)
(*   scope        one row, the rows of one user, or all rows               *)
(*   from         the statuses it accepts                                  *)
(*   skipRunning  rows whose task is running are left alone (409, skip)    *)
(*   readable     rows whose token does not decrypt are refused (409)      *)
(*   stop, start  stop_bot before the commit, start_bot after it           *)
(*   want         the statuses it may assign; "keep" assigns none          *)
(*   rename       whether it may assign the symbol                         *)
Base == [scope |-> "one", from |-> Statuses, skipRunning |-> FALSE,
         readable |-> FALSE, stop |-> FALSE, want |-> {"active"},
         start |-> FALSE, rename |-> FALSE]

activate       == [Base EXCEPT !.from = {"absent"}, !.start = TRUE]
activate_all   == [activate EXCEPT !.scope = "user"]
Slip_stop_session == [Base EXCEPT !.want = {"deactivated"}]
stop_session   == [Base EXCEPT !.stop = TRUE, !.want = {"deactivated"}]
remove_session == [Base EXCEPT !.stop = TRUE, !.want = {"deactivated"}]
deactivate     == [Base EXCEPT !.from = Live, !.stop = TRUE,
                               !.want = {"deactivated"}]
update_config  == [Base EXCEPT !.want = {"keep", "active", "paused"},
                               !.rename = TRUE]
start_session  == [Base EXCEPT !.skipRunning = TRUE, !.start = TRUE]
pause_session  == [Base EXCEPT !.want = {"paused"}]
resume_session == Base
Slip_restart_session == [Base EXCEPT !.stop = TRUE]
restart_session == [Base EXCEPT !.stop = TRUE, !.start = TRUE]
start_all_sessions == [Base EXCEPT !.scope = "user",
                                   !.from = {"paused", "halted", "error"},
                                   !.skipRunning = TRUE, !.start = TRUE]
stop_all_sessions == [Base EXCEPT !.scope = "user", !.from = Live,
                                  !.stop = TRUE, !.want = {"deactivated"}]
stop_all_running_bots == [Base EXCEPT !.scope = "all", !.from = Live,
                                      !.stop = TRUE, !.want = {"deactivated"}]
admin_start    == [Base EXCEPT !.readable = TRUE, !.start = TRUE]
admin_stop     == [Base EXCEPT !.stop = TRUE, !.want = {"deactivated"}]
admin_restart  == [Base EXCEPT !.readable = TRUE, !.stop = TRUE, !.start = TRUE]
admin_pause    == [Base EXCEPT !.want = {"paused"}]
admin_resume   == Base

Plan == [activate |-> activate, activate_all |-> activate_all,
         stop_session |-> stop_session, remove_session |-> remove_session,
         deactivate |-> deactivate, update_config |-> update_config,
         start_session |-> start_session, pause_session |-> pause_session,
         resume_session |-> resume_session, restart_session |-> restart_session,
         start_all_sessions |-> start_all_sessions,
         stop_all_sessions |-> stop_all_sessions,
         stop_all_running_bots |-> stop_all_running_bots,
         admin_start |-> admin_start, admin_stop |-> admin_stop,
         admin_restart |-> admin_restart, admin_pause |-> admin_pause,
         admin_resume |-> admin_resume]

ASSUME OwnerAssumption == Owner \in [Sessions -> Users]
ASSUME EndpointsAssumption == Endpoints \subseteq DOMAIN Plan
ASSUME NewTokensAssumption == NewTokens \subseteq {"valid", "opaque"}
ASSUME FlagsAssumption == Faults \in BOOLEAN /\ KeyRotation \in BOOLEAN
ASSUME AbsentAssumption ==
  /\ NoTask \notin Tasks
  /\ NoRequest \notin Requests
  /\ NoSession \notin Sessions
  /\ NoSymbol \notin Symbols

VARIABLES
  status,       \* bot_sessions.status; "absent" until the insert commits
  symbol,       \* bot_sessions.symbol
  token,        \* what decrypting and using bot_sessions.jwt_token gives
  tasks,        \* bot_manager._tasks: session -> task
  userSessions, \* bot_manager._user_sessions: user -> sessions
  task,         \* where each task is in _bot_tick and _bot_loop
  adrift,       \* the tasks that lost a cancel, for the properties only
  lock,         \* bot_manager._activation_locks: user -> its holder
  req           \* where each request is in its handler

vars == <<status, symbol, token, tasks, userSessions, task, adrift, lock, req>>
rows == <<status, symbol, token>>
registry == <<tasks, userSessions, task, adrift>>

(* A task of session s, the status its tick has read, and the one a commit *)
(* in flight writes with what follows it                                   *)
At(s, pc, seen) == [pc |-> pc, sid |-> s, cancelled |-> FALSE, seen |-> seen,
                    want |-> "none", after |-> "none"]
Committing(s, seen, want, after) ==
  [pc |-> "writing", sid |-> s, cancelled |-> FALSE, seen |-> seen,
   want |-> want, after |-> after]
Unwinding(s) == [pc |-> "draining", sid |-> s, cancelled |-> TRUE, seen |-> "none",
                 want |-> "none", after |-> "none"]
Finished == At(NoSession, "done", "none")
Free == [pc |-> "free", op |-> "none", targets |-> {}, todo |-> {},
         seen |-> [s \in Sessions |-> "none"], want |-> "none",
         newSymbol |-> NoSymbol]

Init ==
  /\ status = [s \in Sessions |-> "absent"]
  /\ symbol = [s \in Sessions |-> NoSymbol]
  /\ token = [s \in Sessions |-> "valid"]
  /\ tasks = [s \in Sessions |-> NoTask]
  /\ userSessions = [u \in Users |-> {}]
  /\ task = [t \in Tasks |-> Finished]
  /\ adrift = {}
  /\ lock = [u \in Users |-> NoRequest]
  /\ req = [r \in Requests |-> Free]

-----------------------------------------------------------------------------
(* bot_manager.py                                                          *)

Registered(t) == \E s \in Sessions : tasks[s] = t
Unfinished(t) == task[t].pc # "done"
IsRunning(s) == tasks[s] # NoTask /\ Unfinished(tasks[s])

(* A task object that is finished and no longer referenced stands for the  *)
(* next one asyncio.create_task makes.                                     *)
Available(t) == ~Unfinished(t) /\ ~Registered(t)

(* task after _cancel_key of every session in S: a CancelledError is on    *)
(* its way to each of their tasks, and the next thing that happens to it.  *)
Cancelling(S) ==
  [t \in Tasks |-> IF Unfinished(t) /\ \E s \in S : tasks[s] = t
                   THEN [task[t] EXCEPT !.cancelled = TRUE]
                   ELSE task[t]]

SlipCancelKeepsIndex(S) ==
  /\ tasks' = [s \in Sessions |-> IF s \in S THEN NoTask ELSE tasks[s]]
  /\ task' = Cancelling(S)
  /\ UNCHANGED <<userSessions, adrift>>

CancelKeys(S) ==
  /\ tasks' = [s \in Sessions |-> IF s \in S THEN NoTask ELSE tasks[s]]
  /\ userSessions' = [u \in Users |-> userSessions[u] \ S]
  /\ task' = Cancelling(S)
  /\ UNCHANGED adrift

SlipStartKeepsStale(s, t) ==
  /\ Available(t)
  /\ tasks' = [tasks EXCEPT ![s] = t]
  /\ userSessions' = [userSessions EXCEPT ![Owner[s]] = @ \cup {s}]
  /\ task' = [task EXCEPT ![t] = At(s, "created", "none")]
  /\ UNCHANGED adrift

StartBot(s, t) ==
  /\ Available(t)
  /\ tasks' = [tasks EXCEPT ![s] = t]
  /\ userSessions' = [userSessions EXCEPT ![Owner[s]] = @ \cup {s}]
  /\ task' = [Cancelling({s}) EXCEPT ![t] = At(s, "created", "none")]
  /\ UNCHANGED adrift

-----------------------------------------------------------------------------
(* The HTTP handlers.  A request is "checking" while POST /activate or     *)
(* /activate-all looks for duplicates, "read" when its SELECT is answered, *)
(* "acted" when its objects are changed and its commit is in flight, and   *)
(* "starting" when the commit has landed and start_bot is still to come.   *)

Freed(r) == req' = [req EXCEPT ![r] = Free]
Held(r) == {u \in Users : lock[u] = r}
Unlocked(r) == lock' = [u \in Users |-> IF lock[u] = r THEN NoRequest ELSE lock[u]]

(* The live rows the duplicate check selects *)
Duplicates(u, sym) ==
  {s \in Sessions : Owner[s] = u /\ symbol[s] = sym /\ status[s] \in Live}

(* A primary key no committed row and no pending insert uses: uuid4 *)
Fresh(s) == status[s] = "absent" /\ \A r \in Requests : s \notin req[r].targets

SlipLockFree(u) == lock[u] \in Requests \cup {NoRequest}
LockFree(u) == lock[u] = NoRequest

(* Enter `async with get_activation_lock(user_id)`.                        *)
TakeLock(r, u, op, syms) ==
  /\ op \in Endpoints \cap Activations
  /\ op = "activate" => \E sym \in syms : syms = {sym}
  /\ syms # {}
  /\ req[r].pc = "free"
  /\ LockFree(u)
  /\ lock' = [lock EXCEPT ![u] = r]
  /\ req' = [req EXCEPT ![r] = [Free EXCEPT !.pc = "checking", !.op = op,
                                            !.todo = syms, !.want = "active"]]
  /\ UNCHANGED <<rows, registry>>

(* The request leaves with an error and its transaction is rolled back.    *)
Abort(r) ==
  /\ Freed(r)
  /\ Unlocked(r)
  /\ UNCHANGED <<rows, registry>>

(* scalar_one_or_none raises on two live rows, which ends either request.  *)
DuplicateFound(r, u, sym) ==
  IF req[r].op = "activate" \/ Cardinality(Duplicates(u, sym)) > 1
  THEN Abort(r)
  ELSE /\ req' = [req EXCEPT ![r].todo = @ \ {sym},
                             ![r].pc = IF req[r].todo = {sym} THEN "acted" ELSE @]
       /\ UNCHANGED <<rows, registry, lock>>

(* The row of an uncommitted insert: its symbol and token are set, and its *)
(* status stays "absent" for every other transaction.                      *)
AddSession(r, s, sym, kind) ==
  /\ Fresh(s)
  /\ symbol' = [symbol EXCEPT ![s] = sym]
  /\ token' = [token EXCEPT ![s] = kind]
  /\ req' = [req EXCEPT ![r].targets = @ \cup {s},
                        ![r].seen[s] = "absent",
                        ![r].todo = @ \ {sym},
                        ![r].pc = IF req[r].todo = {sym} THEN "acted" ELSE @]
  /\ UNCHANGED <<status, registry, lock>>

CheckSymbol(r) ==
  /\ req[r].pc = "checking"
  /\ \E u \in Held(r), sym \in req[r].todo :
       IF Duplicates(u, sym) # {}
       THEN DuplicateFound(r, u, sym)
       ELSE \E s \in Sessions, kind \in NewTokens :
              Owner[s] = u /\ AddSession(r, s, sym, kind)

(* The broker refuses the token (client.get_balance), or a query fails.    *)
ActivateRefused(r) ==
  /\ req[r].op \in Activations
  /\ req[r].pc = "checking" \/ (req[r].pc = "acted" /\ req[r].op = "activate")
  /\ Abort(r)

(* The SELECT of an action endpoint is answered.                           *)
Selected(op, s0) ==
  {s \in Sessions :
     /\ status[s] # "absent"
     /\ CASE Plan[op].scope = "one"  -> s = s0
          [] Plan[op].scope = "user" -> /\ Owner[s] = Owner[s0]
                                        /\ status[s] \in Plan[op].from
          [] Plan[op].scope = "all"  -> status[s] \in Plan[op].from}

ReadRows(r, op, s0, want, sym) ==
  /\ op \in Endpoints \ Activations
  /\ req[r].pc = "free"
  /\ Selected(op, s0) # {}
  /\ want \in Plan[op].want
  /\ sym = NoSymbol \/ (Plan[op].rename /\ sym # symbol[s0])
  /\ req' = [req EXCEPT ![r] =
       [Free EXCEPT !.pc = "read", !.op = op, !.targets = Selected(op, s0),
                    !.seen = [s \in Sessions |->
                                IF s \in Selected(op, s0) THEN status[s] ELSE "none"],
                    !.want = want, !.newSymbol = sym]]
  /\ UNCHANGED <<rows, registry, lock>>

(* The handler continues: its checks on the rows it read and on the        *)
(* registry of now, stop_bot, and the assignments to its ORM objects.      *)
Accepted(r) ==
  {s \in req[r].targets :
     /\ req[r].seen[s] \in Plan[req[r].op].from
     /\ Plan[req[r].op].skipRunning => ~IsRunning(s)
     /\ Plan[req[r].op].readable => token[s] # "unreadable"}

Act(r) ==
  /\ req[r].pc = "read"
  /\ req' = [req EXCEPT ![r] = IF Accepted(r) = {} THEN Free
                               ELSE [@ EXCEPT !.pc = "acted", !.targets = Accepted(r)]]
  /\ IF Plan[req[r].op].stop THEN CancelKeys(Accepted(r)) ELSE UNCHANGED registry
  /\ UNCHANGED <<rows, lock>>

(* The value a commit leaves in the status column of row s                 *)
Written(want, seen, s) ==
  IF want \in {"keep", seen} THEN status[s] ELSE want

Commit(r) ==
  /\ req[r].pc = "acted"
  /\ status' = [s \in Sessions |->
       IF s \in req[r].targets THEN Written(req[r].want, req[r].seen[s], s)
                               ELSE status[s]]
  /\ symbol' = [s \in Sessions |->
       IF s \in req[r].targets /\ req[r].newSymbol # NoSymbol
       THEN req[r].newSymbol ELSE symbol[s]]
  /\ req' = [req EXCEPT ![r] = IF Plan[@.op].start /\ @.targets # {}
                               THEN [@ EXCEPT !.pc = "starting"] ELSE Free]
  /\ IF req[r].op = "activate" THEN UNCHANGED lock ELSE Unlocked(r)
  /\ UNCHANGED <<token, registry>>

CommitFails(r) ==
  /\ Faults
  /\ req[r].pc = "acted"
  /\ Abort(r)

SlipCommitted(r) == req[r].pc \in {"acted", "starting"} /\ Plan[req[r].op].start
Committed(r) == req[r].pc = "starting"

(* start_bot for the next committed session, staggered in the bulk calls   *)
StartOne(r) ==
  /\ Committed(r)
  /\ \E s \in req[r].targets, t \in Tasks :
       /\ StartBot(s, t)
       /\ IF req[r].targets = {s}
          THEN Freed(r) /\ Unlocked(r)
          ELSE /\ req' = [req EXCEPT ![r].targets = @ \ {s}]
               /\ UNCHANGED lock
  /\ UNCHANGED rows

-----------------------------------------------------------------------------
(* bot_engine.py, the status of the session.  A task is "created" until    *)
(* its first read of the row, "idle" between ticks, "loaded" from the read *)
(* of a tick to the answer of the halt check, "trading" from there to the  *)
(* end of the tick, "writing" while a commit that changes the status is in *)
(* flight, and "draining" while _bot_tick awaits the price feed to end.    *)

Runs(t, pc) == task[t].pc = pc /\ ~task[t].cancelled
Becomes(t, k) == task' = [task EXCEPT ![t] = k]
Goto(t, pc) == Becomes(t, At(task[t].sid, pc, task[t].seen))
EndTick(t) == Becomes(t, At(task[t].sid, "idle", "none"))
Write(t, want, after) == Becomes(t, Committing(task[t].sid, task[t].seen, want, after))
RowsAndHandlers == <<rows, tasks, userSessions, lock, req>>
TaskOnly == UNCHANGED <<RowsAndHandlers, adrift>>

(* _bot_tick reads the row and decrypts the token before the loop starts.  *)
TaskBegin(t) ==
  /\ Runs(t, "created")
  /\ LET s == task[t].sid
     IN  IF token[s] = "unreadable"
         THEN Becomes(t, Committing(s, status[s], "error", "done"))
         ELSE EndTick(t)
  /\ TaskOnly

(* That first read is not guarded: its failure ends the task.              *)
TaskBeginFails(t) ==
  /\ Faults
  /\ Runs(t, "created")
  /\ Becomes(t, Finished)
  /\ TaskOnly

SlipInactive == {"error"}
Inactive == {"deactivated", "error"}

(* The top of a tick.  A paused row is resumed on a new trading day (the   *)
(* day counters are in RiskGate) and ends the tick otherwise.  The loop's  *)
(* own InvalidToken branch cannot be taken: the key is fixed for a process *)
(* and TaskBegin has decrypted the same token.                             *)
TickLoad(t) ==
  /\ Runs(t, "idle")
  /\ LET s == task[t].sid
     IN  \/ status[s] \in Inactive /\ Becomes(t, At(s, "draining", "none"))
         \/ status[s] = "paused" /\ Becomes(t, Committing(s, "paused", "active", "loaded"))
         \/ status[s] \notin Inactive \cup {"paused"}
            /\ Becomes(t, At(s, "loaded", status[s]))
  /\ TaskOnly

(* The symbol is halted.                                                   *)
HaltDetected(t) ==
  /\ Runs(t, "loaded")
  /\ IF task[t].seen = "halted" THEN EndTick(t) ELSE Write(t, "halted", "idle")
  /\ TaskOnly

HaltCleared(t) ==
  /\ Runs(t, "loaded")
  /\ IF task[t].seen = "halted" THEN Write(t, "active", "trading")
                                ELSE Goto(t, "trading")
  /\ TaskOnly

(* A broker error other than 401 is logged and the tick goes on to trade.  *)
HaltCheckFails(t) ==
  /\ Runs(t, "loaded")
  /\ Goto(t, "trading")
  /\ TaskOnly

(* The broker answers 401 to the halt check, or to the price, order book   *)
(* or order call.  What it makes of an opaque token is its own affair.     *)
BrokerRejectsToken(t) ==
  /\ Runs(t, "loaded") \/ Runs(t, "trading")
  /\ token[task[t].sid] \in {"expired", "opaque"}
  /\ Write(t, "error", "draining")
  /\ TaskOnly

SlipRiskPause(t) ==
  /\ Runs(t, "trading")
  /\ Write(t, "stopped", "idle")
  /\ TaskOnly

(* The daily-loss or the drawdown gate closes.                             *)
RiskPause(t) ==
  /\ Runs(t, "trading")
  /\ Write(t, "paused", "idle")
  /\ TaskOnly

(* The tick ends without changing the status: at one of its `continue`s,   *)
(* at its last commit, or in the `except Exception` of the loop.           *)
TickEnds(t) ==
  /\ Runs(t, "loaded") \/ Runs(t, "trading")
  /\ EndTick(t)
  /\ TaskOnly

(* The commit of a tick lands.                                             *)
AfterWrite(k) ==
  CASE k.after = "done" -> Finished
    [] k.after \in {"loaded", "trading"} -> At(k.sid, k.after, k.want)
    [] OTHER -> At(k.sid, k.after, "none")

TickCommit(t) ==
  /\ Runs(t, "writing")
  /\ LET s == task[t].sid
     IN  status' = [status EXCEPT ![s] = Written(task[t].want, task[t].seen, s)]
  /\ Becomes(t, AfterWrite(task[t]))
  /\ UNCHANGED <<symbol, token, tasks, userSessions, adrift, lock, req>>

SlipTickCommitFails(t) ==
  /\ Faults
  /\ Runs(t, "writing")
  /\ Becomes(t, Finished)
  /\ TaskOnly

TickCommitFails(t) ==
  /\ Faults
  /\ Runs(t, "writing")
  /\ IF task[t].after = "done" THEN Becomes(t, Finished) ELSE EndTick(t)
  /\ TaskOnly

(* CancelledError outside a broker call: a task that has not run yet, or is*)
(* still in its first read or write, ends at once; the others stop the     *)
(* price feed and wait.                                                    *)
TaskUnwinds(t) ==
  /\ task[t].cancelled
  /\ task[t].pc \notin {"done", "draining"}
  /\ IF task[t].pc = "created" \/ task[t].after = "done"
     THEN Becomes(t, Finished)
     ELSE Becomes(t, Unwinding(task[t].sid))
  /\ TaskOnly

(* CancelledError inside a broker call: looking for a handler, _request    *)
(* evaluates httpx.TransientError, which httpx does not have, and the      *)
(* AttributeError replaces the cancel.  For the loop that is a failed tick:*)
(* it rolls back, logs it and goes on, and nothing will cancel it again.   *)
CancelLost(t) ==
  /\ task[t].cancelled
  /\ task[t].pc \in {"loaded", "trading"}
  /\ EndTick(t)
  /\ adrift' = adrift \cup {t}
  /\ UNCHANGED RowsAndHandlers

(* feed.run() returns, so the task ends: it looks at its stop flag only    *)
(* when a message arrives or the connection drops.                         *)
FeedEnds(t) ==
  /\ task[t].pc = "draining"
  /\ Becomes(t, Finished)
  /\ adrift' = adrift \ {t}
  /\ UNCHANGED RowsAndHandlers

TaskStep(t) ==
  \/ TaskBegin(t) \/ TaskBeginFails(t) \/ TickLoad(t)
  \/ HaltDetected(t) \/ HaltCleared(t) \/ HaltCheckFails(t)
  \/ BrokerRejectsToken(t) \/ RiskPause(t) \/ TickEnds(t)
  \/ TickCommit(t) \/ TickCommitFails(t) \/ TaskUnwinds(t)
  \/ CancelLost(t)

-----------------------------------------------------------------------------
(* The JWT of a session reaches its expiry: the broker answers 401 to it.  *)
TokenExpires(s) ==
  /\ status[s] # "absent"
  /\ token[s] = "valid"
  /\ token' = [token EXCEPT ![s] = "expired"]
  /\ UNCHANGED <<status, symbol, registry, lock, req>>

(* The process ends, by shutdown or crash, and _restore_active_sessions of *)
(* the next one runs before any request.  pyjwt.decode without signature   *)
(* verification does not check the expiry either; it raises on a token     *)
(* that is no JWT, and that session is neither started nor marked.         *)
Restart(rotated) ==
  LET tokenNow == [s \in Sessions |->
        IF rotated /\ status[s] # "absent" THEN "unreadable" ELSE token[s]]
      found == {s \in Sessions : status[s] \in Live}
      started == {s \in found : tokenNow[s] \in {"valid", "expired"}}
  IN  /\ rotated => KeyRotation
      /\ token' = tokenNow
      /\ status' = [s \in Sessions |->
           IF s \in found /\ tokenNow[s] = "unreadable" THEN "error" ELSE status[s]]
      /\ \E f \in [started -> Tasks] :
           /\ IsInjective(f)
           /\ tasks' = [s \in Sessions |-> IF s \in started THEN f[s] ELSE NoTask]
           /\ task' = [t \in Tasks |->
                IF \E s \in started : f[s] = t
                THEN At(CHOOSE s \in started : f[s] = t, "created", "none")
                ELSE Finished]
      /\ adrift' = {}
      /\ userSessions' = [u \in Users |-> {s \in started : Owner[s] = u}]
      /\ lock' = [u \in Users |-> NoRequest]
      /\ req' = [r \in Requests |-> Free]
      /\ UNCHANGED symbol

Next ==
  \/ \E r \in Requests :
       \/ \E u \in Users, op \in Activations, syms \in SUBSET Symbols :
            TakeLock(r, u, op, syms)
       \/ \E op \in Endpoints, s \in Sessions, sym \in Symbols \cup {NoSymbol} :
            \E want \in Statuses \cup {"keep"} : ReadRows(r, op, s, want, sym)
       \/ CheckSymbol(r) \/ ActivateRefused(r)
       \/ Act(r) \/ Commit(r) \/ CommitFails(r) \/ StartOne(r)
  \/ \E t \in Tasks : TaskStep(t) \/ FeedEnds(t)
  \/ \E s \in Sessions : TokenExpires(s)
  \/ \E rotated \in BOOLEAN : Restart(rotated)

Spec == Init /\ [][Next]_vars

(* Liveness only: the event loop runs every task that is ready, and every  *)
(* database or broker call it awaits is answered or times out.  Nothing is *)
(* assumed of clients, or of the price feed a draining task waits for.     *)
FairSpec == Spec /\ \A t \in Tasks : WF_vars(TaskStep(t))

-----------------------------------------------------------------------------
(* Properties                                                              *)

RowStatuses == Statuses \cup {"absent", "none"}

TaskRecords ==
  [pc : {"created", "idle", "loaded", "trading", "writing", "draining", "done"},
   sid : Sessions \cup {NoSession}, cancelled : BOOLEAN,
   seen : RowStatuses, want : Statuses \cup {"none"},
   after : {"none", "idle", "loaded", "trading", "draining", "done"}]

RequestRecords ==
  [pc : {"free", "checking", "read", "acted", "starting"},
   op : Endpoints \cup {"none"}, targets : SUBSET Sessions, todo : SUBSET Symbols,
   seen : [Sessions -> RowStatuses], want : Statuses \cup {"keep", "none"},
   newSymbol : Symbols \cup {NoSymbol}]

TypeOK ==
  /\ status \in [Sessions -> Statuses \cup {"absent"}]
  /\ symbol \in [Sessions -> Symbols \cup {NoSymbol}]
  /\ token \in [Sessions -> TokenKinds]
  /\ tasks \in [Sessions -> Tasks \cup {NoTask}]
  /\ userSessions \in [Users -> SUBSET Sessions]
  /\ task \in [Tasks -> TaskRecords]
  /\ adrift \subseteq Tasks
  /\ lock \in [Users -> Requests \cup {NoRequest}]
  /\ req \in [Requests -> RequestRecords]

(* A task that can execute statements of its tick loop, with no            *)
(* CancelledError on its way to it                                         *)
Driving(t) == task[t].pc \notin {"done", "draining"} /\ ~task[t].cancelled

(* "Cancel a stale task for this session if one exists (e.g. restart)"     *)
(* (bot_manager.py:42): at most one task trades for a session.             *)
OneDriver ==
  \A t1, t2 \in Tasks :
    Driving(t1) /\ Driving(t2) /\ task[t1].sid = task[t2].sid => t1 = t2

(* A task that runs is one stop_bot can find, or one whose cancel was lost *)
(* in a broker call: no interleaving of the requests that start and stop   *)
(* bots, and no restart of the process, leaves any other task that its     *)
(* session's registry entry does not name.  So as long as no cancel is lost*)
(* at most one task trades for a session.                                  *)
DriverIsStoppable ==
  \A t \in Tasks : Driving(t) => tasks[task[t].sid] = t \/ t \in adrift

(* No task exists before its row is committed: "bot tasks open their own   *)
(* DB connections and must be able to find the session on first tick"      *)
(* (routers/bots.py:185).                                                  *)
StartedAfterCommit ==
  \A t \in Tasks : Unfinished(t) => status[task[t].sid] # "absent"

(* The reverse index stop_all_for_user and is_any_running_for_user go by   *)
(* names exactly the sessions of the user that have a registered task.     *)
IndexMatchesRegistry ==
  \A u \in Users :
    userSessions[u] = {s \in Sessions : Owner[s] = u /\ tasks[s] # NoTask}

(* "Reject duplicate active session for the same symbol" (bots.py:83): a   *)
(* user has at most one live session per symbol.                           *)
UniqueLive ==
  \A u \in Users, sym \in Symbols : Cardinality(Duplicates(u, sym)) <= 1

(* A session that a client deactivated leaves that status only by the      *)
(* commit of a request that names it, or of a task adrift: no tick of a    *)
(* task whose cancel was not lost revives it with a write decided before   *)
(* the stop.                                                               *)
StopStays ==
  [][\A s \in Sessions :
       status[s] = "deactivated" /\ status'[s] # "deactivated"
         => \/ \E r \in Requests : /\ req[r].pc = "acted" /\ req'[r].pc # "acted"
                                    /\ s \in req[r].targets
            \/ \E t \in adrift : /\ task[t].pc = "writing" /\ task[t].sid = s
                                  /\ task'[t] # task[t]]_vars

HasDriver(s) == \E t \in Tasks : Driving(t) /\ task[t].sid = s

(* A row that still says the bot is alive loses its driver in three ways   *)
(* only: a handler cancelled it and has its commit in flight, the task died*)
(* at its first read or write, before the loop that would have caught the  *)
(* error (bot_engine.py:168), or a restart could not read its token.  No   *)
(* failure of a later tick strands a row.                                  *)
StrandsOnlyAtStart ==
  [][\A s \in Sessions :
       HasDriver(s) /\ ~HasDriver(s)' /\ status'[s] \in Live
         => \/ \E t \in Tasks : /\ Driving(t) /\ task[t].sid = s
                                /\ task[t].pc = "created" \/ task[t].after = "done"
            \/ \E r \in Requests : /\ req[r].pc = "read" /\ req'[r].pc = "acted"
                                   /\ s \in req'[r].targets
            \/ token[s] = "opaque" /\ \A r \in Requests : req'[r] = Free]_vars

Quiet == \A r \in Requests : req[r].pc = "free"

(* With no request under way, a row that says the bot is alive has a task  *)
(* that trades for it, the registered one or one adrift: the dashboard and *)
(* the duplicate check believe the row.                                    *)
LiveStatusHasTask ==
  Quiet => \A s \in Sessions :
             status[s] \in Live =>
               \E t \in Tasks : /\ Driving(t) /\ task[t].sid = s
                                /\ t = tasks[s] \/ t \in adrift

(* A task that is running when its row is deactivated stops trading, even  *)
(* if no stop_bot reached it or the cancel was lost, unless the row leaves *)
(* that status.                                                            *)
DeactivationTakesEffect ==
  \A t \in Tasks, s \in Sessions :
    (status[s] = "deactivated" /\ Driving(t) /\ task[t].sid = s)
      ~> (status[s] # "deactivated" \/ ~Driving(t) \/ task[t].sid # s)

=============================================================================
