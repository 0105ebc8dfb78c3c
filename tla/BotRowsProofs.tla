--------------------------- MODULE BotRowsProofs ----------------------------
(***************************************************************************)
(* What the status column of BotSessions and its tasks guarantee together. *)
(*                                                                         *)
(* The proofs go from steps to drivers (the tasks that can still execute   *)
(* statements of their loop): which drivers a step of a task, a stop, a    *)
(* start or a restart leaves, and what it does to the rows.  On top of the *)
(* invariant of BotSessionsProofs, RowsInv says that ticks write what they *)
(* have decided, requests follow their plans and nothing trades for an     *)
(* inactive row; LoopInv that a task that lost its cancel is still in its  *)
(* loop; PairInv that a live row has a driver, registered or adrift, or a  *)
(* request that sees to it.  None of these excludes lost cancels.  ClaimInv*)
(* does: a symbol is claimed once, from the insert of its row on and under *)
(* the lock of its user, while no task is adrift to revive an old session. *)
(***************************************************************************)
EXTENDS BotSessionsProofs, FiniteSetTheorems

(* What a tick has decided before it writes: it has not read an inactive   *)
(* row as one to trade for, only a rejected or unreadable token writes     *)
(* "error", and everything else it writes is a live status.                *)
Sound(k) ==
  /\ k.pc \in {"loaded", "trading"} => k.seen \notin Inactive
  /\ k.pc = "writing" =>
       /\ k.after \in {"done", "draining"} => k.want = "error"
       /\ k.after = "draining" => k.seen # "error"
       /\ k.after \in {"idle", "loaded", "trading"} => k.want \in Live

Decided == \A t \in Tasks : Sound(task[t])

-----------------------------------------------------------------------------
(* Records of tasks                                                        *)

LEMMA SoundRecords ==
  /\ Sound(Finished)
  /\ \A s : Sound(Unwinding(s))
  /\ \A s, pc, seen : pc \in {"created", "idle", "draining"} => Sound(At(s, pc, seen))
  /\ \A s, pc, seen : seen \notin Inactive /\ pc # "writing" => Sound(At(s, pc, seen))
  /\ \A s, seen : Sound(Committing(s, seen, "error", "done"))
  /\ \A s, seen : seen # "error" => Sound(Committing(s, seen, "error", "draining"))
  /\ \A s, seen, want, after :
       want \in Live /\ after \in {"idle", "loaded", "trading"}
         => Sound(Committing(s, seen, want, after))
BY DEF Sound, Finished, Unwinding, At, Committing

LEMMA RecordFields ==
  /\ Finished.pc = "done"
  /\ \A s : Unwinding(s).pc = "draining" /\ Unwinding(s).sid = s /\ Unwinding(s).cancelled
  /\ \A s, pc, seen : /\ At(s, pc, seen).pc = pc /\ At(s, pc, seen).sid = s
                      /\ At(s, pc, seen).seen = seen /\ ~At(s, pc, seen).cancelled
  /\ \A s, seen, want, after :
       /\ Committing(s, seen, want, after).pc = "writing"
       /\ Committing(s, seen, want, after).sid = s
       /\ Committing(s, seen, want, after).seen = seen
       /\ Committing(s, seen, want, after).want = want
       /\ Committing(s, seen, want, after).after = after
       /\ ~Committing(s, seen, want, after).cancelled
BY DEF Finished, Unwinding, At, Committing

(* A driver that lost no cancel                                            *)
Moored(t) == Driving(t) /\ t \notin adrift
HasMoored(s) == \E t \in Tasks : Moored(t) /\ task[t].sid = s

(* A moored driver is the task its session's registry entry names.         *)
LEMMA DriverFacts ==
  ASSUME IInv, NEW t \in Tasks, Driving(t)
  PROVE  /\ Unfinished(t) /\ ~task[t].cancelled
         /\ task[t].sid \in Sessions /\ (tasks[task[t].sid] = t \/ t \in adrift)
         /\ status[task[t].sid] # "absent"
BY DEF IInv, RegistryOK, RowsExist, StartedAfterCommit, Driving, Unfinished

-----------------------------------------------------------------------------
(* What a step of a task is: one task changes, it keeps its session or     *)
(* stops driving it, only a lost cancel makes it drive again, adrift, and  *)
(* only a commit changes a row, the task's own.                            *)
LEMMA TaskStepIs ==
  ASSUME IInv, Decided, NEW t \in Tasks, TaskStep(t) \/ FeedEnds(t)
  PROVE  /\ UNCHANGED <<symbol, token, tasks, userSessions, lock, req>>
         /\ \A x \in Tasks : x # t => task'[x] = task[x]
         /\ Sound(task'[t])
         /\ Driving(t)' => task'[t].sid = task[t].sid
         /\ \/ (Driving(t)' => Driving(t)) /\ adrift' = adrift
            \/ ~Driving(t)' /\ adrift' = adrift \ {t}
            \/ CancelLost(t) /\ ~Driving(t) /\ adrift' = adrift \cup {t}
         /\ UNCHANGED status \/ TickCommit(t)
<1>1. task \in [Tasks -> TaskRecords] /\ Sound(task[t])
  BY DEF IInv, TypeOK, Decided
<1>2. ASSUME NEW k, Becomes(t, k)
      PROVE  task'[t] = k /\ \A x \in Tasks : x # t => task'[x] = task[x]
  BY <1>1, <1>2 DEF Becomes
<1>3. ASSUME NEW pc, Runs(t, pc), pc \notin {"done", "draining"} PROVE Driving(t)
  BY <1>3 DEF Runs, Driving
<1>4. ASSUME NEW k, Becomes(t, k), Sound(k),
             (Driving(t) /\ k.sid = task[t].sid) \/ k.pc \in {"done", "draining"},
             TaskOnly
      PROVE  /\ UNCHANGED <<symbol, token, tasks, userSessions, lock, req>>
             /\ \A x \in Tasks : x # t => task'[x] = task[x]
             /\ Sound(task'[t])
             /\ Driving(t)' => task'[t].sid = task[t].sid
             /\ (Driving(t)' => Driving(t)) /\ adrift' = adrift
             /\ UNCHANGED status \/ TickCommit(t)
  <2>1. task'[t] = k /\ \A x \in Tasks : x # t => task'[x] = task[x]
    BY <1>2, <1>4
  <2>2. Driving(t)' => k.pc \notin {"done", "draining"}
    BY <2>1 DEF Driving
  <2>3. UNCHANGED <<status, symbol, token, tasks, userSessions, adrift, lock, req>>
    BY <1>4 DEF TaskOnly, RowsAndHandlers, rows
  <2> QED
    BY <1>4, <2>1, <2>2, <2>3
<1> DEFINE s == task[t].sid
<1>5. CASE TaskBegin(t)
  <2>1. Driving(t) /\ TaskOnly
    BY <1>3, <1>5 DEF TaskBegin
  <2>2. \/ Becomes(t, Committing(s, status[s], "error", "done"))
        \/ Becomes(t, At(s, "idle", "none"))
    BY <1>5 DEF TaskBegin, EndTick
  <2> QED
    BY <1>4, <2>1, <2>2, SoundRecords, RecordFields
<1>6. CASE TaskBeginFails(t)
  BY <1>4, <1>6, SoundRecords, RecordFields DEF TaskBeginFails
<1>7. CASE TickLoad(t)
  <2>1. Driving(t) /\ TaskOnly
    BY <1>3, <1>7 DEF TickLoad
  <2>2. \/ Becomes(t, At(s, "draining", "none"))
        \/ Becomes(t, Committing(s, "paused", "active", "loaded"))
        \/ status[s] \notin Inactive /\ Becomes(t, At(s, "loaded", status[s]))
    BY <1>7 DEF TickLoad
  <2>3. "active" \in Live
    BY DEF Live
  <2> QED
    BY <1>4, <2>1, <2>2, <2>3, SoundRecords, RecordFields
<1>8. CASE \/ HaltDetected(t) \/ HaltCleared(t) \/ HaltCheckFails(t)
           \/ BrokerRejectsToken(t) \/ RiskPause(t) \/ TickEnds(t)
  <2>1. Runs(t, "loaded") \/ Runs(t, "trading")
    BY <1>8 DEF HaltDetected, HaltCleared, HaltCheckFails, BrokerRejectsToken,
       RiskPause, TickEnds
  <2>2. Driving(t) /\ TaskOnly
    BY <1>3, <1>8, <2>1 DEF HaltDetected, HaltCleared, HaltCheckFails,
       BrokerRejectsToken, RiskPause, TickEnds
  <2>3. task[t].seen \notin Inactive
    BY <1>1, <2>1 DEF Runs, Sound
  <2>4. \/ Becomes(t, At(s, "idle", "none"))
        \/ Becomes(t, At(s, "trading", task[t].seen))
        \/ Becomes(t, Committing(s, task[t].seen, "halted", "idle"))
        \/ Becomes(t, Committing(s, task[t].seen, "active", "trading"))
        \/ Becomes(t, Committing(s, task[t].seen, "error", "draining"))
        \/ Becomes(t, Committing(s, task[t].seen, "paused", "idle"))
    BY <1>8 DEF HaltDetected, HaltCleared, HaltCheckFails, BrokerRejectsToken,
       RiskPause, TickEnds, EndTick, Goto, Write
  <2>5. {"active", "halted", "paused"} \subseteq Live /\ "error" \in Inactive
    BY DEF Live, Inactive
  <2> QED
    BY <1>4, <2>2, <2>3, <2>4, <2>5, SoundRecords, RecordFields
<1>9. CASE TickCommit(t)
  <2>1. /\ Driving(t) /\ task[t].pc = "writing"
        /\ UNCHANGED <<symbol, token, tasks, userSessions, adrift, lock, req>>
        /\ Becomes(t, AfterWrite(task[t]))
    BY <1>3, <1>9 DEF TickCommit, Runs
  <2>2. task[t].after \in {"idle", "loaded", "trading", "draining", "done"}
    BY <1>1, <2>1 DEF IInv, Writing, TaskRecords
  <2>3. \/ AfterWrite(task[t]) = Finished
        \/ \E pc \in {"idle", "draining"} : AfterWrite(task[t]) = At(s, pc, "none")
        \/ \E pc \in {"loaded", "trading"} :
             AfterWrite(task[t]) = At(s, pc, task[t].want) /\ task[t].want \in Live
    <3>1. CASE task[t].after = "done"
      BY <3>1 DEF AfterWrite
    <3>2. CASE task[t].after \in {"loaded", "trading"}
      BY <1>1, <2>1, <3>2 DEF AfterWrite, Sound
    <3>3. CASE task[t].after \in {"idle", "draining"}
      BY <3>3 DEF AfterWrite
    <3> QED
      BY <2>2, <3>1, <3>2, <3>3
  <2>4. Sound(AfterWrite(task[t])) /\ (AfterWrite(task[t]).pc = "done"
                                       \/ AfterWrite(task[t]).sid = s)
    BY <2>3, SoundRecords, RecordFields DEF Live, Inactive
  <2>5. task'[t] = AfterWrite(task[t])
    BY <1>2, <2>1
  <2>6. Driving(t)' => Driving(t) /\ task'[t].sid = task[t].sid
    BY <2>1, <2>4, <2>5 DEF Driving
  <2> QED
    BY <1>2, <1>9, <2>1, <2>4, <2>5, <2>6
<1>10. CASE TickCommitFails(t)
  <2>1. Driving(t) /\ TaskOnly
    BY <1>3, <1>10 DEF TickCommitFails
  <2>2. Becomes(t, Finished) \/ Becomes(t, At(s, "idle", "none"))
    BY <1>10 DEF TickCommitFails, EndTick
  <2> QED
    BY <1>4, <2>1, <2>2, SoundRecords, RecordFields
<1>11. CASE TaskUnwinds(t)
  <2>1. TaskOnly /\ (Becomes(t, Finished) \/ Becomes(t, Unwinding(s)))
    BY <1>11 DEF TaskUnwinds
  <2> QED
    BY <1>4, <2>1, SoundRecords, RecordFields
<1>12. CASE FeedEnds(t)
  <2>1. /\ Becomes(t, Finished) /\ adrift' = adrift \ {t}
        /\ UNCHANGED <<status, symbol, token, tasks, userSessions, lock, req>>
    BY <1>12 DEF FeedEnds, RowsAndHandlers, rows
  <2>2. task'[t] = Finished /\ \A x \in Tasks : x # t => task'[x] = task[x]
    BY <1>2, <2>1
  <2> QED
    BY <2>1, <2>2, SoundRecords, RecordFields DEF Driving
<1>13. CASE CancelLost(t)
  <2>1. /\ Becomes(t, At(s, "idle", "none")) /\ adrift' = adrift \cup {t}
        /\ task[t].cancelled
        /\ UNCHANGED <<status, symbol, token, tasks, userSessions, lock, req>>
    BY <1>13 DEF CancelLost, EndTick, RowsAndHandlers, rows
  <2>2. task'[t] = At(s, "idle", "none") /\ \A x \in Tasks : x # t => task'[x] = task[x]
    BY <1>2, <2>1
  <2> QED
    BY <1>13, <2>1, <2>2, SoundRecords, RecordFields DEF Driving
<1> QED
  BY <1>5, <1>6, <1>7, <1>8, <1>9, <1>10, <1>11, <1>12, <1>13 DEF TaskStep

(* A step of a task moors no driver, and its commit leaves it driving on   *)
(* for a row that it makes live.                                           *)
LEMMA TaskStepMoors ==
  ASSUME IInv, Decided, NEW t \in Tasks, TaskStep(t) \/ FeedEnds(t), NEW x \in Tasks
  PROVE  /\ Moored(x)' => Moored(x) /\ task'[x].sid = task[x].sid
         /\ x # t => (Driving(x)' <=> Driving(x)) /\ (x \in adrift' <=> x \in adrift)
<1>1. x # t => task'[x] = task[x] /\ (x \in adrift' <=> x \in adrift)
  BY TaskStepIs
<1>2. x = t => (Moored(x)' => Moored(x) /\ task'[x].sid = task[x].sid)
  BY TaskStepIs DEF Moored
<1> QED
  BY <1>1, <1>2 DEF Moored, Driving

-----------------------------------------------------------------------------
(* What the handlers do to the drivers                                     *)

(* The steps of a handler that neither commit nor touch the registry       *)
LEMMA QuietHandlers ==
  ASSUME NEW r \in Requests,
         \/ \E u \in Users, op \in Activations, syms \in SUBSET Symbols :
              TakeLock(r, u, op, syms)
         \/ \E op \in Endpoints, s \in Sessions, sym \in Symbols \cup {NoSymbol} :
              \E want \in Statuses \cup {"keep"} : ReadRows(r, op, s, want, sym)
         \/ CheckSymbol(r) \/ ActivateRefused(r) \/ CommitFails(r)
  PROVE  UNCHANGED <<status, tasks, task, adrift>>
<1>0. UNCHANGED <<rows, registry>> => UNCHANGED <<status, tasks, task, adrift>>
  BY DEF rows, registry
<1>1. ASSUME NEW u, NEW op, NEW syms, TakeLock(r, u, op, syms)
      PROVE  UNCHANGED <<status, tasks, task, adrift>>
  BY <1>0, <1>1, Zenon DEF TakeLock
<1>2. ASSUME NEW op, NEW s, NEW sym, NEW want, ReadRows(r, op, s, want, sym)
      PROVE  UNCHANGED <<status, tasks, task, adrift>>
  BY <1>0, <1>2, Zenon DEF ReadRows
<1>3. Abort(r) => UNCHANGED <<status, tasks, task, adrift>>
  BY DEF Abort, rows, registry
<1>4. CheckSymbol(r) => UNCHANGED <<status, tasks, task, adrift>>
  <2>1. \A u, sym : DuplicateFound(r, u, sym) => UNCHANGED <<status, tasks, task, adrift>>
    BY <1>3 DEF DuplicateFound, rows, registry
  <2>2. \A s, sym, kind : AddSession(r, s, sym, kind) => UNCHANGED <<status, tasks, task, adrift>>
    BY DEF AddSession, registry
  <2> QED
    BY <2>1, <2>2 DEF CheckSymbol
<1> QED
  BY <1>1, <1>2, <1>3, <1>4 DEF ActivateRefused, CommitFails

(* A cancel on its way changes nothing else in the record of its task.     *)
SamePlace(t) ==
  /\ task'[t].pc = task[t].pc
  /\ task'[t].sid = task[t].sid
  /\ task'[t].after = task[t].after

(* stop_bot leaves a stopped session without a moored driver and the others*)
(* alone.                                                                  *)
LEMMA ActIs ==
  ASSUME IInv, NEW r \in Requests, Act(r)
  PROVE  /\ UNCHANGED <<status, symbol, token, adrift>>
         /\ \A t \in Tasks : task'[t] = task[t] \/ task'[t].cancelled
         /\ \A t \in Tasks : SamePlace(t)
         /\ \A t \in Tasks : ~Registered(t) => task'[t] = task[t]
         /\ \A s \in Sessions : tasks'[s] \in {tasks[s], NoTask}
         /\ \A t \in Tasks : Driving(t)' => Driving(t) /\ task'[t] = task[t]
         /\ \A t \in Tasks : Driving(t) /\ ~Driving(t)' =>
              Plan[req[r].op].stop /\ task[t].sid \in Accepted(r)
         /\ Plan[req[r].op].stop =>
              \A t \in Tasks : Moored(t)' => task'[t].sid \notin Accepted(r)
<1>1. /\ UNCHANGED <<status, symbol, token>>
      /\ Accepted(r) \in SUBSET Sessions
  BY DEF Act, rows, Accepted, IInv, TypeOK, RequestRecords
<1>2. CASE ~Plan[req[r].op].stop
  <2>1. UNCHANGED <<task, tasks, adrift>>
    BY <1>2 DEF Act, registry
  <2> QED
    BY <1>1, <1>2, <2>1 DEF Driving, SamePlace
<1>3. CASE Plan[req[r].op].stop
  <2>1. /\ task' = Cancelling(Accepted(r)) /\ adrift' = adrift
        /\ \A s \in Sessions : tasks'[s] \in {tasks[s], NoTask}
    BY <1>3 DEF Act, CancelKeys
  <2>2. ASSUME NEW t \in Tasks
        PROVE  /\ task'[t] = task[t] \/ task'[t].cancelled
               /\ SamePlace(t) /\ (~Registered(t) => task'[t] = task[t])
               /\ Driving(t)' => Driving(t) /\ task'[t] = task[t]
               /\ Driving(t) /\ ~Driving(t)' => task[t].sid \in Accepted(r)
               /\ Moored(t)' => task'[t].sid \notin Accepted(r)
    <3>1. /\ SamePlace(t) /\ task'[t].pc = task[t].pc /\ task'[t].sid = task[t].sid
          /\ Unfinished(t) /\ (\E s \in Accepted(r) : tasks[s] = t) => task'[t].cancelled
          /\ ~(Unfinished(t) /\ \E s \in Accepted(r) : tasks[s] = t) => task'[t] = task[t]
      BY <1>1, <2>1, CancellingTypes DEF SamePlace
    <3>2. Driving(t)' => /\ task'[t] = task[t] /\ Unfinished(t)
                         /\ ~\E s \in Accepted(r) : tasks[s] = t
      BY <3>1 DEF Driving, Unfinished
    <3>3. Driving(t)' => Driving(t)
      BY <3>2 DEF Driving
    <3>4. Driving(t) => /\ task[t].sid \in Sessions
                        /\ tasks[task[t].sid] = t \/ t \in adrift
      BY DriverFacts
    <3>5. \A s \in Accepted(r) : tasks[s] = t /\ Unfinished(t) => task[t].sid = s
      BY <1>1 DEF IInv, RegistryOK
    <3>6. Driving(t) /\ ~Driving(t)' => \E s \in Accepted(r) : tasks[s] = t /\ Unfinished(t)
      BY <3>1 DEF Driving
    <3>7. Moored(t)' => task'[t].sid \notin Accepted(r)
      BY <2>1, <3>2, <3>3, <3>4 DEF Moored
    <3>8. ~Registered(t) => task'[t] = task[t]
      BY <1>1, <3>1 DEF Registered
    <3> QED
      BY <3>1, <3>2, <3>3, <3>5, <3>6, <3>7, <3>8
  <2> QED
    BY <1>1, <1>3, <2>1, <2>2
<1> QED
  BY <1>2, <1>3

(* start_bot gives the next session s of request r the new task t.         *)
StartsOne(r, s, t) ==
  /\ UNCHANGED <<status, symbol, token, adrift>>
  /\ req[r].pc = "starting" /\ s \in Sessions
  /\ IF req[r].targets = {s} THEN req' = [req EXCEPT ![r] = Free]
                             ELSE req' = [req EXCEPT ![r].targets = @ \ {s}]
  /\ ~Driving(t) /\ task'[t] = At(s, "created", "none")
  /\ Available(t) /\ tasks' = [tasks EXCEPT ![s] = t]
  /\ \A x \in Tasks : x # t =>
       /\ SamePlace(x)
       /\ tasks[s] # x \/ ~Unfinished(x) => task'[x] = task[x]
       /\ task'[x] = task[x] \/ task'[x].cancelled
       /\ Driving(x)' => Driving(x) /\ task'[x] = task[x]
       /\ Moored(x)' => task[x].sid # s
       /\ Driving(x) /\ ~Driving(x)' => task[x].sid = s

(* start_bot replaces the moored driver of one session.                    *)
LEMMA StartOneIs ==
  ASSUME IInv, NEW r \in Requests, StartOne(r)
  PROVE  \E s \in req[r].targets, t \in Tasks : StartsOne(r, s, t)
<1>1. PICK s \in req[r].targets, t \in Tasks :
        /\ StartBot(s, t)
        /\ IF req[r].targets = {s}
           THEN Freed(r) /\ Unlocked(r)
           ELSE req' = [req EXCEPT ![r].targets = @ \ {s}] /\ UNCHANGED lock
  BY DEF StartOne
<1>2. /\ req[r].pc = "starting" /\ s \in Sessions /\ UNCHANGED <<status, symbol, token>>
  BY HeldRows DEF StartOne, Committed, rows
<1>3. /\ task' = [Cancelling({s}) EXCEPT ![t] = At(s, "created", "none")]
      /\ Available(t) /\ ~Unfinished(t) /\ adrift' = adrift
      /\ tasks' = [tasks EXCEPT ![s] = t]
  BY <1>1 DEF StartBot, Available
<1>4. ~Driving(t) /\ task'[t] = At(s, "created", "none")
      /\ \A x \in Tasks : x # t => task'[x] = Cancelling({s})[x]
  BY <1>2, <1>3, CancellingTypes DEF Driving, Unfinished
<1>5. ASSUME NEW x \in Tasks, x # t
      PROVE  /\ SamePlace(x)
             /\ tasks[s] # x \/ ~Unfinished(x) => task'[x] = task[x]
             /\ task'[x] = task[x] \/ task'[x].cancelled
             /\ Driving(x)' => Driving(x) /\ task'[x] = task[x]
             /\ Moored(x)' => task[x].sid # s
             /\ Driving(x) /\ ~Driving(x)' => task[x].sid = s
  <2>1. /\ SamePlace(x) /\ task'[x].pc = task[x].pc
        /\ Unfinished(x) /\ tasks[s] = x => task'[x].cancelled
        /\ ~(Unfinished(x) /\ tasks[s] = x) => task'[x] = task[x]
    BY <1>2, <1>4, <1>5, CancellingTypes DEF SamePlace
  <2>2. Driving(x)' => task'[x] = task[x] /\ tasks[s] # x
    BY <2>1 DEF Driving, Unfinished
  <2>3. Driving(x)' => Driving(x)
    BY <2>2 DEF Driving
  <2>4. Driving(x) => Unfinished(x) /\ (tasks[task[x].sid] = x \/ x \in adrift)
    BY DriverFacts
  <2>5. Unfinished(x) /\ tasks[s] = x => task[x].sid = s
    BY <1>2 DEF IInv, RegistryOK
  <2>6. Driving(x) /\ ~Driving(x)' => tasks[s] = x
    BY <2>1 DEF Driving
  <2>7. Moored(x)' => task[x].sid # s
    BY <1>3, <2>2, <2>3, <2>4 DEF Moored
  <2> QED
    BY <2>1, <2>2, <2>3, <2>4, <2>5, <2>6, <2>7
<1>6. StartsOne(r, s, t)
  BY <1>1, <1>2, <1>3, <1>4, <1>5 DEF Freed, StartsOne
<1> QED
  BY <1>1, <1>6

(* A restart drops every request, keeps the drivers of no one, and marks or*)
(* starts every live row unless its token is no JWT.                       *)
LEMMA RestartIs ==
  ASSUME IInv, NEW rotated \in BOOLEAN, Restart(rotated)
  PROVE  /\ UNCHANGED symbol /\ adrift' = {}
         /\ \A r \in Requests : req'[r] = Free
         /\ \A s \in Sessions :
              /\ status'[s] = status[s] \/ (status[s] \in Live /\ status'[s] = "error")
              /\ status'[s] \in Live => \/ HasDriver(s)'
                                        \/ token[s] = "opaque"
              /\ token'[s] \in {token[s], "unreadable"}
         /\ \A t \in Tasks :
              \/ task'[t] = Finished
              \/ \E s \in Sessions : /\ task'[t] = At(s, "created", "none")
                                     /\ status'[s] \in Live
<1> DEFINE tokenNow == [s \in Sessions |->
             IF rotated /\ status[s] # "absent" THEN "unreadable" ELSE token[s]]
           found == {s \in Sessions : status[s] \in Live}
           started == {s \in found : tokenNow[s] \in {"valid", "expired"}}
<1>1. PICK f \in [started -> Tasks] :
        /\ IsInjective(f)
        /\ task' = [t \in Tasks |->
             IF \E s \in started : f[s] = t
             THEN At(CHOOSE s \in started : f[s] = t, "created", "none") ELSE Finished]
  BY DEF Restart
<1>2. /\ UNCHANGED symbol /\ adrift' = {}
      /\ \A r \in Requests : req'[r] = Free
      /\ \A s \in Sessions : status'[s] =
           IF s \in found /\ tokenNow[s] = "unreadable" THEN "error" ELSE status[s]
      /\ \A s \in Sessions : token'[s] \in {token[s], "unreadable"}
  BY DEF Restart
<1>3. \A s \in Sessions : tokenNow[s] \in TokenKinds
                          /\ (tokenNow[s] = "opaque" => token[s] = "opaque")
  BY DEF IInv, TypeOK, TokenKinds
<1>4. \A s \in Sessions : s \in found <=> status[s] \in Live
  OBVIOUS
<1>5. \A s \in Sessions : s \in started <=> s \in found /\ tokenNow[s] \in {"valid", "expired"}
  OBVIOUS
<1>6. \A s \in started : s \in Sessions /\ f[s] \in Tasks
                         /\ \A x \in started : f[s] = f[x] => s = x
  BY <1>1 DEF IsInjective
<1> HIDE DEF tokenNow, found, started
<1>7. ASSUME NEW s \in started
      PROVE  HasDriver(s)'
  <2>1. task'[f[s]] = At(CHOOSE x \in started : f[x] = f[s], "created", "none")
    BY <1>1, <1>6
  <2>2. (CHOOSE x \in started : f[x] = f[s]) = s
    BY <1>6
  <2> QED
    BY <1>6, <2>1, <2>2 DEF HasDriver, Driving, At
<1>8. ASSUME NEW s \in Sessions
      PROVE  /\ status'[s] = status[s] \/ (status[s] \in Live /\ status'[s] = "error")
             /\ status'[s] \in Live => HasDriver(s)' \/ token[s] = "opaque"
  <2>1. status'[s] \in Live => s \in found /\ tokenNow[s] # "unreadable"
    BY <1>2, <1>4 DEF Live
  <2>2. status'[s] \in Live => s \in started \/ token[s] = "opaque"
    BY <1>3, <1>5, <2>1 DEF TokenKinds
  <2> QED
    BY <1>2, <1>4, <1>7, <2>2
<1>9. ASSUME NEW t \in Tasks, task'[t] # Finished
      PROVE  \E s \in Sessions : task'[t] = At(s, "created", "none") /\ status'[s] \in Live
  <2>1. PICK s \in started : f[s] = t
    BY <1>1, <1>9
  <2>2. task'[t] = At(s, "created", "none")
    BY <1>1, <1>6, <2>1
  <2>3. status'[s] = status[s] /\ status[s] \in Live
    BY <1>2, <1>4, <1>5, <1>6
  <2> QED
    BY <1>6, <2>2, <2>3
<1> QED
  BY <1>2, <1>8, <1>9

-----------------------------------------------------------------------------
(* Every step of the service, as the lemmas above see it                   *)
LEMMA NextIs ==
  ASSUME [Next]_vars
  PROVE  \/ UNCHANGED vars
         \/ \E t \in Tasks : TaskStep(t) \/ FeedEnds(t)
         \/ \E r \in Requests :
              \/ \E u \in Users, op \in Activations, syms \in SUBSET Symbols :
                   TakeLock(r, u, op, syms)
              \/ \E op \in Endpoints, s \in Sessions, sym \in Symbols \cup {NoSymbol} :
                   \E want \in Statuses \cup {"keep"} : ReadRows(r, op, s, want, sym)
              \/ CheckSymbol(r) \/ ActivateRefused(r) \/ CommitFails(r)
         \/ \E r \in Requests : Act(r) \/ Commit(r) \/ StartOne(r)
         \/ \E s \in Sessions : TokenExpires(s)
         \/ \E rotated \in BOOLEAN : Restart(rotated)
BY DEF Next

LEMMA SoundCancelled ==
  ASSUME IInv, NEW S \in SUBSET Sessions, NEW t \in Tasks, Sound(task[t])
  PROVE  Sound(Cancelling(S)[t])
<1>1. task[t] \in TaskRecords
  BY DEF IInv, TypeOK
<1>2. Cancelling(S)[t] = task[t] \/ Cancelling(S)[t] = [task[t] EXCEPT !.cancelled = TRUE]
  BY DEF Cancelling
<1> QED
  BY <1>1, <1>2 DEF Sound, TaskRecords

LEMMA NextDecided == IInv /\ Decided /\ [Next]_vars => Decided'
<1> SUFFICES ASSUME IInv, Decided, [Next]_vars PROVE Decided'
  OBVIOUS
<1>1. SUFFICES ASSUME NEW x \in Tasks PROVE Sound(task'[x])
  BY DEF Decided
<1>2. Sound(task[x])
  BY DEF Decided
<1>3. ASSUME UNCHANGED task PROVE Sound(task'[x])
  BY <1>2, <1>3
<1>4. ASSUME NEW t \in Tasks, TaskStep(t) \/ FeedEnds(t) PROVE Sound(task'[x])
  <2>1. Sound(task'[t]) /\ (x # t => task'[x] = task[x])
    BY <1>4, TaskStepIs
  <2> QED
    BY <1>2, <2>1
<1>5. ASSUME NEW r \in Requests, Act(r) PROVE Sound(task'[x])
  <2>1. Accepted(r) \in SUBSET Sessions
    BY DEF Accepted, IInv, TypeOK, RequestRecords
  <2>2. UNCHANGED task \/ task' = Cancelling(Accepted(r))
    BY <1>5 DEF Act, CancelKeys, registry
  <2> QED
    BY <1>2, <1>3, <2>1, <2>2, SoundCancelled
<1>6. ASSUME NEW r \in Requests, StartOne(r) PROVE Sound(task'[x])
  <2>1. PICK s \in req[r].targets, t \in Tasks : StartBot(s, t)
    BY <1>6 DEF StartOne
  <2>2. /\ s \in Sessions
        /\ task' = [Cancelling({s}) EXCEPT ![t] = At(s, "created", "none")]
    BY <2>1, HeldRows DEF StartBot
  <2>3. task'[x] = Cancelling({s})[x] \/ task'[x] = At(s, "created", "none")
    BY <2>2 DEF Cancelling
  <2> QED
    BY <1>2, <2>2, <2>3, SoundCancelled, SoundRecords
<1>7. ASSUME NEW r \in Requests, Commit(r) PROVE UNCHANGED task
  BY <1>7 DEF Commit, registry
<1>8. ASSUME NEW s \in Sessions, TokenExpires(s) PROVE UNCHANGED task
  BY <1>8 DEF TokenExpires, registry
<1>9. ASSUME NEW rotated \in BOOLEAN, Restart(rotated) PROVE Sound(task'[x])
  BY <1>9, RestartIs, SoundRecords
<1>10. CASE UNCHANGED vars
  BY <1>3, <1>10 DEF vars
<1> QED
  BY <1>3, <1>4, <1>5, <1>6, <1>7, <1>8, <1>9, <1>10, NextIs, QuietHandlers

(* What a tick writes follows from what it has read.                       *)
THEOREM DecidedCorrect == Spec => []Decided
<1>1. Init => Decided
  BY SoundRecords DEF Init, Decided
<1> QED
  BY <1>1, NextDecided, Inductive, PTL DEF Spec

-----------------------------------------------------------------------------
(* The ways a live row loses its driver                                    *)

LEMMA CommitStatus ==
  ASSUME IInv, NEW t \in Tasks, TickCommit(t)
  PROVE  /\ Driving(t) /\ task[t].pc = "writing" /\ task[t].sid \in Sessions
         /\ task'[t] = AfterWrite(task[t])
         /\ \A s \in Sessions : status'[s] =
              IF s = task[t].sid /\ task[t].want # task[t].seen
              THEN task[t].want ELSE status[s]
<1>1. Driving(t) /\ task[t].pc = "writing"
  BY DEF TickCommit, Runs, Driving
<1>2. task[t].sid \in Sessions
  BY <1>1, DriverFacts
<1>3. task[t].want # "keep"
  BY DEF IInv, TypeOK, TaskRecords, Statuses, Live
<1>4. status' = [status EXCEPT ![task[t].sid] =
                   Written(task[t].want, task[t].seen, task[t].sid)]
      /\ task' = [task EXCEPT ![t] = AfterWrite(task[t])]
  BY DEF TickCommit, Becomes
<1>5. task'[t] = AfterWrite(task[t])
  BY <1>4 DEF IInv, TypeOK
<1> QED
  BY <1>1, <1>2, <1>3, <1>4, <1>5 DEF Written, IInv, TypeOK

(* A task that stops driving by a step of its own leaves a row that is not *)
(* live, unless it had not reached its loop.                               *)
LEMMA TaskStrands ==
  ASSUME IInv, Decided, NEW t \in Tasks, TaskStep(t) \/ FeedEnds(t),
         Driving(t), ~Driving(t)', status'[task[t].sid] \in Live
  PROVE  \/ Faults /\ task[t].pc = "created"
         \/ /\ task[t].pc = "writing" /\ task[t].after = "done"
            /\ Faults \/ TickCommit(t)
<1> DEFINE s == task[t].sid
<1>1. task \in [Tasks -> TaskRecords] /\ s \in Sessions /\ Sound(task[t])
  BY DriverFacts DEF IInv, TypeOK, Decided
<1>2. ASSUME NEW k, Becomes(t, k), ~k.cancelled, k.pc \notin {"done", "draining"}
      PROVE  FALSE
  BY <1>1, <1>2 DEF Becomes, Driving
<1>3. ASSUME NEW pc, NEW seen, Becomes(t, At(s, pc, seen)) PROVE pc \in {"done", "draining"}
  BY <1>2, <1>3, RecordFields
<1>4. ASSUME NEW seen, NEW want, NEW after, Becomes(t, Committing(s, seen, want, after))
      PROVE  FALSE
  BY <1>2, <1>4, RecordFields
<1>5. CASE TaskBegin(t) \/ TaskBeginFails(t)
  <2>1. TaskBegin(t) => FALSE
    BY <1>3, <1>4 DEF TaskBegin, EndTick
  <2> QED
    BY <1>5, <2>1 DEF TaskBeginFails, Runs
<1>6. CASE TickLoad(t)
  <2>1. status[s] \in Inactive /\ UNCHANGED status
    BY <1>3, <1>4, <1>6 DEF TickLoad, TaskOnly, RowsAndHandlers, rows
  <2> QED
    BY <2>1 DEF Live, Inactive
<1>7. CASE \/ HaltDetected(t) \/ HaltCleared(t) \/ HaltCheckFails(t)
           \/ BrokerRejectsToken(t) \/ RiskPause(t) \/ TickEnds(t)
  BY <1>3, <1>4, <1>7 DEF HaltDetected, HaltCleared, HaltCheckFails,
     BrokerRejectsToken, RiskPause, TickEnds, EndTick, Goto, Write
<1>8. CASE TickCommit(t)
  <2>1. task[t].pc = "writing" /\ task'[t] = AfterWrite(task[t])
        /\ status'[s] = IF task[t].want # task[t].seen THEN task[t].want ELSE status[s]
    BY <1>1, <1>8, CommitStatus
  <2>2. task[t].after \in {"idle", "loaded", "trading", "draining", "done"}
    BY <1>1, <2>1 DEF IInv, Writing, TaskRecords
  <2>3. CASE task[t].after = "draining"
    BY <1>1, <2>1, <2>3 DEF Sound, Live
  <2>4. CASE task[t].after \in {"loaded", "trading"}
    <3>1. AfterWrite(task[t]) = At(s, task[t].after, task[t].want)
      BY <2>4 DEF AfterWrite
    <3> QED
      BY <2>1, <2>4, <3>1, RecordFields DEF Driving
  <2>5. CASE task[t].after = "idle"
    <3>1. AfterWrite(task[t]) = At(s, "idle", "none")
      BY <2>5 DEF AfterWrite
    <3> QED
      BY <2>1, <3>1, RecordFields DEF Driving
  <2> QED
    BY <1>8, <2>1, <2>2, <2>3, <2>4, <2>5
<1>9. CASE TickCommitFails(t)
  BY <1>3, <1>9 DEF TickCommitFails, EndTick, Runs
<1>10. CASE TaskUnwinds(t) \/ FeedEnds(t) \/ CancelLost(t)
  BY <1>10 DEF TaskUnwinds, FeedEnds, CancelLost, Driving
<1> QED
  BY <1>5, <1>6, <1>7, <1>8, <1>9, <1>10 DEF TaskStep

(* A row that still says the bot is alive loses its driver only to a stop  *)
(* whose commit is in flight, to a failure before the loop, or to a restart*)
(* that cannot read its token, whatever requests race and databases fail.  *)
THEOREM StrandsCorrect == Spec => StrandsOnlyAtStart
<1> DEFINE Stranded(s) == HasDriver(s) /\ ~HasDriver(s)' /\ status'[s] \in Live
           Why(s) ==
             \/ \E t \in Tasks : /\ Driving(t) /\ task[t].sid = s
                                 /\ task[t].pc = "created" \/ task[t].after = "done"
             \/ \E r \in Requests : /\ req[r].pc = "read" /\ req'[r].pc = "acted"
                                    /\ s \in req'[r].targets
             \/ token[s] = "opaque" /\ \A r \in Requests : req'[r] = Free
<1>1. ASSUME IInv, Decided, [Next]_vars, NEW s \in Sessions, Stranded(s) PROVE Why(s)
  <2>1. PICK t0 \in Tasks : Driving(t0) /\ task[t0].sid = s
    BY <1>1 DEF HasDriver
  <2>2. ASSUME NEW x \in Tasks, Driving(x)' PROVE task'[x].sid # s
    BY <1>1, <2>2 DEF HasDriver
  <2>3. ASSUME task'[t0] = task[t0] PROVE FALSE
    BY <2>1, <2>2, <2>3 DEF Driving
  <2>4. ASSUME NEW t \in Tasks, TaskStep(t) \/ FeedEnds(t) PROVE Why(s)
    <3>1. t = t0
      BY <1>1, <2>3, <2>4, TaskStepIs
    <3>2. ~Driving(t0)'
      BY <1>1, <2>1, <2>2, <2>4, <3>1, TaskStepIs
    <3>3. task[t0].pc = "created" \/ task[t0].after = "done"
      BY <1>1, <2>1, <2>4, <3>1, <3>2, TaskStrands
    <3> QED
      BY <2>1, <3>3
  <2>5. ASSUME NEW r \in Requests, Act(r) PROVE Why(s)
    <3>1. s \in Accepted(r)
      BY <1>1, <2>1, <2>3, <2>5, ActIs
    <3>2. req[r].pc = "read"
          /\ req'[r] = [req[r] EXCEPT !.pc = "acted", !.targets = Accepted(r)]
      BY <1>1, <2>5, <3>1 DEF Act, IInv, TypeOK
    <3>3. req'[r].pc = "acted" /\ req'[r].targets = Accepted(r)
      BY <1>1, <3>2 DEF IInv, TypeOK, RequestRecords
    <3> QED
      BY <3>1, <3>2, <3>3
  <2>6. ASSUME NEW r \in Requests, StartOne(r) PROVE FALSE
    <3>0. PICK y \in req[r].targets, t \in Tasks : StartsOne(r, y, t)
      BY <1>1, <2>6, StartOneIs
    <3>1. /\ ~Driving(t) /\ task'[t] = At(y, "created", "none")
          /\ \A x \in Tasks : x # t =>
               /\ Driving(x)' => task'[x] = task[x]
               /\ Driving(x) /\ ~Driving(x)' => task[x].sid = y
      BY <3>0 DEF StartsOne
    <3>2. y = s
      BY <2>1, <2>3, <3>1
    <3>3. Driving(t)' /\ task'[t].sid = y
      BY <3>1, RecordFields DEF Driving
    <3> QED
      BY <2>2, <3>2, <3>3
  <2>7. ASSUME NEW rotated \in BOOLEAN, Restart(rotated) PROVE Why(s)
    BY <1>1, <2>7, RestartIs
  <2>8. ASSUME UNCHANGED task PROVE FALSE
    BY <2>3, <2>8
  <2>9. ASSUME NEW r \in Requests, Commit(r) PROVE UNCHANGED task
    BY <2>9 DEF Commit, registry
  <2>10. ASSUME NEW x \in Sessions, TokenExpires(x) PROVE UNCHANGED task
    BY <2>10 DEF TokenExpires, registry
  <2>11. UNCHANGED vars => UNCHANGED task
    BY DEF vars
  <2> HIDE DEF Why
  <2> QED
    BY <1>1, <2>4, <2>5, <2>6, <2>7, <2>8, <2>9, <2>10, <2>11, NextIs, QuietHandlers
<1>2. IInv /\ Decided /\ [Next]_vars => [\A s \in Sessions : Stranded(s) => Why(s)]_vars
  BY <1>1
<1> QED
  BY <1>2, Inductive, DecidedCorrect, PTL DEF Spec, StrandsOnlyAtStart

-----------------------------------------------------------------------------
(* What the plans of the endpoints have in common                          *)

Deactivates(p) ==
  "deactivated" \in p.want => p.stop /\ p.want = {"deactivated"} /\ ~p.rename
Starts(p) == p.start => p.want = {"active"} /\ ~p.rename

LEMMA PlanFacts ==
  /\ \A op \in DOMAIN Plan :
       /\ Deactivates(Plan[op]) /\ Starts(Plan[op])
       /\ Plan[op].want \subseteq {"keep", "active", "paused", "deactivated"}
       /\ Plan[op].start /\ op \notin Activations
            => Plan[op].stop \/ Plan[op].skipRunning \/ Plan[op].readable
  /\ \A op \in Activations : op \in DOMAIN Plan => Plan[op].start /\ ~Plan[op].stop
<1> USE DEF Deactivates, Starts, Base
<1>1. \A op \in DOMAIN Plan : op \in
        {"activate", "activate_all", "stop_session", "remove_session", "deactivate",
         "update_config", "start_session", "pause_session", "resume_session",
         "restart_session", "start_all_sessions", "stop_all_sessions",
         "stop_all_running_bots", "admin_start", "admin_stop", "admin_restart",
         "admin_pause", "admin_resume"}
  BY DEF Plan
<1> DEFINE Fine(p) == /\ Deactivates(p) /\ Starts(p)
                      /\ p.want \subseteq {"keep", "active", "paused", "deactivated"}
           Alone(p) == p.start => p.stop \/ p.skipRunning \/ p.readable
<1>2. /\ Fine(activate) /\ Fine(activate_all)
      /\ activate.start /\ ~activate.stop /\ activate_all.start /\ ~activate_all.stop
  BY DEF activate, activate_all
<1>3. /\ Fine(stop_session) /\ Alone(stop_session)
      /\ Fine(remove_session) /\ Alone(remove_session)
      /\ Fine(deactivate) /\ Alone(deactivate)
      /\ Fine(update_config) /\ Alone(update_config)
  BY DEF stop_session, remove_session, deactivate, update_config
<1>4. /\ Fine(start_session) /\ Alone(start_session)
      /\ Fine(pause_session) /\ Alone(pause_session)
      /\ Fine(resume_session) /\ Alone(resume_session)
      /\ Fine(restart_session) /\ Alone(restart_session)
  BY DEF start_session, pause_session, resume_session, restart_session
<1>5. /\ Fine(start_all_sessions) /\ Alone(start_all_sessions)
      /\ Fine(stop_all_sessions) /\ Alone(stop_all_sessions)
      /\ Fine(stop_all_running_bots) /\ Alone(stop_all_running_bots)
  BY DEF start_all_sessions, stop_all_sessions, stop_all_running_bots
<1>6. /\ Fine(admin_start) /\ Alone(admin_start)
      /\ Fine(admin_stop) /\ Alone(admin_stop)
      /\ Fine(admin_restart) /\ Alone(admin_restart)
      /\ Fine(admin_pause) /\ Alone(admin_pause)
      /\ Fine(admin_resume) /\ Alone(admin_resume)
  BY DEF admin_start, admin_stop, admin_restart, admin_pause, admin_resume
<1> HIDE DEF Fine, Alone, Base, Deactivates, Starts
<1>7. Plan["activate"] = activate /\ Plan["activate_all"] = activate_all
  BY DEF Plan
<1>8. \A op \in DOMAIN Plan \ Activations : Plan[op] \in
        {stop_session, remove_session, deactivate, update_config,
         start_session, pause_session, resume_session, restart_session,
         start_all_sessions, stop_all_sessions, stop_all_running_bots,
         admin_start, admin_stop, admin_restart, admin_pause, admin_resume}
  BY <1>1 DEF Plan, Activations
<1>9. \A op \in DOMAIN Plan \ Activations : Fine(Plan[op]) /\ Alone(Plan[op])
  BY <1>3, <1>4, <1>5, <1>6, <1>8
<1>10. \A op \in Activations : Fine(Plan[op]) /\ Plan[op].start /\ ~Plan[op].stop
  BY <1>2, <1>7 DEF Activations
<1> QED
  BY <1>9, <1>10 DEF Fine, Alone

-----------------------------------------------------------------------------
(* The requests: each follows the plan of its endpoint.                    *)

FollowsPlan(q) ==
  /\ q.pc = "free" => q.targets = {}
  /\ q.pc # "free" =>
       /\ q.op \in Endpoints /\ q.want \in Plan[q.op].want
       /\ q.newSymbol # NoSymbol => Plan[q.op].rename
  /\ q.pc = "checking" => q.op \in Activations
  /\ q.pc = "read" => q.op \notin Activations
  /\ q.pc = "starting" => Plan[q.op].start

Planned == \A r \in Requests : FollowsPlan(req[r])

LEMMA FreePlanned == FollowsPlan(Free) /\ Free.pc = "free" /\ Free.targets = {}
BY DEF FollowsPlan, Free

(* The steps of a handler, one lemma each: the others' requests are left   *)
(* alone, and its own goes where its plan says.                            *)

LEMMA AbortRequest ==
  ASSUME TypeOK, NEW r \in Requests, Abort(r)
  PROVE  req' = [req EXCEPT ![r] = Free] /\ req'[r] = Free
BY DEF Abort, Freed, TypeOK

LEMMA TakeLockRequest ==
  ASSUME IInv, NEW r \in Requests, NEW u \in Users, NEW op \in Activations,
         NEW syms \in SUBSET Symbols, TakeLock(r, u, op, syms)
  PROVE  /\ req' = [req EXCEPT ![r] = req'[r]]
         /\ FollowsPlan(req'[r]) /\ req'[r].pc = "checking" /\ req'[r].targets = {}
<1> DEFINE q == [Free EXCEPT !.pc = "checking", !.op = op,
                             !.todo = syms, !.want = "active"]
<1>1. /\ req' = [req EXCEPT ![r] = q] /\ op \in Endpoints
  BY DEF TakeLock
<1>2. q.pc = "checking" /\ q.op = op /\ q.want = "active" /\ q.targets = {}
      /\ q.newSymbol = NoSymbol
  BY DEF Free
<1> HIDE DEF q
<1>3. req'[r] = q
  BY <1>1 DEF IInv, TypeOK
<1>4. "active" \in Plan[op].want
  BY <1>1, PlanFacts, EndpointsAssumption DEF Starts
<1> QED
  BY <1>1, <1>2, <1>3, <1>4 DEF FollowsPlan

LEMMA ReadRowsRequest ==
  ASSUME IInv, NEW r \in Requests, NEW op \in Endpoints, NEW s0 \in Sessions,
         NEW sym \in Symbols \cup {NoSymbol}, NEW want \in Statuses \cup {"keep"},
         ReadRows(r, op, s0, want, sym)
  PROVE  /\ req' = [req EXCEPT ![r] = req'[r]]
         /\ FollowsPlan(req'[r]) /\ req'[r].pc = "read"
         /\ req'[r].targets = Selected(op, s0)
         /\ \A s \in req'[r].targets : s \in Sessions /\ req'[r].seen[s] = status[s]
<1> DEFINE S == Selected(op, s0)
           seen == [s \in Sessions |-> IF s \in S THEN status[s] ELSE "none"]
           q == [Free EXCEPT !.pc = "read", !.op = op, !.targets = S,
                             !.seen = seen, !.want = want, !.newSymbol = sym]
<1>1. /\ S \subseteq Sessions /\ op \notin Activations /\ want \in Plan[op].want
      /\ sym # NoSymbol => Plan[op].rename
  BY DEF Selected, ReadRows
<1>2. req' = [req EXCEPT ![r] = q]
  BY DEF ReadRows
<1>3. \A s \in S : seen[s] = status[s]
  BY <1>1
<1> HIDE DEF S, seen
<1>4. q.pc = "read" /\ q.op = op /\ q.want = want /\ q.targets = S /\ q.seen = seen
      /\ q.newSymbol = sym
  BY DEF Free
<1> HIDE DEF q
<1>5. req'[r] = q
  BY <1>2 DEF IInv, TypeOK
<1> QED
  BY <1>1, <1>2, <1>3, <1>4, <1>5 DEF FollowsPlan, S

LEMMA CheckSymbolRequest ==
  ASSUME IInv, Planned, NEW r \in Requests, CheckSymbol(r)
  PROVE  /\ req' = [req EXCEPT ![r] = req'[r]] /\ FollowsPlan(req'[r])
         /\ req[r].pc = "checking" /\ req[r].op \in Activations
         /\ \/ Abort(r) /\ req'[r] = Free /\ UNCHANGED symbol
            \/ /\ req'[r].pc \in {"checking", "acted"} /\ req'[r].op = req[r].op
               /\ \E u \in Held(r), sym \in req[r].todo :
                    /\ req'[r].todo = req[r].todo \ {sym}
                    /\ \/ UNCHANGED <<symbol, lock>> /\ req'[r].targets = req[r].targets
                       \/ \E s \in Sessions :
                            /\ Duplicates(u, sym) = {} /\ Fresh(s) /\ Owner[s] = u
                            /\ req'[r].targets = req[r].targets \cup {s}
                            /\ symbol' = [symbol EXCEPT ![s] = sym] /\ UNCHANGED lock
<1>1. PICK u \in Held(r), sym \in req[r].todo :
        \/ DuplicateFound(r, u, sym)
        \/ /\ Duplicates(u, sym) = {}
           /\ \E s \in Sessions, kind \in NewTokens :
                Owner[s] = u /\ AddSession(r, s, sym, kind)
  BY DEF CheckSymbol
<1>2. /\ req[r].pc = "checking" /\ req[r] \in RequestRecords /\ FollowsPlan(req[r])
      /\ req[r].op \in Activations
  BY HeldRows DEF CheckSymbol, Planned, FollowsPlan
<1> DEFINE pc == IF req[r].todo = {sym} THEN "acted" ELSE req[r].pc
<1>3. pc \in {"checking", "acted"}
  BY <1>2
<1>4. ASSUME Abort(r)
      PROVE  req' = [req EXCEPT ![r] = req'[r]] /\ FollowsPlan(req'[r]) /\ req'[r] = Free
             /\ UNCHANGED symbol
  BY <1>4, AbortRequest, FreePlanned DEF IInv, Abort, rows
<1>5. ASSUME DuplicateFound(r, u, sym), ~Abort(r)
      PROVE  /\ req' = [req EXCEPT ![r] = req'[r]] /\ FollowsPlan(req'[r])
             /\ req'[r].pc \in {"checking", "acted"} /\ req'[r].op = req[r].op
             /\ req'[r].todo = req[r].todo \ {sym}
             /\ UNCHANGED <<symbol, lock>> /\ req'[r].targets = req[r].targets
  <2> DEFINE q == [req[r] EXCEPT !.todo = @ \ {sym}, !.pc = pc]
  <2>1. req' = [req EXCEPT ![r] = q] /\ UNCHANGED <<symbol, lock>>
    BY <1>5 DEF DuplicateFound, IInv, TypeOK, rows
  <2>2. /\ q.pc = pc /\ q.want = req[r].want /\ q.op = req[r].op
        /\ q.targets = req[r].targets /\ q.newSymbol = req[r].newSymbol
        /\ q.todo = req[r].todo \ {sym}
    BY <1>2 DEF RequestRecords
  <2> HIDE DEF q, pc
  <2>3. req'[r] = q
    BY <2>1 DEF IInv, TypeOK
  <2>4. FollowsPlan(q)
    BY <1>2, <1>3, <2>2 DEF FollowsPlan
  <2> QED
    BY <1>3, <2>1, <2>2, <2>3, <2>4
<1>6. ASSUME NEW s \in Sessions, NEW kind \in NewTokens, AddSession(r, s, sym, kind)
      PROVE  /\ req' = [req EXCEPT ![r] = req'[r]] /\ FollowsPlan(req'[r])
             /\ req'[r].pc \in {"checking", "acted"} /\ req'[r].op = req[r].op
             /\ req'[r].todo = req[r].todo \ {sym}
             /\ Fresh(s) /\ req'[r].targets = req[r].targets \cup {s}
             /\ symbol' = [symbol EXCEPT ![s] = sym] /\ UNCHANGED lock
  <2> DEFINE q == [req[r] EXCEPT !.targets = @ \cup {s}, !.seen[s] = "absent",
                                 !.todo = @ \ {sym}, !.pc = pc]
  <2>1. req' = [req EXCEPT ![r] = q]
    BY <1>6 DEF AddSession, IInv, TypeOK
  <2>2. /\ q.pc = pc /\ q.want = req[r].want /\ q.op = req[r].op
        /\ q.targets = req[r].targets \cup {s} /\ q.newSymbol = req[r].newSymbol
        /\ q.todo = req[r].todo \ {sym}
    BY <1>2 DEF RequestRecords
  <2> HIDE DEF q, pc
  <2>3. req'[r] = q
    BY <2>1 DEF IInv, TypeOK
  <2>4. FollowsPlan(q)
    BY <1>2, <1>3, <2>2 DEF FollowsPlan
  <2>5. Fresh(s) /\ symbol' = [symbol EXCEPT ![s] = sym] /\ UNCHANGED lock
    BY <1>6 DEF AddSession
  <2> QED
    BY <1>3, <2>1, <2>2, <2>3, <2>4, <2>5
<1>7. CASE DuplicateFound(r, u, sym)
  BY <1>2, <1>4, <1>5, <1>7
<1>8. CASE /\ Duplicates(u, sym) = {}
           /\ \E s \in Sessions, kind \in NewTokens :
                Owner[s] = u /\ AddSession(r, s, sym, kind)
  BY <1>2, <1>6, <1>8
<1> QED
  BY <1>1, <1>7, <1>8

LEMMA ActRequest ==
  ASSUME IInv, Planned, NEW r \in Requests, Act(r)
  PROVE  /\ req' = [req EXCEPT ![r] = req'[r]] /\ FollowsPlan(req'[r])
         /\ req[r].pc = "read" /\ req[r].op \notin Activations
         /\ \/ req'[r] = Free
            \/ /\ req'[r].pc = "acted" /\ req'[r].op = req[r].op
               /\ req'[r].want = req[r].want /\ req'[r].seen = req[r].seen
               /\ req'[r].targets = Accepted(r) /\ Accepted(r) \subseteq req[r].targets
<1> DEFINE q == [req[r] EXCEPT !.pc = "acted", !.targets = Accepted(r)]
<1>1. /\ req[r].pc = "read" /\ req[r] \in RequestRecords /\ FollowsPlan(req[r])
      /\ Accepted(r) \subseteq req[r].targets
  BY HeldRows DEF Act, Accepted, Planned
<1>2. req' = [req EXCEPT ![r] = Free] \/ req' = [req EXCEPT ![r] = q]
  BY DEF Act, IInv, TypeOK
<1>3. /\ q.pc = "acted" /\ q.op = req[r].op /\ q.want = req[r].want
      /\ q.targets = Accepted(r) /\ q.newSymbol = req[r].newSymbol
      /\ q.seen = req[r].seen
  BY <1>1 DEF RequestRecords
<1> HIDE DEF q
<1>4. req'[r] = Free \/ req'[r] = q
  BY <1>2 DEF IInv, TypeOK
<1>5. FollowsPlan(q)
  BY <1>1, <1>3 DEF FollowsPlan
<1> QED
  BY <1>1, <1>2, <1>3, <1>4, <1>5, FreePlanned DEF FollowsPlan

LEMMA CommitRequest ==
  ASSUME IInv, Planned, NEW r \in Requests, Commit(r)
  PROVE  /\ req' = [req EXCEPT ![r] = req'[r]] /\ FollowsPlan(req'[r])
         /\ req[r].pc = "acted" /\ UNCHANGED <<token, tasks, task>>
         /\ \/ req'[r] = Free /\ (Plan[req[r].op].start => req[r].targets = {})
            \/ /\ req'[r].pc = "starting" /\ req'[r].op = req[r].op
               /\ Plan[req[r].op].start /\ req'[r].targets = req[r].targets
         /\ \A s \in Sessions :
              status'[s] = IF s \in req[r].targets
                           THEN Written(req[r].want, req[r].seen[s], s) ELSE status[s]
<1> DEFINE q == [req[r] EXCEPT !.pc = "starting"]
<1>1. req[r].pc = "acted" /\ req[r] \in RequestRecords /\ FollowsPlan(req[r])
  BY HeldRows DEF Commit, Planned
<1>2. \/ req' = [req EXCEPT ![r] = Free] /\ (Plan[req[r].op].start => req[r].targets = {})
      \/ req' = [req EXCEPT ![r] = q] /\ Plan[req[r].op].start
  BY DEF Commit, IInv, TypeOK
<1>3. /\ q.pc = "starting" /\ q.op = req[r].op /\ q.want = req[r].want
      /\ q.targets = req[r].targets /\ q.newSymbol = req[r].newSymbol
  BY <1>1 DEF RequestRecords
<1> HIDE DEF q
<1>4. \/ req'[r] = Free /\ (Plan[req[r].op].start => req[r].targets = {})
      \/ req'[r] = q /\ Plan[req[r].op].start
  BY <1>2 DEF IInv, TypeOK
<1>5. Plan[req[r].op].start => FollowsPlan(q)
  BY <1>1, <1>3 DEF FollowsPlan
<1>6. /\ UNCHANGED <<token, tasks, task>>
      /\ \A s \in Sessions :
           status'[s] = IF s \in req[r].targets
                        THEN Written(req[r].want, req[r].seen[s], s) ELSE status[s]
  BY DEF Commit, registry
<1> QED
  BY <1>1, <1>2, <1>3, <1>4, <1>5, <1>6, FreePlanned

LEMMA StartOneRequest ==
  ASSUME IInv, Planned, NEW r \in Requests, NEW s, NEW t, StartsOne(r, s, t)
  PROVE  /\ req' = [req EXCEPT ![r] = req'[r]] /\ FollowsPlan(req'[r])
         /\ req'[r].targets = req[r].targets \ {s}
         /\ req'[r].pc \in {"free", "starting"}
<1> DEFINE q == [req[r] EXCEPT !.targets = @ \ {s}]
<1>1. req[r] \in RequestRecords /\ FollowsPlan(req[r])
  BY HeldRows DEF Planned
<1>2. \/ req' = [req EXCEPT ![r] = Free] /\ req[r].targets = {s}
      \/ req' = [req EXCEPT ![r] = q]
  BY DEF IInv, TypeOK, StartsOne
<1>3. /\ q.pc = "starting" /\ q.op = req[r].op /\ q.want = req[r].want
      /\ q.targets = req[r].targets \ {s} /\ q.newSymbol = req[r].newSymbol
  BY <1>1 DEF RequestRecords, StartsOne
<1> HIDE DEF q
<1>4. (req'[r] = Free /\ req[r].targets = {s}) \/ req'[r] = q
  BY <1>2 DEF IInv, TypeOK
<1>5. FollowsPlan(q)
  <2>1. req[r].pc = "starting"
    BY DEF StartsOne
  <2> QED
    BY <1>1, <1>3, <2>1 DEF FollowsPlan
<1> QED
  BY <1>2, <1>3, <1>4, <1>5, FreePlanned

LEMMA NextPlanned == IInv /\ Planned /\ [Next]_vars => Planned'
<1> SUFFICES ASSUME IInv, Planned, [Next]_vars PROVE Planned'
  OBVIOUS
<1>1. ASSUME UNCHANGED req PROVE Planned'
  BY <1>1 DEF Planned
<1>2. ASSUME NEW r \in Requests, req' = [req EXCEPT ![r] = req'[r]], FollowsPlan(req'[r])
      PROVE  Planned'
  <2> SUFFICES ASSUME NEW x \in Requests PROVE FollowsPlan(req'[x])
    BY DEF Planned
  <2>1. x # r => req'[x] = req[x]
    BY <1>2 DEF IInv, TypeOK
  <2> QED
    BY <1>2, <2>1 DEF Planned
<1>3. ASSUME NEW t \in Tasks, TaskStep(t) \/ FeedEnds(t) PROVE UNCHANGED req
  BY <1>3 DEF TaskStep, FeedEnds, TaskBegin, TaskBeginFails, TickLoad, HaltDetected,
     HaltCleared, HaltCheckFails, BrokerRejectsToken, RiskPause, TickEnds, TickCommit,
     TickCommitFails, TaskUnwinds, CancelLost, TaskOnly, RowsAndHandlers
<1>4. ASSUME NEW r \in Requests, NEW u \in Users, NEW op \in Activations,
             NEW syms \in SUBSET Symbols, TakeLock(r, u, op, syms)
      PROVE  Planned'
  BY <1>2, <1>4, TakeLockRequest
<1>5. ASSUME NEW r \in Requests, NEW op \in Endpoints, NEW s \in Sessions,
             NEW sym \in Symbols \cup {NoSymbol}, NEW want \in Statuses \cup {"keep"},
             ReadRows(r, op, s, want, sym)
      PROVE  Planned'
  BY <1>2, <1>5, ReadRowsRequest
<1>6. ASSUME NEW r \in Requests, CheckSymbol(r) PROVE Planned'
  BY <1>2, <1>6, CheckSymbolRequest
<1>7. ASSUME NEW r \in Requests, ActivateRefused(r) \/ CommitFails(r) PROVE Planned'
  <2>1. req' = [req EXCEPT ![r] = Free] /\ req'[r] = Free
    BY <1>7, AbortRequest DEF ActivateRefused, CommitFails, IInv
  <2> QED
    BY <1>2, <2>1, FreePlanned
<1>8. ASSUME NEW r \in Requests, Act(r) PROVE Planned'
  BY <1>2, <1>8, ActRequest
<1>9. ASSUME NEW r \in Requests, Commit(r) PROVE Planned'
  BY <1>2, <1>9, CommitRequest
<1>10. ASSUME NEW r \in Requests, StartOne(r) PROVE Planned'
  <2>1. PICK s \in req[r].targets, t \in Tasks : StartsOne(r, s, t)
    BY <1>10, StartOneIs
  <2> QED
    BY <1>2, <2>1, StartOneRequest
<1>11. ASSUME NEW s \in Sessions, TokenExpires(s) PROVE UNCHANGED req
  BY <1>11 DEF TokenExpires
<1>12. ASSUME NEW rotated \in BOOLEAN, Restart(rotated) PROVE Planned'
  BY <1>12, RestartIs, FreePlanned DEF Planned
<1>13. UNCHANGED vars => UNCHANGED req
  BY DEF vars
<1> QED
  BY <1>1, <1>3, <1>4, <1>5, <1>6, <1>7, <1>8, <1>9, <1>10, <1>11, <1>12, <1>13 DEF Next

(* Every request follows the plan of its endpoint: it wants a status that  *)
(* its handler assigns, renames only where the handler takes a symbol, and *)
(* starts tasks only where the handler calls start_bot.                    *)
THEOREM PlannedCorrect == Spec => []Planned
<1>1. Init => Planned
  BY FreePlanned DEF Init, Planned
<1> QED
  BY <1>1, NextPlanned, Inductive, PTL DEF Spec

-----------------------------------------------------------------------------
(* Rows that no two requests handle at once.  Clients may call anything    *)
(* concurrently as long as the sessions their requests name are different  *)
(* ones: nothing is assumed of ticks, failures and restarts.               *)

NoSharedRow ==
  \A q, r \in Requests : q # r => req[q].targets \cap req[r].targets = {}

Pending(q) == q.pc \in {"checking", "acted"} /\ q.op \in Activations

(* A task that has decided to go on with its tick, and one that is about to*)
(* give up because its token cannot be read                                *)
Trading(k) == k.pc \in {"loaded", "trading"} \/ (k.pc = "writing" /\ k.after # "done")
Dying(k) == k.pc = "writing" /\ k.after = "done"

(* A deactivated row has no moored driver.                                 *)
Asleep == \A t \in Tasks : Moored(t) => status[task[t].sid] # "deactivated"

(* What request q knows of row s: an insert is not committed, a stop has   *)
(* left no moored driver, and a row that is deactivated was so when the    *)
(* handler read it, because no tick writes that status.                    *)
Knows(q, s) ==
  /\ Pending(q) => status[s] = "absent"
  /\ q.pc = "acted" /\ Plan[q.op].stop => ~HasMoored(s)
  /\ q.pc \in {"read", "acted"} /\ q.op \notin Activations
       => (status[s] = "deactivated" => q.seen[s] = "deactivated")
  /\ q.pc = "starting" => status[s] # "deactivated"

RowsKnown == \A r \in Requests : \A s \in req[r].targets : Knows(req[r], s)

RowsInv == IInv /\ Decided /\ Planned /\ Asleep /\ RowsKnown

LEMMA RecordKinds ==
  /\ ~Trading(Finished) /\ ~Dying(Finished)
  /\ \A s : ~Trading(Unwinding(s)) /\ ~Dying(Unwinding(s))
  /\ \A s, pc, seen : pc # "writing" => ~Dying(At(s, pc, seen))
  /\ \A s, pc, seen : pc \in {"created", "idle", "draining"} => ~Trading(At(s, pc, seen))
  /\ \A s, seen, want, after :
       /\ Trading(Committing(s, seen, want, after)) <=> after # "done"
       /\ Dying(Committing(s, seen, want, after)) <=> after = "done"
BY DEF Trading, Dying, Finished, Unwinding, At, Committing

(* A task starts to trade by reading a row that is not inactive, and to die*)
(* by failing to read the token of its row.                                *)
LEMMA TaskStepTrades ==
  ASSUME IInv, Decided, NEW t \in Tasks, TaskStep(t) \/ FeedEnds(t)
  PROVE  /\ Trading(task'[t]) => Trading(task[t]) \/ status[task[t].sid] \notin Inactive
         /\ Dying(task'[t]) => /\ token[task[t].sid] = "unreadable"
                               /\ task'[t].seen = status[task[t].sid]
<1> DEFINE s == task[t].sid
           Good == /\ Trading(task'[t]) => Trading(task[t]) \/ status[s] \notin Inactive
                   /\ Dying(task'[t]) => /\ token[s] = "unreadable"
                                         /\ task'[t].seen = status[s]
<1>1. task \in [Tasks -> TaskRecords] /\ Sound(task[t])
  BY DEF IInv, TypeOK, Decided
<1>2. ASSUME NEW k, Becomes(t, k) PROVE task'[t] = k
  BY <1>1, <1>2 DEF Becomes
<1>3. ASSUME NEW k, Becomes(t, k), ~Trading(k), ~Dying(k) PROVE Good
  BY <1>2, <1>3
<1>4. ASSUME NEW k, Becomes(t, k), ~Dying(k), Trading(task[t]) PROVE Good
  BY <1>2, <1>4
<1>5. CASE TaskBegin(t)
  <2>1. \/ token[s] = "unreadable" /\ Becomes(t, Committing(s, status[s], "error", "done"))
        \/ Becomes(t, At(s, "idle", "none"))
    BY <1>5 DEF TaskBegin, EndTick
  <2> QED
    BY <1>2, <1>3, <2>1, RecordKinds, RecordFields
<1>6. CASE TaskBeginFails(t)
  BY <1>3, <1>6, RecordKinds DEF TaskBeginFails
<1>7. CASE TickLoad(t)
  <2>1. \/ Becomes(t, At(s, "draining", "none"))
        \/ status[s] = "paused" /\ Becomes(t, Committing(s, "paused", "active", "loaded"))
        \/ status[s] \notin Inactive /\ Becomes(t, At(s, "loaded", status[s]))
    BY <1>7 DEF TickLoad
  <2>2. ASSUME NEW k, Becomes(t, k), ~Dying(k), status[s] \notin Inactive PROVE Good
    BY <1>2, <2>2
  <2> QED
    BY <1>3, <2>1, <2>2, RecordKinds DEF Inactive
<1>8. CASE \/ HaltDetected(t) \/ HaltCleared(t) \/ HaltCheckFails(t)
           \/ BrokerRejectsToken(t) \/ RiskPause(t) \/ TickEnds(t)
  <2>1. Trading(task[t])
    BY <1>8 DEF HaltDetected, HaltCleared, HaltCheckFails, BrokerRejectsToken,
       RiskPause, TickEnds, Runs, Trading
  <2>2. \/ Becomes(t, At(s, "idle", "none"))
        \/ Becomes(t, At(s, "trading", task[t].seen))
        \/ Becomes(t, Committing(s, task[t].seen, "halted", "idle"))
        \/ Becomes(t, Committing(s, task[t].seen, "active", "trading"))
        \/ Becomes(t, Committing(s, task[t].seen, "error", "draining"))
        \/ Becomes(t, Committing(s, task[t].seen, "paused", "idle"))
    BY <1>8 DEF HaltDetected, HaltCleared, HaltCheckFails, BrokerRejectsToken,
       RiskPause, TickEnds, EndTick, Goto, Write
  <2> QED
    BY <1>4, <2>1, <2>2, RecordKinds
<1>9. CASE TickCommit(t)
  <2>1. task[t].pc = "writing" /\ Becomes(t, AfterWrite(task[t]))
    BY <1>9 DEF TickCommit, Runs
  <2>2. task[t].after \in {"idle", "loaded", "trading", "draining", "done"}
    BY <1>1, <2>1 DEF IInv, Writing, TaskRecords
  <2>3. CASE task[t].after = "done"
    BY <1>3, <2>1, <2>3, RecordKinds DEF AfterWrite
  <2>4. CASE task[t].after \in {"loaded", "trading"}
    <3>1. AfterWrite(task[t]) = At(s, task[t].after, task[t].want)
      BY <2>4 DEF AfterWrite
    <3>2. ~Dying(AfterWrite(task[t])) /\ Trading(task[t])
      BY <2>1, <2>4, <3>1, RecordKinds DEF Trading
    <3> QED
      BY <1>4, <2>1, <3>2
  <2>5. CASE task[t].after \in {"idle", "draining"}
    <3>1. AfterWrite(task[t]) = At(s, task[t].after, "none")
      BY <2>5 DEF AfterWrite
    <3> QED
      BY <1>3, <2>1, <2>5, <3>1, RecordKinds
  <2> QED
    BY <2>2, <2>3, <2>4, <2>5
<1>10. CASE TickCommitFails(t)
  BY <1>3, <1>10, RecordKinds DEF TickCommitFails, EndTick
<1>11. CASE TaskUnwinds(t) \/ FeedEnds(t) \/ CancelLost(t)
  BY <1>3, <1>11, RecordKinds DEF TaskUnwinds, FeedEnds, CancelLost, EndTick
<1> QED
  BY <1>5, <1>6, <1>7, <1>8, <1>9, <1>10, <1>11 DEF TaskStep

-----------------------------------------------------------------------------
(* The steps of a task                                                     *)

LEMMA TaskStepRows ==
  ASSUME RowsInv, NEW t \in Tasks, TaskStep(t) \/ FeedEnds(t)
  PROVE  Asleep' /\ RowsKnown'
<1> USE DEF RowsInv
<1>1. UNCHANGED req /\ (UNCHANGED status \/ TickCommit(t))
  BY TaskStepIs
<1>2. \A x \in Tasks : Moored(x)' => Moored(x) /\ task'[x].sid = task[x].sid
                                   /\ task[x].sid \in Sessions
  BY TaskStepMoors, DriverFacts DEF Moored
<1>3. \A y : HasMoored(y)' => HasMoored(y)
  BY <1>2 DEF HasMoored
<1>4. \A y \in Sessions : /\ status'[y] = "deactivated" => status[y] = "deactivated"
                          /\ status[y] = "absent" => status'[y] = "absent"
  <2>1. CASE UNCHANGED status
    BY <2>1
  <2>2. CASE TickCommit(t)
    <3>1. /\ Driving(t) /\ task[t].pc = "writing" /\ task[t].sid \in Sessions
          /\ \A y \in Sessions : status'[y] =
               IF y = task[t].sid /\ task[t].want # task[t].seen
               THEN task[t].want ELSE status[y]
      BY <2>2, CommitStatus
    <3>2. task[t].want \in Live \cup {"error"}
      BY <3>1 DEF IInv, TypeOK, Writing, TaskRecords, Decided, Sound
    <3>3. status[task[t].sid] # "absent"
      BY <3>1, DriverFacts
    <3> QED
      BY <3>1, <3>2, <3>3 DEF Live
  <2> QED
    BY <1>1, <2>1, <2>2
<1>5. Asleep'
  BY <1>2, <1>4 DEF Asleep
<1>6. RowsKnown'
  <2> SUFFICES ASSUME NEW r \in Requests, NEW y \in req[r].targets
               PROVE  Knows(req[r], y)'
    BY <1>1 DEF RowsKnown
  <2>1. y \in Sessions /\ Knows(req[r], y)
    BY HeldRows DEF RowsKnown
  <2> QED
    BY <1>1, <1>3, <1>4, <2>1 DEF Knows
<1> QED
  BY <1>5, <1>6

-----------------------------------------------------------------------------
(* The steps of a handler                                                  *)

(* Before its commit, a handler changes no row and gives none a driver.    *)
LEMMA HandlerRows ==
  ASSUME RowsInv, NEW r \in Requests,
         UNCHANGED <<status, adrift>>, req' = [req EXCEPT ![r] = req'[r]],
         \A t \in Tasks : Driving(t)' => Driving(t) /\ task'[t] = task[t],
         \A s \in req'[r].targets : Knows(req[r], s)'
  PROVE  Asleep' /\ RowsKnown'
<1>1. \A y : HasMoored(y)' => HasMoored(y)
  BY DEF HasMoored, Moored
<1>2. Asleep'
  BY DEF RowsInv, Asleep, Moored
<1>3. RowsKnown'
  <2> SUFFICES ASSUME NEW x \in Requests, NEW y \in req'[x].targets
               PROVE  Knows(req[x], y)'
    BY DEF RowsKnown
  <2>1. CASE x = r
    BY <2>1
  <2>2. CASE x # r
    <3>1. req'[x] = req[x]
      BY <2>2 DEF RowsInv, IInv, TypeOK
    <3>2. Knows(req[x], y)
      BY <3>1 DEF RowsInv, RowsKnown
    <3> QED
      BY <1>1, <3>1, <3>2 DEF Knows
  <2> QED
    BY <2>1, <2>2
<1> QED
  BY <1>2, <1>3

LEMMA CheckSymbolRows ==
  ASSUME RowsInv, NEW r \in Requests, CheckSymbol(r)
  PROVE  Asleep' /\ RowsKnown'
<1>1. UNCHANGED <<status, task, adrift>>
  BY QuietHandlers
<1>2. /\ req' = [req EXCEPT ![r] = req'[r]]
      /\ req[r].pc = "checking" /\ req[r].op \in Activations
      /\ \/ req'[r] = Free
         \/ /\ req'[r].pc \in {"checking", "acted"} /\ req'[r].op = req[r].op
            /\ \/ req'[r].targets = req[r].targets
               \/ \E s \in Sessions :
                    Fresh(s) /\ req'[r].targets = req[r].targets \cup {s}
  BY CheckSymbolRequest DEF RowsInv
<1>3. ASSUME NEW s \in req'[r].targets PROVE Knows(req[r], s)'
  <2>1. /\ req'[r].pc \in {"checking", "acted"} /\ req'[r].op \in Activations
        /\ req'[r].op \in Endpoints
    BY <1>2, <1>3, FreePlanned DEF RowsInv, Planned, FollowsPlan
  <2>2. s \notin req[r].targets => Fresh(s)
    BY <1>2, <1>3, FreePlanned
  <2>3. Pending(req[r])
    BY <1>2 DEF Pending
  <2>4. status[s] = "absent"
    BY <2>2, <2>3 DEF RowsInv, RowsKnown, Knows, Fresh
  <2>5. ~Plan[req'[r].op].stop
    BY <2>1, PlanFacts, EndpointsAssumption
  <2> QED
    BY <1>1, <2>1, <2>4, <2>5 DEF Knows
<1>4. \A t \in Tasks : Driving(t)' => Driving(t) /\ task'[t] = task[t]
  BY <1>1 DEF Driving
<1> QED
  BY <1>1, <1>2, <1>3, <1>4, HandlerRows

LEMMA ActRows ==
  ASSUME RowsInv, NEW r \in Requests, Act(r)
  PROVE  Asleep' /\ RowsKnown'
<1>1. /\ UNCHANGED <<status, adrift>>
      /\ \A t \in Tasks : Driving(t)' => Driving(t) /\ task'[t] = task[t]
      /\ Plan[req[r].op].stop =>
           \A t \in Tasks : Moored(t)' => task'[t].sid \notin Accepted(r)
  BY ActIs DEF RowsInv
<1>2. /\ req' = [req EXCEPT ![r] = req'[r]]
      /\ req[r].pc = "read" /\ req[r].op \notin Activations
      /\ \/ req'[r] = Free
         \/ /\ req'[r].pc = "acted" /\ req'[r].op = req[r].op
            /\ req'[r].seen = req[r].seen
            /\ req'[r].targets = Accepted(r) /\ Accepted(r) \subseteq req[r].targets
  BY ActRequest DEF RowsInv
<1>3. ASSUME NEW s \in req'[r].targets PROVE Knows(req[r], s)'
  <2>1. /\ req'[r].pc = "acted" /\ req'[r].op = req[r].op /\ req'[r].seen = req[r].seen
        /\ s \in Accepted(r) /\ s \in req[r].targets
    BY <1>2, <1>3, FreePlanned
  <2>2. status[s] = "deactivated" => req[r].seen[s] = "deactivated"
    BY <1>2, <2>1 DEF RowsInv, RowsKnown, Knows
  <2>3. Plan[req[r].op].stop => ~HasMoored(s)'
    BY <1>1, <2>1 DEF HasMoored
  <2> QED
    BY <1>1, <1>2, <2>1, <2>2, <2>3 DEF Knows, Pending
<1> QED
  BY <1>1, <1>2, <1>3, HandlerRows

LEMMA CommitRows ==
  ASSUME RowsInv, NoSharedRow, NEW r \in Requests, Commit(r)
  PROVE  Asleep' /\ RowsKnown'
<1> DEFINE op == req[r].op
           want == req[r].want
<1>1. /\ req' = [req EXCEPT ![r] = req'[r]] /\ UNCHANGED <<task, adrift>>
      /\ req[r].pc = "acted"
      /\ \/ req'[r] = Free
         \/ /\ req'[r].pc = "starting" /\ req'[r].op = op
            /\ Plan[op].start /\ req'[r].targets = req[r].targets
      /\ \A s \in Sessions :
           status'[s] = IF s \in req[r].targets THEN Written(want, req[r].seen[s], s)
                                                ELSE status[s]
  BY CommitRequest DEF RowsInv, Commit, registry
<1>2. /\ op \in Endpoints /\ want \in Plan[op].want
      /\ Deactivates(Plan[op]) /\ Starts(Plan[op])
      /\ want \in {"keep", "active", "paused", "deactivated"}
  BY <1>1, PlanFacts, EndpointsAssumption DEF RowsInv, Planned, FollowsPlan
<1>3. \A y : HasMoored(y)' => HasMoored(y)
  BY <1>1 DEF HasMoored, Moored, Driving
<1>4. ASSUME NEW t \in Tasks, Moored(t)' PROVE status'[task'[t].sid] # "deactivated"
  <2>1. Moored(t) /\ task'[t] = task[t] /\ task[t].sid \in Sessions
    BY <1>1, <1>4, DriverFacts DEF Moored, Driving, RowsInv
  <2>2. status[task[t].sid] # "deactivated"
    BY <2>1 DEF RowsInv, Asleep
  <2>3. CASE task[t].sid \in req[r].targets
    <3>1. ~Plan[op].stop
      BY <1>1, <2>1, <2>3 DEF RowsInv, RowsKnown, Knows, HasMoored
    <3>2. want # "deactivated"
      BY <1>2, <3>1 DEF Deactivates
    <3>3. status'[task[t].sid] \in {status[task[t].sid], "active", "paused"}
      BY <1>1, <1>2, <2>1, <2>3, <3>2 DEF Written
    <3> QED
      BY <2>1, <2>2, <3>3
  <2>4. CASE task[t].sid \notin req[r].targets
    BY <1>1, <2>1, <2>2, <2>4
  <2> QED
    BY <2>3, <2>4
<1>5. ASSUME NEW x \in Requests, NEW s \in req'[x].targets PROVE Knows(req[x], s)'
  <2>1. CASE x # r
    <3>1. /\ req'[x] = req[x] /\ Knows(req[x], s) /\ s \in Sessions
          /\ s \notin req[r].targets
      BY <1>1, <1>5, <2>1, HeldRows
         DEF RowsInv, RowsKnown, NoSharedRow, IInv, TypeOK
    <3> QED
      BY <1>1, <1>3, <3>1 DEF Knows
  <2>2. CASE x = r
    <3>1. /\ req'[r].pc = "starting" /\ Plan[op].start /\ req'[r].op = op
          /\ s \in req[r].targets /\ s \in Sessions
      BY <1>1, <1>5, <2>2, FreePlanned, HeldRows DEF RowsInv
    <3>2. want = "active" /\ Knows(req[r], s)
      BY <1>2, <3>1 DEF Starts, RowsInv, RowsKnown
    <3>3. CASE op \in Activations
      <4>1. status[s] = "absent" /\ Pending(req[r])
        BY <1>1, <3>2, <3>3 DEF Knows, Pending
      <4>2. req[r].seen[s] = "absent"
        BY <3>1, <4>1, HeldRows DEF RowsInv
      <4> QED
        BY <1>1, <2>2, <3>1, <3>2, <4>2 DEF Knows, Pending, Written
    <3>4. CASE op \notin Activations
      <4>1. status[s] = "deactivated" => req[r].seen[s] = "deactivated"
        BY <1>1, <3>2, <3>4 DEF Knows
      <4>2. status'[s] # "deactivated"
        BY <1>1, <3>1, <3>2, <4>1 DEF Written
      <4> QED
        BY <2>2, <3>1, <4>2 DEF Knows, Pending
    <3> QED
      BY <3>3, <3>4
  <2> QED
    BY <2>1, <2>2
<1> QED
  BY <1>4, <1>5 DEF Asleep, RowsKnown

(* start_bot gives a driver to a row that its request alone handles, and   *)
(* that nobody has deactivated since it was committed.                     *)
LEMMA StartOneRows ==
  ASSUME RowsInv, NoSharedRow, NEW r \in Requests, StartOne(r)
  PROVE  Asleep' /\ RowsKnown'
<1>0. PICK s \in req[r].targets, t \in Tasks : StartsOne(r, s, t)
  BY StartOneIs DEF RowsInv
<1>1. /\ UNCHANGED <<status, adrift>> /\ req[r].pc = "starting" /\ s \in Sessions
      /\ task'[t] = At(s, "created", "none")
      /\ \A x \in Tasks : x # t => (Driving(x)' => Driving(x) /\ task'[x] = task[x])
  BY <1>0 DEF StartsOne
<1>2. /\ req' = [req EXCEPT ![r] = req'[r]]
      /\ req'[r].targets = req[r].targets \ {s}
      /\ req'[r].pc \in {"free", "starting"}
  BY <1>0, StartOneRequest DEF RowsInv
<1>3. \A y \in req[r].targets : status[y] # "deactivated"
  BY <1>1 DEF RowsInv, RowsKnown, Knows
<1>4. \A y : HasMoored(y)' => HasMoored(y) \/ y = s
  BY <1>1, RecordFields DEF HasMoored, Moored
<1>5. Asleep'
  BY <1>1, <1>3, RecordFields DEF RowsInv, Asleep, Moored
<1>6. ASSUME NEW x \in Requests, NEW y \in req'[x].targets PROVE Knows(req[x], y)'
  <2>1. CASE x = r
    BY <1>1, <1>2, <1>3, <1>6, <2>1 DEF Knows, Pending
  <2>2. CASE x # r
    <3>1. req'[x] = req[x] /\ Knows(req[x], y) /\ y # s
      BY <1>2, <1>6, <2>2 DEF RowsInv, RowsKnown, NoSharedRow, IInv, TypeOK
    <3> QED
      BY <1>1, <1>4, <3>1 DEF Knows
  <2> QED
    BY <2>1, <2>2
<1> QED
  BY <1>5, <1>6 DEF RowsKnown

LEMMA RestartRows ==
  ASSUME RowsInv, NEW rotated \in BOOLEAN, Restart(rotated)
  PROVE  Asleep' /\ RowsKnown'
<1>1. /\ \A r \in Requests : req'[r] = Free
      /\ \A t \in Tasks :
           \/ task'[t] = Finished
           \/ \E s \in Sessions : /\ task'[t] = At(s, "created", "none")
                                  /\ status'[s] \in Live
  BY RestartIs DEF RowsInv
<1>2. RowsKnown'
  BY <1>1, FreePlanned DEF RowsKnown
<1>3. ASSUME NEW t \in Tasks, Driving(t)' PROVE status'[task'[t].sid] # "deactivated"
  <2>1. task'[t] # Finished
    BY <1>3, RecordFields DEF Driving
  <2> QED
    BY <1>1, <2>1, RecordFields DEF Live
<1> QED
  BY <1>2, <1>3 DEF Asleep, Moored

(* The rows and what the tasks and the requests know of them agree at      *)
(* every step, as long as no two requests handle the same row.             *)
LEMMA NextRows == RowsInv /\ NoSharedRow /\ [Next]_vars => RowsInv'
<1> SUFFICES ASSUME RowsInv, NoSharedRow, [Next]_vars PROVE RowsInv'
  OBVIOUS
<1>1. IInv' /\ Decided' /\ Planned'
  BY NextIInv, NextDecided, NextPlanned DEF RowsInv
<1>2. ASSUME NEW r \in Requests, UNCHANGED <<status, tasks, task, adrift>>,
             req' = [req EXCEPT ![r] = req'[r]],
             \A s \in req'[r].targets : Knows(req[r], s)'
      PROVE  Asleep' /\ RowsKnown'
  BY <1>2, HandlerRows DEF Driving
<1>3. ASSUME NEW r \in Requests, ActivateRefused(r) \/ CommitFails(r)
      PROVE  Asleep' /\ RowsKnown'
  <2>1. req' = [req EXCEPT ![r] = req'[r]] /\ req'[r].targets = {}
    BY <1>3, AbortRequest, FreePlanned DEF ActivateRefused, CommitFails, RowsInv, IInv
  <2> QED
    BY <1>2, <1>3, <2>1, QuietHandlers
<1>4. ASSUME NEW r \in Requests, NEW u \in Users, NEW op \in Activations,
             NEW syms \in SUBSET Symbols, TakeLock(r, u, op, syms)
      PROVE  Asleep' /\ RowsKnown'
  <2>1. req' = [req EXCEPT ![r] = req'[r]] /\ req'[r].targets = {}
    BY <1>4, TakeLockRequest DEF RowsInv
  <2> QED
    BY <1>2, <1>4, <2>1, QuietHandlers
<1>5. ASSUME NEW r \in Requests, NEW op \in Endpoints, NEW s0 \in Sessions,
             NEW sym \in Symbols \cup {NoSymbol}, NEW want \in Statuses \cup {"keep"},
             ReadRows(r, op, s0, want, sym)
      PROVE  Asleep' /\ RowsKnown'
  <2>1. /\ req' = [req EXCEPT ![r] = req'[r]] /\ req'[r].pc = "read"
        /\ \A s \in req'[r].targets : req'[r].seen[s] = status[s]
    BY <1>5, ReadRowsRequest DEF RowsInv
  <2>2. UNCHANGED <<status, tasks, task, adrift>>
    BY <1>5, QuietHandlers
  <2>3. \A s \in req'[r].targets : Knows(req[r], s)'
    BY <2>1, <2>2 DEF Knows, Pending
  <2> QED
    BY <1>2, <2>1, <2>2, <2>3
<1>6. ASSUME NEW s \in Sessions, TokenExpires(s) PROVE UNCHANGED <<status, task, adrift, req>>
  BY <1>6 DEF TokenExpires, registry
<1>7. UNCHANGED vars => UNCHANGED <<status, task, adrift, req>>
  BY DEF vars
<1>8. ASSUME UNCHANGED <<status, task, adrift, req>> PROVE Asleep' /\ RowsKnown'
  BY <1>8 DEF RowsInv, Asleep, RowsKnown, Knows, Driving, Moored, HasMoored
<1>9. Asleep' /\ RowsKnown'
  BY <1>3, <1>4, <1>5, <1>6, <1>7, <1>8, TaskStepRows, CheckSymbolRows, ActRows,
     CommitRows, StartOneRows, RestartRows, NextIs
<1> QED
  BY <1>1, <1>9 DEF RowsInv

LEMMA InitRows == Init => RowsInv
<1> SUFFICES ASSUME Init PROVE RowsInv
  OBVIOUS
<1>1. IInv /\ Decided /\ Planned
  BY InitIInv, SoundRecords, FreePlanned DEF Init, Decided, Planned
<1>2. Asleep
  BY RecordFields DEF Init, Asleep, Moored, Driving
<1>3. RowsKnown
  BY FreePlanned DEF Init, RowsKnown
<1> QED
  BY <1>1, <1>2, <1>3 DEF RowsInv

-----------------------------------------------------------------------------
(* Deactivated rows                                                        *)

(* As long as no two requests handle the same row at once, a session that  *)
(* was deactivated leaves that status by the commit of a request that names*)
(* it, or of a task adrift, and in no other way: a tick of a task whose    *)
(* cancel was not lost cannot revive it, whatever fails, expires or        *)
(* restarts.                                                               *)
THEOREM StopStaysCorrect == Spec /\ []NoSharedRow => StopStays
<1> DEFINE Kept(s) ==
      status[s] = "deactivated" /\ status'[s] # "deactivated"
        => \/ \E r \in Requests : /\ req[r].pc = "acted" /\ req'[r].pc # "acted"
                                   /\ s \in req[r].targets
           \/ \E t \in adrift : /\ task[t].pc = "writing" /\ task[t].sid = s
                                 /\ task'[t] # task[t]
<1>1. ASSUME RowsInv, [Next]_vars, NEW s \in Sessions PROVE Kept(s)
  <2>1. ASSUME NEW t \in Tasks, TickCommit(t) PROVE Kept(s)
    <3> SUFFICES ASSUME status[s] = "deactivated", status'[s] # "deactivated"
                 PROVE  t \in adrift /\ task[t].pc = "writing" /\ task[t].sid = s
                        /\ task'[t] # task[t]
      OBVIOUS
    <3>1. /\ Driving(t) /\ task[t].pc = "writing" /\ task[t].sid = s
          /\ task'[t] = AfterWrite(task[t])
      BY <1>1, <2>1, CommitStatus DEF RowsInv
    <3>2. t \in adrift
      BY <1>1, <3>1 DEF RowsInv, Asleep, Moored
    <3>3. task[t].after \in {"idle", "loaded", "trading", "draining", "done"}
      BY <1>1, <3>1 DEF RowsInv, IInv, TypeOK, Writing, TaskRecords
    <3>4. AfterWrite(task[t]).pc # "writing"
      <4>1. CASE task[t].after = "done"
        BY <4>1, RecordFields DEF AfterWrite
      <4>2. CASE task[t].after \in {"loaded", "trading"}
        <5>1. AfterWrite(task[t]) = At(s, task[t].after, task[t].want)
          BY <3>1, <4>2 DEF AfterWrite
        <5> QED
          BY <4>2, <5>1, RecordFields
      <4>3. CASE task[t].after \in {"idle", "draining"}
        <5>1. AfterWrite(task[t]) = At(s, task[t].after, "none")
          BY <3>1, <4>3 DEF AfterWrite
        <5> QED
          BY <4>3, <5>1, RecordFields
      <4> QED
        BY <3>3, <4>1, <4>2, <4>3
    <3> QED
      BY <3>1, <3>2, <3>4
  <2>2. ASSUME NEW r \in Requests, Commit(r) PROVE Kept(s)
    <3>1. /\ req[r].pc = "acted" /\ req'[r].pc # "acted"
          /\ s \notin req[r].targets => status'[s] = status[s]
      BY <1>1, <2>2, CommitRequest, FreePlanned DEF RowsInv
    <3> QED
      BY <3>1
  <2>3. ASSUME NEW rotated \in BOOLEAN, Restart(rotated) PROVE Kept(s)
    BY <1>1, <2>3, RestartIs DEF RowsInv, Live
  <2>4. ASSUME NEW r \in Requests, Act(r) \/ StartOne(r) PROVE UNCHANGED status
    BY <2>4 DEF Act, StartOne, rows
  <2>5. ASSUME NEW x \in Sessions, TokenExpires(x) PROVE UNCHANGED status
    BY <2>5 DEF TokenExpires
  <2>6. UNCHANGED vars => UNCHANGED status
    BY DEF vars
  <2>7. UNCHANGED status => Kept(s)
    OBVIOUS
  <2> HIDE DEF Kept
  <2>8. ASSUME NEW t \in Tasks, TaskStep(t) \/ FeedEnds(t) PROVE Kept(s)
    BY <1>1, <2>1, <2>7, <2>8, TaskStepIs DEF RowsInv
  <2> QED
    BY <1>1, <2>2, <2>3, <2>4, <2>5, <2>6, <2>7, <2>8, NextIs, QuietHandlers
<1>2. RowsInv /\ [Next]_vars => [\A s \in Sessions : Kept(s)]_vars
  BY <1>1
<1> QED
  BY <1>2, InitRows, NextRows, PTL DEF Spec, StopStays

-----------------------------------------------------------------------------
(* The tasks in their loop                                                 *)

(* How a token changes                                                     *)
LEMMA TokenIs ==
  ASSUME IInv, Planned, [Next]_vars, NEW s \in Sessions
  PROVE  \/ token'[s] = token[s]
         \/ token[s] = "valid" /\ token'[s] = "expired"
         \/ status[s] = "absent" /\ (\A r \in Requests : s \notin req[r].targets)
            /\ token'[s] \in NewTokens
         \/ \E rotated \in BOOLEAN : Restart(rotated)
<1> DEFINE Good == \/ token'[s] = token[s]
                   \/ token[s] = "valid" /\ token'[s] = "expired"
                   \/ status[s] = "absent" /\ (\A r \in Requests : s \notin req[r].targets)
                      /\ token'[s] \in NewTokens
<1>1. ASSUME UNCHANGED token PROVE Good
  BY <1>1
<1>2. ASSUME NEW t \in Tasks, TaskStep(t) \/ FeedEnds(t) PROVE UNCHANGED token
  BY <1>2 DEF TaskStep, FeedEnds, TaskBegin, TaskBeginFails, TickLoad, HaltDetected,
     HaltCleared, HaltCheckFails, BrokerRejectsToken, RiskPause, TickEnds, TickCommit,
     TickCommitFails, TaskUnwinds, CancelLost, TaskOnly, RowsAndHandlers, rows
<1>3. ASSUME NEW r \in Requests, CheckSymbol(r) PROVE Good
  <2>1. Abort(r) => UNCHANGED token
    BY DEF Abort, rows
  <2>2. \A u, sym : DuplicateFound(r, u, sym) => UNCHANGED token
    BY <2>1 DEF DuplicateFound, rows
  <2>3. ASSUME NEW x \in Sessions, NEW sym, NEW kind \in NewTokens, AddSession(r, x, sym, kind)
        PROVE  Good
    BY <2>3 DEF AddSession, Fresh, IInv, TypeOK
  <2> HIDE DEF Good
  <2> QED
    BY <1>1, <1>3, <2>2, <2>3 DEF CheckSymbol
<1>4. ASSUME NEW r \in Requests,
             \/ \E u \in Users, op \in Activations, syms \in SUBSET Symbols :
                  TakeLock(r, u, op, syms)
             \/ \E op \in Endpoints, y \in Sessions, sym \in Symbols \cup {NoSymbol} :
                  \E want \in Statuses \cup {"keep"} : ReadRows(r, op, y, want, sym)
             \/ ActivateRefused(r) \/ CommitFails(r) \/ Act(r) \/ Commit(r) \/ StartOne(r)
      PROVE  UNCHANGED token
  <2>1. UNCHANGED rows => UNCHANGED token
    BY DEF rows
  <2>2. \A u, op, syms : TakeLock(r, u, op, syms) => UNCHANGED token
    BY <2>1, Zenon DEF TakeLock
  <2>3. \A op, y, sym, want : ReadRows(r, op, y, want, sym) => UNCHANGED token
    BY <2>1, Zenon DEF ReadRows
  <2>4. ActivateRefused(r) \/ CommitFails(r) \/ Act(r) \/ StartOne(r) => UNCHANGED token
    BY <2>1, Zenon DEF ActivateRefused, CommitFails, Abort, Act, StartOne
  <2>5. Commit(r) => UNCHANGED token
    BY DEF Commit
  <2> QED
    BY <1>4, <2>2, <2>3, <2>4, <2>5
<1>5. ASSUME NEW x \in Sessions, TokenExpires(x) PROVE Good
  BY <1>5 DEF TokenExpires, IInv, TypeOK
<1>6. UNCHANGED vars => UNCHANGED token
  BY DEF vars
<1> HIDE DEF Good
<1>7. Good \/ \E rotated \in BOOLEAN : Restart(rotated)
  BY <1>1, <1>2, <1>3, <1>4, <1>5, <1>6, NextIs
<1> QED
  BY <1>7 DEF Good

(* Whether a token can be read changes for rows that nobody holds only.    *)
Steady(s) ==
  \/ token'[s] = "unreadable" <=> token[s] = "unreadable"
  \/ status[s] = "absent" /\ \A r \in Requests : s \notin req[r].targets

LEMMA TokensSteady ==
  ASSUME IInv, Planned, [Next]_vars, ~\E rotated \in BOOLEAN : Restart(rotated)
  PROVE  \A s \in Sessions : Steady(s)
BY TokenIs DEF Steady

InLoop(k) == k.pc = "idle" \/ Trading(k)

LEMMA LoopKinds ==
  /\ ~InLoop(Finished)
  /\ \A s : ~InLoop(Unwinding(s))
  /\ \A s, pc, seen : pc # "writing" =>
       (InLoop(At(s, pc, seen)) <=> pc \in {"idle", "loaded", "trading"})
  /\ \A s, seen, want, after :
       InLoop(Committing(s, seen, want, after)) <=> after # "done"
<1>1. /\ ~InLoop(Finished) /\ \A s : ~InLoop(Unwinding(s))
      /\ \A s, seen, want, after :
           InLoop(Committing(s, seen, want, after)) <=> after # "done"
  BY RecordFields, RecordKinds DEF InLoop
<1>2. \A s, pc, seen : pc # "writing" =>
        (InLoop(At(s, pc, seen)) <=> pc \in {"idle", "loaded", "trading"})
  BY RecordFields DEF InLoop, Trading
<1> QED
  BY <1>1, <1>2

(* What a lost cancel leaves: a task in its loop or at its end, that no    *)
(* cancel is on its way to                                                 *)
Afloat(t) == (InLoop(task[t]) \/ task[t].pc = "draining") /\ ~task[t].cancelled

(* A task enters its loop with a token it could read.                      *)
LEMMA TaskStepLoops ==
  ASSUME IInv, Decided, NEW t \in Tasks, TaskStep(t) \/ FeedEnds(t)
  PROVE  /\ task'[t].pc # "done" => task[t].pc # "done"
         /\ task'[t].cancelled => task[t].cancelled
         /\ InLoop(task'[t]) => /\ task'[t].sid = task[t].sid
                                /\ InLoop(task[t]) \/ token[task[t].sid] # "unreadable"
         /\ t \in adrift' /\ (t \in adrift => Afloat(t)) => Afloat(t)'
<1> DEFINE s == task[t].sid
           Sails(k) ==
             /\ k.pc # "done" => task[t].pc # "done"
             /\ k.cancelled => task[t].cancelled
             /\ InLoop(k) => k.sid = s /\ (InLoop(task[t]) \/ token[s] # "unreadable")
             /\ t \in adrift' /\ (t \in adrift => Afloat(t))
                  => (InLoop(k) \/ k.pc = "draining") /\ ~k.cancelled
<1>1. task \in [Tasks -> TaskRecords] /\ Sound(task[t])
  BY DEF IInv, TypeOK, Decided
<1>2. SUFFICES \E k : Becomes(t, k) /\ Sails(k)
  BY <1>1 DEF Becomes, Afloat
<1>3. TaskOnly => adrift' = adrift
  BY DEF TaskOnly
<1>4. Finished.pc = "done" /\ ~Finished.cancelled
  BY DEF Finished, At
<1>5. CASE TaskBegin(t)
  <2>1. /\ task[t].pc = "created" /\ adrift' = adrift
        /\ \/ Becomes(t, Committing(s, status[s], "error", "done"))
           \/ token[s] # "unreadable" /\ Becomes(t, At(s, "idle", "none"))
    BY <1>3, <1>5 DEF TaskBegin, EndTick, Runs
  <2>2. ~Afloat(t)
    BY <2>1 DEF Afloat, InLoop, Trading
  <2> QED
    BY <2>1, <2>2, LoopKinds, RecordFields
<1>6. CASE TaskBeginFails(t)
  <2>1. task[t].pc = "created" /\ adrift' = adrift /\ Becomes(t, Finished)
    BY <1>3, <1>6 DEF TaskBeginFails, Runs
  <2>2. ~Afloat(t)
    BY <2>1 DEF Afloat, InLoop, Trading
  <2> QED
    BY <1>4, <2>1, <2>2, LoopKinds
<1>7. CASE TickLoad(t)
  <2>1. /\ task[t].pc = "idle"
        /\ \/ Becomes(t, At(s, "draining", "none"))
           \/ Becomes(t, Committing(s, "paused", "active", "loaded"))
           \/ Becomes(t, At(s, "loaded", status[s]))
    BY <1>7 DEF TickLoad, Runs
  <2>2. InLoop(task[t])
    BY <2>1 DEF InLoop
  <2> QED
    BY <2>1, <2>2, LoopKinds, RecordFields
<1>8. CASE \/ HaltDetected(t) \/ HaltCleared(t) \/ HaltCheckFails(t)
           \/ BrokerRejectsToken(t) \/ RiskPause(t) \/ TickEnds(t) \/ CancelLost(t)
  <2>1. task[t].pc \in {"loaded", "trading"}
    BY <1>8 DEF HaltDetected, HaltCleared, HaltCheckFails, BrokerRejectsToken,
       RiskPause, TickEnds, Runs, CancelLost
  <2>2. \/ Becomes(t, At(s, "idle", "none"))
        \/ Becomes(t, At(s, "trading", task[t].seen))
        \/ Becomes(t, Committing(s, task[t].seen, "halted", "idle"))
        \/ Becomes(t, Committing(s, task[t].seen, "active", "trading"))
        \/ Becomes(t, Committing(s, task[t].seen, "error", "draining"))
        \/ Becomes(t, Committing(s, task[t].seen, "paused", "idle"))
    BY <1>8 DEF HaltDetected, HaltCleared, HaltCheckFails, BrokerRejectsToken,
       RiskPause, TickEnds, EndTick, Goto, Write, CancelLost
  <2>3. InLoop(task[t])
    BY <2>1 DEF InLoop, Trading
  <2> QED
    BY <2>1, <2>2, <2>3, LoopKinds, RecordFields
<1>9. CASE TickCommit(t)
  <2>1. /\ task[t].pc = "writing" /\ adrift' = adrift
        /\ Becomes(t, AfterWrite(task[t]))
    BY <1>9 DEF TickCommit, Runs
  <2>2. task[t].after \in {"idle", "loaded", "trading", "draining", "done"}
    BY <1>1, <2>1 DEF IInv, Writing, TaskRecords
  <2>3. CASE task[t].after = "done"
    <3>1. ~Afloat(t) /\ AfterWrite(task[t]) = Finished
      BY <2>1, <2>3 DEF Afloat, InLoop, Trading, AfterWrite
    <3> QED
      BY <1>4, <2>1, <3>1, LoopKinds
  <2>4. ASSUME task[t].after # "done"
        PROVE  \E pc \in {"idle", "loaded", "trading", "draining"} :
                 \E seen : AfterWrite(task[t]) = At(s, pc, seen)
    BY <2>2, <2>4 DEF AfterWrite
  <2>5. CASE task[t].after # "done"
    <3>1. InLoop(task[t])
      BY <2>1, <2>5 DEF InLoop, Trading
    <3> QED
      BY <2>1, <2>4, <2>5, <3>1, LoopKinds, RecordFields
  <2> QED
    BY <2>3, <2>5
<1>10. CASE TickCommitFails(t)
  <2>1. task[t].pc = "writing" /\ adrift' = adrift
        /\ IF task[t].after = "done" THEN Becomes(t, Finished)
                                     ELSE Becomes(t, At(s, "idle", "none"))
    BY <1>3, <1>10 DEF TickCommitFails, EndTick, Runs
  <2>2. IF task[t].after = "done" THEN ~Afloat(t) ELSE InLoop(task[t])
    BY <2>1 DEF Afloat, InLoop, Trading
  <2> QED
    BY <1>4, <2>1, <2>2, LoopKinds, RecordFields
<1>11. CASE TaskUnwinds(t)
  <2>1. /\ task[t].cancelled /\ task[t].pc # "done" /\ adrift' = adrift
        /\ Becomes(t, Finished) \/ Becomes(t, Unwinding(s))
    BY <1>3, <1>11 DEF TaskUnwinds
  <2>2. ~Afloat(t)
    BY <2>1 DEF Afloat
  <2> QED
    BY <1>4, <2>1, <2>2, LoopKinds
<1>12. CASE FeedEnds(t)
  <2>1. Becomes(t, Finished) /\ t \notin adrift'
    BY <1>12 DEF FeedEnds
  <2> QED
    BY <1>4, <2>1, LoopKinds
<1> QED
  BY <1>5, <1>6, <1>7, <1>8, <1>9, <1>10, <1>11, <1>12 DEF TaskStep

(* A task in its loop could read the token of its row, and a task adrift   *)
(* is afloat and out of reach.                                             *)
LoopsRead == \A t \in Tasks : InLoop(task[t]) => token[task[t].sid] # "unreadable"
AdriftAfloat == \A t \in adrift : Afloat(t) /\ ~Registered(t)
LoopInv == LoopsRead /\ AdriftAfloat

LEMMA NextLoops == IInv /\ Decided /\ Planned /\ LoopInv /\ [Next]_vars => LoopInv'
<1> SUFFICES ASSUME IInv, Decided, Planned, LoopInv, [Next]_vars PROVE LoopInv'
  OBVIOUS
<1>1. adrift \subseteq Tasks /\ \A t \in Tasks : InLoop(task[t]) => Unfinished(t)
  BY DEF IInv, TypeOK, InLoop, Trading, Unfinished
<1>2. \A t \in Tasks : InLoop(task[t]) =>
        task[t].sid \in Sessions /\ status[task[t].sid] # "absent"
  BY <1>1 DEF IInv, RegistryOK, RowsExist, StartedAfterCommit
<1>3. ASSUME UNCHANGED <<tasks, adrift>>, \A s \in Sessions : Steady(s), UNCHANGED task
      PROVE  LoopInv'
  <2>1. LoopsRead'
    BY <1>2, <1>3 DEF LoopInv, LoopsRead, Steady
  <2>2. AdriftAfloat'
    BY <1>3 DEF LoopInv, AdriftAfloat, Afloat, Registered
  <2> QED
    BY <2>1, <2>2 DEF LoopInv
<1>4. ASSUME NEW t \in Tasks, TaskStep(t) \/ FeedEnds(t) PROVE LoopInv'
  <2>1. /\ UNCHANGED <<token, tasks>> /\ \A x \in Tasks : x # t => task'[x] = task[x]
        /\ \A x \in Tasks : x # t => (x \in adrift' <=> x \in adrift)
        /\ adrift' \subseteq adrift \cup {t}
    BY <1>4, TaskStepIs
  <2>2. /\ InLoop(task'[t]) => /\ task'[t].sid = task[t].sid
                               /\ InLoop(task[t]) \/ token[task[t].sid] # "unreadable"
        /\ t \in adrift' /\ (t \in adrift => Afloat(t)) => Afloat(t)'
    BY <1>4, TaskStepLoops
  <2>3. LoopsRead'
    <3> SUFFICES ASSUME NEW x \in Tasks, InLoop(task'[x])
                 PROVE  token'[task'[x].sid] # "unreadable"
      BY DEF LoopsRead
    <3> QED
      BY <2>1, <2>2 DEF LoopInv, LoopsRead
  <2>4. ASSUME NEW x \in adrift' PROVE Afloat(x)' /\ ~Registered(x)'
    <3>1. x \in Tasks /\ (x # t => x \in adrift /\ Afloat(x) /\ ~Registered(x))
      BY <1>1, <2>1, <2>4 DEF LoopInv, AdriftAfloat
    <3>2. CASE x # t
      BY <2>1, <3>1, <3>2 DEF Afloat, Registered
    <3>3. CASE x = t
      <4>1. t \in adrift \/ (CancelLost(t) /\ task[t].cancelled /\ Unfinished(t))
        BY <1>4, <2>4, <3>3, TaskStepIs DEF CancelLost, Unfinished
      <4>2. ~Registered(t)
        BY <4>1 DEF LoopInv, AdriftAfloat, IInv, RegistryOK, Registered
      <4>3. Afloat(t)'
        BY <2>2, <2>4, <3>3 DEF LoopInv, AdriftAfloat
      <4> QED
        BY <2>1, <3>3, <4>2, <4>3 DEF Registered
    <3> QED
      BY <3>2, <3>3
  <2> QED
    BY <2>3, <2>4 DEF LoopInv, AdriftAfloat
<1>5. ASSUME NEW t \in Tasks, SamePlace(t) PROVE InLoop(task'[t]) <=> InLoop(task[t])
  BY <1>5 DEF SamePlace, InLoop, Trading
<1>6. ASSUME NEW r \in Requests, Act(r) PROVE LoopInv'
  <2>1. /\ UNCHANGED <<token, adrift>>
        /\ \A t \in Tasks : SamePlace(t)
        /\ \A t \in Tasks : ~Registered(t) => task'[t] = task[t]
        /\ \A s \in Sessions : tasks'[s] \in {tasks[s], NoTask}
    BY <1>6, ActIs
  <2>2. LoopsRead'
    BY <1>5, <2>1 DEF LoopInv, LoopsRead, SamePlace
  <2>3. ASSUME NEW t \in adrift PROVE Afloat(t)' /\ ~Registered(t)'
    <3>1. t \in Tasks /\ Afloat(t) /\ ~Registered(t) /\ task'[t] = task[t]
      BY <1>1, <2>1, <2>3 DEF LoopInv, AdriftAfloat
    <3> QED
      BY <2>1, <3>1, AbsentAssumption DEF Afloat, Registered
  <2> QED
    BY <2>1, <2>2, <2>3 DEF LoopInv, AdriftAfloat
<1>7. ASSUME NEW r \in Requests, StartOne(r) PROVE LoopInv'
  <2>1. PICK s \in req[r].targets, t \in Tasks : StartsOne(r, s, t)
    BY <1>7, StartOneIs
  <2>2. /\ UNCHANGED <<token, adrift>> /\ task'[t] = At(s, "created", "none")
        /\ task[t].pc = "done" /\ tasks' = [tasks EXCEPT ![s] = t]
        /\ \A x \in Tasks : x # t => SamePlace(x)
        /\ \A x \in Tasks : x # t => (tasks[s] # x => task'[x] = task[x])
    BY <2>1 DEF StartsOne, Available, Unfinished
  <2>3. ~InLoop(task'[t]) /\ ~Afloat(t)
    BY <2>2, LoopKinds DEF Afloat, InLoop, Trading
  <2>4. LoopsRead'
    BY <1>5, <2>2, <2>3 DEF LoopInv, LoopsRead, SamePlace
  <2>5. ASSUME NEW x \in adrift PROVE Afloat(x)' /\ ~Registered(x)'
    <3>1. x \in Tasks /\ Afloat(x) /\ ~Registered(x) /\ x # t
      BY <1>1, <2>3, <2>5 DEF LoopInv, AdriftAfloat
    <3>2. s \in Sessions /\ tasks[s] # x
      BY <2>1, <3>1 DEF StartsOne, Registered
    <3>3. task'[x] = task[x]
      BY <2>2, <3>1, <3>2
    <3>4. ~Registered(x)'
      BY <2>2, <3>1 DEF Registered, IInv, TypeOK
    <3> QED
      BY <3>1, <3>3, <3>4 DEF Afloat
  <2> QED
    BY <2>2, <2>4, <2>5 DEF LoopInv, AdriftAfloat
<1>8. ASSUME NEW rotated \in BOOLEAN, Restart(rotated) PROVE LoopInv'
  <2>1. /\ adrift' = {}
        /\ \A t \in Tasks : ~InLoop(task'[t])
    BY <1>8, RestartIs, LoopKinds
  <2> QED
    BY <2>1 DEF LoopInv, LoopsRead, AdriftAfloat
<1>9. ASSUME NEW r \in Requests, Commit(r) PROVE UNCHANGED <<tasks, adrift, task>>
  BY <1>9 DEF Commit, registry
<1>10. ASSUME NEW s \in Sessions, TokenExpires(s) PROVE UNCHANGED <<tasks, adrift, task>>
  BY <1>10 DEF TokenExpires, registry
<1>11. UNCHANGED vars => UNCHANGED <<tasks, adrift, task>>
  BY DEF vars
<1>12. CASE ~\E rotated \in BOOLEAN : Restart(rotated)
  <2>1. \A s \in Sessions : Steady(s)
    BY <1>12, TokensSteady
  <2> QED
    BY <1>3, <1>4, <1>6, <1>7, <1>9, <1>10, <1>11, <1>12, <2>1, NextIs, QuietHandlers
<1> QED
  BY <1>8, <1>12

LEMMA InitLoops == Init => LoopInv
<1>1. Init => \A t \in Tasks : task[t] = Finished
  BY DEF Init
<1>2. Init => adrift = {}
  BY DEF Init
<1> QED
  BY <1>1, <1>2, LoopKinds DEF LoopInv, LoopsRead, AdriftAfloat

-----------------------------------------------------------------------------
(* Live rows and their tasks, when every endpoint that clients call starts *)
(* the bot it makes live or stops the one it deactivates, when no database *)
(* call fails, and when every token is a JWT                               *)

PairsStatusAndTask ==
  /\ ~Faults
  /\ NewTokens \subseteq {"valid"}
  /\ \A op \in Endpoints : Plan[op].start \/ Plan[op].want = {"deactivated"}

Handled(s) == \E r \in Requests : req[r].pc \in {"acted", "starting"} /\ s \in req[r].targets

(* Every token that is no JWT leaves its live row without a task at the    *)
(* next restart.                                                           *)
TokensAreJwt == \A s \in Sessions : token[s] # "opaque"

(* A live row has a driver, or a request that handles it will give it one  *)
(* or deactivate it.                                                       *)
LiveDriven == \A s \in Sessions : status[s] \in Live /\ ~Handled(s) => HasDriver(s)

(* A handler that starts a bot without stopping one first has seen that    *)
(* none is registered, or that a running one can read its token.           *)
Checks(q, s) ==
  q.pc = "acted" /\ q.op \notin Activations =>
    /\ Plan[q.op].skipRunning => ~HasMoored(s)
    /\ Plan[q.op].readable => token[s] # "unreadable"

RowsChecked == \A r \in Requests : \A s \in req[r].targets : Checks(req[r], s)

(* A row that was deactivated when a handler read it is live again only by *)
(* a task adrift, which goes on driving it.                                *)
Revived(q, s) ==
  q.pc \in {"read", "acted"} /\ q.op \notin Activations /\ q.seen[s] = "deactivated" =>
    /\ ~HasMoored(s)
    /\ status[s] \in Live => HasDriver(s)

RowsRevived == \A r \in Requests : \A s \in req[r].targets : Revived(req[r], s)

(* A task that gives up leaves a row that is not live: its commit writes   *)
(* nothing when the row already says "error".                              *)
GivesUp(t) ==
  /\ token[task[t].sid] = "unreadable"
  /\ task[t].seen = "error" => status[task[t].sid] \notin Live

DyingLeavesError == \A t \in Tasks : Driving(t) /\ Dying(task[t]) => GivesUp(t)

PairInv == TokensAreJwt /\ LiveDriven /\ RowsChecked /\ RowsRevived /\ DyingLeavesError

(* The steps of a task: without database failures, a task leaves a live    *)
(* row by no step of its own.                                              *)
LEMMA TaskStepPairs ==
  ASSUME RowsInv, LoopInv, PairsStatusAndTask, PairInv,
         NEW t \in Tasks, TaskStep(t) \/ FeedEnds(t)
  PROVE  LiveDriven' /\ DyingLeavesError' /\ RowsChecked' /\ RowsRevived'
<1> USE DEF RowsInv, PairInv
<1> DEFINE s == task[t].sid
<1>1. /\ UNCHANGED <<token, req>>
      /\ \A x \in Tasks : x # t => task'[x] = task[x]
      /\ Driving(t)' => task'[t].sid = s
      /\ UNCHANGED status \/ TickCommit(t)
  BY TaskStepIs
<1>2. ASSUME TickCommit(t)
      PROVE  /\ Driving(t) /\ task[t].pc = "writing" /\ s \in Sessions
             /\ \A y \in Sessions : status'[y] =
                  IF y = s /\ task[t].want # task[t].seen THEN task[t].want ELSE status[y]
  BY <1>2, CommitStatus
<1>3. ASSUME TickCommit(t), task[t].after = "done" PROVE status'[s] \notin Live
  <2>1. task[t].want = "error" /\ Dying(task[t]) /\ GivesUp(t)
    BY <1>2, <1>3 DEF Decided, Sound, Dying, DyingLeavesError
  <2> QED
    BY <1>2, <1>3, <2>1 DEF GivesUp, Live
<1>4. ASSUME Driving(t), ~Driving(t)' PROVE status'[s] \notin Live
  BY <1>3, <1>4, TaskStrands DEF PairsStatusAndTask
<1>0. ASSUME NEW y \in Sessions, status'[y] \in Live, status[y] \in Live => HasDriver(y)
      PROVE  HasDriver(y)'
  <2>1. HasDriver(y)
    <3>1. CASE status'[y] = status[y]
      BY <1>0, <3>1
    <3>2. CASE status'[y] # status[y]
      BY <1>1, <1>2, <3>2 DEF HasDriver
    <3> QED
      BY <3>1, <3>2
  <2>2. PICK x \in Tasks : Driving(x) /\ task[x].sid = y
    BY <2>1 DEF HasDriver
  <2>3. CASE x = t
    <3>1. Driving(t)' /\ task'[t].sid = y
      BY <1>0, <1>1, <1>4, <2>2, <2>3
    <3> QED
      BY <3>1 DEF HasDriver
  <2>4. CASE x # t
    <3>1. Driving(x)' /\ task'[x].sid = y
      BY <1>1, <2>2, <2>4 DEF Driving
    <3> QED
      BY <3>1 DEF HasDriver
  <2> QED
    BY <2>3, <2>4
<1>5. LiveDriven'
  BY <1>0, <1>1 DEF LiveDriven, Handled
<1>6. TickCommit(t) => ~Dying(task'[t])
  <2> SUFFICES ASSUME TickCommit(t) PROVE ~Dying(task'[t])
    OBVIOUS
  <2>1. /\ task'[t] = AfterWrite(task[t])
        /\ task[t].after \in {"idle", "loaded", "trading", "draining", "done"}
    BY <1>2, CommitStatus DEF IInv, TypeOK, Writing, TaskRecords
  <2>2. CASE task[t].after = "done"
    BY <2>1, <2>2, RecordKinds DEF AfterWrite
  <2>3. CASE task[t].after \in {"loaded", "trading"}
    <3>1. AfterWrite(task[t]) = At(s, task[t].after, task[t].want)
      BY <2>3 DEF AfterWrite
    <3> QED
      BY <2>1, <2>3, <3>1, RecordKinds
  <2>4. CASE task[t].after \in {"idle", "draining"}
    <3>1. AfterWrite(task[t]) = At(s, task[t].after, "none")
      BY <2>4 DEF AfterWrite
    <3> QED
      BY <2>1, <2>4, <3>1, RecordKinds
  <2> QED
    BY <2>1, <2>2, <2>3, <2>4
<1>7. ASSUME NEW x \in Tasks, Driving(x)', Dying(task'[x]) PROVE GivesUp(x)'
  <2>1. CASE x = t
    <3>1. /\ task'[t].sid = s /\ UNCHANGED status
          /\ token[s] = "unreadable" /\ task'[t].seen = status[s]
      BY <1>1, <1>6, <1>7, <2>1, TaskStepTrades
    <3> QED
      BY <1>1, <2>1, <3>1 DEF GivesUp, Live
  <2>2. CASE x # t
    <3>1. /\ task'[x] = task[x] /\ Driving(x) /\ GivesUp(x)
          /\ task[x].sid \in Sessions /\ tasks[task[x].sid] = x
      <4>1. task'[x] = task[x] /\ Driving(x) /\ GivesUp(x)
        BY <1>1, <1>7, <2>2 DEF Driving, DyingLeavesError
      <4>2. x \notin adrift
        BY <1>7, <4>1 DEF LoopInv, AdriftAfloat, Afloat, InLoop, Trading, Dying
      <4> QED
        BY <4>1, <4>2, DriverFacts
    <3>2. ASSUME TickCommit(t), s = task[x].sid PROVE FALSE
      <4>1. t \in adrift
        BY <1>2, <2>2, <3>1, <3>2, DriverFacts
      <4>2. InLoop(task[t])
        BY <1>2, <3>2, <4>1 DEF LoopInv, AdriftAfloat, Afloat
      <4> QED
        BY <3>1, <3>2, <4>2 DEF LoopInv, LoopsRead, GivesUp
    <3>3. status'[task[x].sid] = status[task[x].sid]
      BY <1>1, <1>2, <3>1, <3>2
    <3> QED
      BY <1>1, <3>1, <3>3 DEF GivesUp
  <2> QED
    BY <2>1, <2>2
<1>8. \A y : HasMoored(y)' => HasMoored(y)
  BY TaskStepMoors DEF HasMoored
<1>9. RowsChecked'
  BY <1>1, <1>8 DEF RowsChecked, Checks
<1>10. RowsRevived'
  <2> SUFFICES ASSUME NEW x \in Requests, NEW y \in req[x].targets PROVE Revived(req[x], y)'
    BY <1>1 DEF RowsRevived
  <2>1. y \in Sessions /\ Revived(req[x], y)
    BY HeldRows DEF RowsRevived
  <2> QED
    BY <1>0, <1>1, <1>8, <2>1 DEF Revived
<1> QED
  BY <1>5, <1>7, <1>9, <1>10 DEF DyingLeavesError

(* A handler that neither commits nor touches the registry                 *)
LEMMA HandlerPairs ==
  ASSUME RowsInv, PairInv, NEW r \in Requests, UNCHANGED <<status, task, adrift>>,
         \A s \in Sessions : Steady(s),
         req' = [req EXCEPT ![r] = req'[r]],
         \A s \in req[r].targets : req[r].pc \in {"acted", "starting"} => status[s] \notin Live,
         \A s \in req'[r].targets : Checks(req[r], s)' /\ Revived(req[r], s)'
  PROVE  LiveDriven' /\ RowsChecked' /\ RowsRevived' /\ DyingLeavesError'
<1> USE DEF RowsInv
<1>1. \A y : (HasDriver(y)' <=> HasDriver(y)) /\ (HasMoored(y)' <=> HasMoored(y))
  BY DEF HasDriver, HasMoored, Moored, Driving
<1>2. \A x \in Requests : x # r => req'[x] = req[x]
  BY DEF IInv, TypeOK
<1>3. LiveDriven'
  <2> SUFFICES ASSUME NEW s \in Sessions, status[s] \in Live, ~Handled(s)'
               PROVE  HasDriver(s)
    BY <1>1 DEF LiveDriven
  <2>1. ~Handled(s)
    BY <1>2 DEF Handled
  <2> QED
    BY <2>1 DEF PairInv, LiveDriven
<1>4. RowsChecked'
  <2> SUFFICES ASSUME NEW x \in Requests, NEW s \in req'[x].targets
               PROVE  Checks(req[x], s)'
    BY DEF RowsChecked
  <2>1. CASE x = r
    BY <2>1
  <2>2. CASE x # r
    <3>1. req'[x] = req[x] /\ s \in req[x].targets /\ s \in Sessions
      BY <1>2, <2>2, HeldRows
    <3>2. Checks(req[x], s) /\ (token'[s] = "unreadable" => token[s] = "unreadable")
      BY <3>1 DEF PairInv, RowsChecked, Steady
    <3> QED
      BY <1>1, <3>1, <3>2 DEF Checks
  <2> QED
    BY <2>1, <2>2
<1>5. DyingLeavesError'
  <2> SUFFICES ASSUME NEW t \in Tasks, Driving(t), Dying(task[t]) PROVE GivesUp(t)'
    BY DEF DyingLeavesError, Driving
  <2>1. GivesUp(t) /\ task[t].sid \in Sessions /\ status[task[t].sid] # "absent"
    BY DriverFacts DEF PairInv, DyingLeavesError
  <2> QED
    BY <2>1 DEF GivesUp, Steady
<1>6. RowsRevived'
  <2> SUFFICES ASSUME NEW x \in Requests, NEW s \in req'[x].targets, x # r
               PROVE  Revived(req[x], s)'
    BY DEF RowsRevived
  <2>1. req'[x] = req[x] /\ Revived(req[x], s)
    BY <1>2 DEF PairInv, RowsRevived
  <2> QED
    BY <1>1, <2>1 DEF Revived
<1> QED
  BY <1>3, <1>4, <1>5, <1>6

LEMMA ActPairs ==
  ASSUME RowsInv, LoopInv, PairInv, NEW r \in Requests, Act(r)
  PROVE  LiveDriven' /\ RowsChecked' /\ RowsRevived' /\ DyingLeavesError'
<1> USE DEF RowsInv
<1>1. /\ UNCHANGED <<status, token, adrift>>
      /\ \A t \in Tasks : ~Registered(t) => task'[t] = task[t]
      /\ \A t \in Tasks : Driving(t)' => Driving(t) /\ task'[t] = task[t]
      /\ \A t \in Tasks : Driving(t) /\ ~Driving(t)' => task[t].sid \in Accepted(r)
      /\ \A t \in Tasks : Driving(t)' => task'[t] = task[t]
  BY ActIs
<1>2. /\ req' = [req EXCEPT ![r] = req'[r]] /\ req[r].pc = "read"
      /\ \/ req'[r] = Free
         \/ /\ req'[r].pc = "acted" /\ req'[r].op = req[r].op
            /\ req'[r].targets = Accepted(r) /\ Accepted(r) \subseteq req[r].targets
  BY ActRequest
<1>3. Accepted(r) # {} => req'[r].pc = "acted"
  <2> SUFFICES ASSUME Accepted(r) # {} PROVE req'[r].pc = "acted"
    OBVIOUS
  <2>1. req'[r] = [req[r] EXCEPT !.pc = "acted", !.targets = Accepted(r)]
    BY DEF Act, IInv, TypeOK
  <2> QED
    BY <2>1, HeldRows DEF RequestRecords
<1>4. \A x \in Requests : x # r => req'[x] = req[x]
  BY <1>2 DEF IInv, TypeOK
<1>5. \A y : HasMoored(y)' => HasMoored(y)
  BY <1>1 DEF HasMoored, Moored
<1>6. LiveDriven'
  <2> SUFFICES ASSUME NEW s \in Sessions, status[s] \in Live, ~Handled(s)'
               PROVE  HasDriver(s)'
    BY <1>1 DEF LiveDriven
  <2>1. ~Handled(s) /\ s \notin Accepted(r)
    BY <1>2, <1>3, <1>4, FreePlanned DEF Handled
  <2>2. PICK t \in Tasks : Driving(t) /\ task[t].sid = s
    BY <2>1 DEF PairInv, LiveDriven, HasDriver
  <2> QED
    BY <1>1, <2>1, <2>2 DEF HasDriver
<1>7. RowsChecked'
  <2> SUFFICES ASSUME NEW x \in Requests, NEW s \in req'[x].targets
               PROVE  Checks(req[x], s)'
    BY DEF RowsChecked
  <2>1. CASE x = r
    <3>1. s \in Accepted(r) /\ req'[r].op = req[r].op /\ s \in Sessions
      BY <1>2, <2>1, FreePlanned, HeldRows
    <3>2. /\ Plan[req[r].op].skipRunning => ~IsRunning(s)
          /\ Plan[req[r].op].readable => token[s] # "unreadable"
      BY <3>1 DEF Accepted
    <3>3. HasMoored(s) => IsRunning(s)
      BY DriverFacts, AbsentAssumption DEF HasMoored, Moored, IsRunning
    <3> QED
      BY <1>1, <1>5, <2>1, <3>1, <3>2, <3>3 DEF Checks
  <2>2. CASE x # r
    <3>1. req'[x] = req[x] /\ Checks(req[x], s)
      BY <1>4, <2>2 DEF PairInv, RowsChecked
    <3> QED
      BY <1>1, <1>5, <3>1 DEF Checks
  <2> QED
    BY <2>1, <2>2
<1>8. DyingLeavesError'
  BY <1>1 DEF PairInv, DyingLeavesError, GivesUp
<1>9. RowsRevived'
  <2> SUFFICES ASSUME NEW x \in Requests, NEW s \in req'[x].targets
               PROVE  Revived(req[x], s)'
    BY DEF RowsRevived
  <2>1. /\ s \in req[x].targets
        /\ Revived(req'[x], s) <=> Revived(req[x], s)
    <3>1. CASE x = r
      <4>1. s \in Accepted(r)
        BY <1>2, <2>1, <3>1, FreePlanned
      <4>2. req'[r] = [req[r] EXCEPT !.pc = "acted", !.targets = Accepted(r)]
        BY <4>1 DEF Act, IInv, TypeOK
      <4>3. /\ req'[r].pc = "acted" /\ req'[r].op = req[r].op
            /\ req'[r].seen = req[r].seen
        BY <4>2, HeldRows DEF RequestRecords
      <4> QED
        BY <1>2, <3>1, <4>1, <4>3 DEF Revived, Accepted
    <3>2. CASE x # r
      BY <1>4, <3>2
    <3> QED
      BY <3>1, <3>2
  <2>2. Revived(req'[x], s)
    BY <2>1 DEF PairInv, RowsRevived
  <2>3. ASSUME ~HasMoored(s), HasDriver(s) PROVE HasDriver(s)'
    <3>1. PICK t \in Tasks : Driving(t) /\ task[t].sid = s /\ t \in adrift
      BY <2>3 DEF HasMoored, HasDriver, Moored
    <3>2. task'[t] = task[t]
      BY <1>1, <3>1 DEF LoopInv, AdriftAfloat
    <3> QED
      BY <3>1, <3>2 DEF HasDriver, Driving
  <2> QED
    BY <1>1, <1>5, <2>2, <2>3 DEF Revived
<1> QED
  BY <1>6, <1>7, <1>8, <1>9

LEMMA CommitPairs ==
  ASSUME RowsInv, LoopInv, PairsStatusAndTask, PairInv, NoSharedRow,
         NEW r \in Requests, Commit(r)
  PROVE  LiveDriven' /\ RowsChecked' /\ RowsRevived' /\ DyingLeavesError'
<1> USE DEF RowsInv
<1> DEFINE op == req[r].op
           want == req[r].want
<1>1. /\ req' = [req EXCEPT ![r] = req'[r]] /\ UNCHANGED <<token, task>>
      /\ adrift' = adrift /\ req[r].pc = "acted"
      /\ \/ req'[r] = Free /\ (Plan[op].start => req[r].targets = {})
         \/ /\ req'[r].pc = "starting" /\ Plan[op].start
            /\ req'[r].targets = req[r].targets
      /\ \A s \in Sessions :
           status'[s] = IF s \in req[r].targets THEN Written(want, req[r].seen[s], s)
                                                ELSE status[s]
  BY CommitRequest DEF Commit, registry
<1>2. /\ op \in Endpoints /\ want \in Plan[op].want
      /\ Plan[op].start /\ op \notin Activations
           => Plan[op].stop \/ Plan[op].skipRunning \/ Plan[op].readable
      /\ op \in Activations => Plan[op].start
      /\ Plan[op].start \/ Plan[op].want = {"deactivated"}
  BY <1>1, PlanFacts, EndpointsAssumption DEF Planned, FollowsPlan, PairsStatusAndTask
<1>3. \A x \in Requests : x # r => req'[x] = req[x]
  BY <1>1 DEF IInv, TypeOK
<1>4. \A y : (HasDriver(y)' <=> HasDriver(y)) /\ (HasMoored(y)' <=> HasMoored(y))
  BY <1>1 DEF HasDriver, HasMoored, Moored, Driving
<1>5. ASSUME NEW s \in req[r].targets, ~Plan[op].start
      PROVE  \/ status'[s] = "deactivated"
             \/ status'[s] = status[s] /\ (status[s] \in Live => HasDriver(s))
  <2>1. want = "deactivated" /\ op \notin Activations
    BY <1>2, <1>5
  <2>2. s \in Sessions /\ Revived(req[r], s)
    BY HeldRows DEF PairInv, RowsRevived
  <2>3. CASE req[r].seen[s] = "deactivated"
    BY <1>1, <2>1, <2>2, <2>3 DEF Revived, Written
  <2>4. CASE req[r].seen[s] # "deactivated"
    BY <1>1, <2>1, <2>2, <2>4 DEF Written
  <2> QED
    BY <2>3, <2>4
<1>6. LiveDriven'
  <2> SUFFICES ASSUME NEW s \in Sessions, status'[s] \in Live, ~Handled(s)'
               PROVE  HasDriver(s)
    BY <1>4 DEF LiveDriven
  <2>1. CASE s \in req[r].targets
    <3>1. ~Plan[op].start
      BY <1>1, <2>1 DEF Handled
    <3> QED
      BY <1>5, <2>1, <3>1 DEF Live
  <2>2. CASE s \notin req[r].targets
    <3>1. ~Handled(s)
      BY <1>3, <2>2 DEF Handled
    <3> QED
      BY <1>1, <2>2, <3>1 DEF PairInv, LiveDriven
  <2> QED
    BY <2>1, <2>2
<1>7. RowsChecked'
  <2> SUFFICES ASSUME NEW x \in Requests, NEW s \in req'[x].targets
               PROVE  Checks(req[x], s)'
    BY DEF RowsChecked
  <2>1. CASE x = r
    BY <1>1, <2>1, FreePlanned DEF Checks
  <2>2. CASE x # r
    <3>1. req'[x] = req[x] /\ Checks(req[x], s)
      BY <1>3, <2>2 DEF PairInv, RowsChecked
    <3> QED
      BY <1>1, <1>4, <3>1 DEF Checks
  <2> QED
    BY <2>1, <2>2
<1>8. DyingLeavesError'
  <2> SUFFICES ASSUME NEW t \in Tasks, Driving(t), Dying(task[t]) PROVE GivesUp(t)'
    BY <1>1 DEF DyingLeavesError, Driving
  <2> DEFINE s == task[t].sid
  <2>0. t \notin adrift
    BY DEF LoopInv, AdriftAfloat, Afloat, InLoop, Trading, Dying
  <2>1. /\ token[s] = "unreadable" /\ (task[t].seen = "error" => status[s] \notin Live)
        /\ s \in Sessions /\ status[s] # "absent" /\ HasMoored(s)
    BY <2>0, DriverFacts DEF PairInv, DyingLeavesError, GivesUp, HasMoored, Moored
  <2>2. CASE s \notin req[r].targets
    BY <1>1, <2>1, <2>2 DEF GivesUp
  <2>3. CASE s \in req[r].targets
    <3>1. /\ Knows(req[r], s) /\ Checks(req[r], s)
      BY <2>3 DEF RowsKnown, PairInv, RowsChecked
    <3>2. op \notin Activations
      BY <1>1, <2>1, <3>1 DEF Knows, Pending
    <3>3. ~Plan[op].stop
      BY <1>1, <2>1, <3>1 DEF Knows
    <3>4. ~Plan[op].skipRunning /\ ~Plan[op].readable
      BY <1>1, <2>1, <3>1, <3>2 DEF Checks
    <3>5. status'[s] \in {"deactivated", status[s]}
      BY <1>2, <1>5, <2>3, <3>2, <3>3, <3>4
    <3> QED
      BY <1>1, <2>1, <3>5 DEF GivesUp, Live
  <2> QED
    BY <2>2, <2>3
<1>9. RowsRevived'
  <2> SUFFICES ASSUME NEW x \in Requests, NEW s \in req'[x].targets, x # r
               PROVE  Revived(req[x], s)'
    BY <1>1, FreePlanned DEF RowsRevived, Revived
  <2>1. req'[x] = req[x] /\ Revived(req[x], s) /\ s \in Sessions
    BY <1>3, HeldRows DEF PairInv, RowsRevived
  <2>2. status'[s] = status[s]
    BY <1>1, <2>1 DEF NoSharedRow
  <2> QED
    BY <1>4, <2>1, <2>2 DEF Revived
<1> QED
  BY <1>6, <1>7, <1>8, <1>9

LEMMA StartOnePairs ==
  ASSUME RowsInv, LoopInv, PairInv, NoSharedRow, NEW r \in Requests, StartOne(r)
  PROVE  LiveDriven' /\ RowsChecked' /\ RowsRevived' /\ DyingLeavesError'
<1> USE DEF RowsInv
<1>0. PICK s \in req[r].targets, t \in Tasks : StartsOne(r, s, t)
  BY StartOneIs
<1>1. /\ UNCHANGED <<status, token, adrift>> /\ req[r].pc = "starting" /\ s \in Sessions
      /\ ~Driving(t) /\ task'[t] = At(s, "created", "none")
      /\ \A x \in Tasks : x # t =>
           /\ Driving(x)' => Driving(x) /\ task'[x] = task[x]
           /\ Driving(x) /\ ~Driving(x)' => task[x].sid = s
  BY <1>0 DEF StartsOne
<1>2. /\ req' = [req EXCEPT ![r] = req'[r]] /\ FollowsPlan(req'[r])
      /\ req'[r].targets = req[r].targets \ {s}
      /\ req'[r].pc \in {"free", "starting"}
  BY <1>0, StartOneRequest
<1>3. \A x \in Requests : x # r => req'[x] = req[x]
  BY <1>2 DEF IInv, TypeOK
<1>4. Driving(t)' /\ task'[t].sid = s
  BY <1>1, RecordFields DEF Driving
<1>5. \A y : HasMoored(y)' => HasMoored(y) \/ y = s
  BY <1>1, <1>4 DEF HasMoored, Moored
<1>9. ASSUME NEW y, y # s, HasDriver(y) PROVE HasDriver(y)'
  <2>1. PICK x \in Tasks : Driving(x) /\ task[x].sid = y
    BY <1>9 DEF HasDriver
  <2>2. Driving(x)' /\ task'[x] = task[x]
    BY <1>1, <1>9, <2>1
  <2> QED
    BY <2>1, <2>2 DEF HasDriver
<1>6. LiveDriven'
  <2> SUFFICES ASSUME NEW y \in Sessions, status[y] \in Live, ~Handled(y)', y # s
               PROVE  HasDriver(y)'
    BY <1>1, <1>4 DEF LiveDriven, HasDriver
  <2>1. y \notin req[r].targets
    BY <1>2 DEF FollowsPlan, Handled
  <2>2. ~Handled(y)
    BY <1>3, <2>1 DEF Handled
  <2> QED
    BY <1>9, <2>2 DEF PairInv, LiveDriven
<1>7. RowsChecked'
  <2> SUFFICES ASSUME NEW x \in Requests, NEW y \in req'[x].targets
               PROVE  Checks(req[x], y)'
    BY DEF RowsChecked
  <2>1. CASE x = r
    BY <1>2, <2>1 DEF Checks
  <2>2. CASE x # r
    <3>1. req'[x] = req[x] /\ Checks(req[x], y) /\ y # s
      BY <1>3, <2>2 DEF PairInv, RowsChecked, NoSharedRow
    <3> QED
      BY <1>1, <1>5, <3>1 DEF Checks
  <2> QED
    BY <2>1, <2>2
<1>8. DyingLeavesError'
  BY <1>1, RecordKinds DEF PairInv, DyingLeavesError, GivesUp
<1>10. RowsRevived'
  <2> SUFFICES ASSUME NEW x \in Requests, NEW y \in req'[x].targets, x # r
               PROVE  Revived(req[x], y)'
    BY <1>2 DEF RowsRevived, Revived
  <2>1. req'[x] = req[x] /\ Revived(req[x], y) /\ y # s
    BY <1>3 DEF PairInv, RowsRevived, NoSharedRow
  <2> QED
    BY <1>1, <1>5, <1>9, <2>1 DEF Revived
<1> QED
  BY <1>6, <1>7, <1>8, <1>10

LEMMA RestartPairs ==
  ASSUME RowsInv, PairInv, NEW rotated \in BOOLEAN, Restart(rotated)
  PROVE  PairInv'
<1>1. /\ \A r \in Requests : req'[r].targets = {}
      /\ \A s \in Sessions :
           /\ status'[s] \in Live => HasDriver(s)' \/ token[s] = "opaque"
           /\ token'[s] \in {token[s], "unreadable"}
      /\ \A t \in Tasks : ~Dying(task'[t])
  BY RestartIs, FreePlanned, RecordKinds DEF RowsInv
<1> QED
  BY <1>1 DEF PairInv, TokensAreJwt, LiveDriven, RowsChecked, RowsRevived, DyingLeavesError

(* With paired endpoints, no database failure and tokens that are JWTs,    *)
(* the tasks follow the rows, as long as no two requests handle one row.   *)
LEMMA NextPairs ==
  ASSUME RowsInv, LoopInv, PairsStatusAndTask, PairInv, NoSharedRow, [Next]_vars
  PROVE  PairInv'
<1> USE DEF RowsInv
<1>1. ASSUME ~\E rotated \in BOOLEAN : Restart(rotated) PROVE PairInv'
  <2>1. \A s \in Sessions : Steady(s)
    BY <1>1, TokensSteady
  <2>2. TokensAreJwt'
    BY <1>1, TokenIs DEF PairInv, TokensAreJwt, PairsStatusAndTask
  <2> DEFINE Paired == LiveDriven' /\ RowsChecked' /\ RowsRevived' /\ DyingLeavesError'
  <2>3. ASSUME NEW r \in Requests, UNCHANGED <<status, tasks, task, adrift>>,
               req' = [req EXCEPT ![r] = req'[r]],
               \A s \in req[r].targets :
                 req[r].pc \in {"acted", "starting"} => status[s] \notin Live,
               \A s \in req'[r].targets : Checks(req[r], s)' /\ Revived(req[r], s)'
        PROVE  Paired
    BY <2>1, <2>3, HandlerPairs
  <2>4. ASSUME NEW r \in Requests, NEW u \in Users, NEW op \in Activations,
               NEW syms \in SUBSET Symbols, TakeLock(r, u, op, syms)
        PROVE  Paired
    <3>1. /\ req' = [req EXCEPT ![r] = req'[r]] /\ req'[r].targets = {}
          /\ req[r].pc = "free"
      <4>1. req[r].pc = "free"
        BY <2>4, Zenon DEF TakeLock
      <4> QED
        BY <2>4, <4>1, TakeLockRequest
    <3> QED
      BY <2>3, <2>4, <3>1, QuietHandlers
  <2>5. ASSUME NEW r \in Requests, NEW op \in Endpoints, NEW s0 \in Sessions,
               NEW sym \in Symbols \cup {NoSymbol}, NEW want \in Statuses \cup {"keep"},
               ReadRows(r, op, s0, want, sym)
        PROVE  Paired
    <3>1. /\ req' = [req EXCEPT ![r] = req'[r]] /\ req'[r].pc = "read"
          /\ req[r].pc = "free"
          /\ \A s \in req'[r].targets : s \in Sessions /\ req'[r].seen[s] = status[s]
      <4>1. req[r].pc = "free"
        BY <2>5, Zenon DEF ReadRows
      <4> QED
        BY <2>5, <4>1, ReadRowsRequest
    <3>2. UNCHANGED <<status, tasks, task, adrift>>
      BY <2>5, QuietHandlers
    <3>3. \A s : HasMoored(s)' => HasMoored(s)
      BY <3>2 DEF HasMoored, Moored, Driving
    <3>4. \A s \in req'[r].targets : Revived(req[r], s)'
      <4> SUFFICES ASSUME NEW s \in req'[r].targets, status[s] = "deactivated"
                   PROVE  ~HasMoored(s)
        BY <3>1, <3>2, <3>3 DEF Revived, Live
      <4> QED
        BY DEF Asleep, HasMoored
    <3> QED
      BY <2>3, <3>1, <3>2, <3>4 DEF Checks
  <2>6. ASSUME NEW r \in Requests, CheckSymbol(r) PROVE Paired
    <3>1. /\ req' = [req EXCEPT ![r] = req'[r]] /\ req[r].pc = "checking"
          /\ req[r].op \in Activations
          /\ req'[r] = Free \/ req'[r].op = req[r].op
      BY <2>6, CheckSymbolRequest
    <3>2. \A s \in req'[r].targets : Checks(req[r], s)' /\ Revived(req[r], s)'
      BY <3>1, FreePlanned DEF Checks, Revived
    <3> QED
      BY <2>3, <2>6, <3>1, <3>2, QuietHandlers
  <2>7. ASSUME NEW r \in Requests, ActivateRefused(r) \/ CommitFails(r) PROVE Paired
    <3>1. req' = [req EXCEPT ![r] = req'[r]] /\ req'[r].targets = {}
      BY <2>7, AbortRequest, FreePlanned DEF ActivateRefused, CommitFails, IInv
    <3>2. req[r].pc \in {"checking", "acted"} /\ req[r].op \in Activations
      BY <2>7 DEF ActivateRefused, CommitFails, PairsStatusAndTask, Activations
    <3>3. \A s \in req[r].targets : status[s] \notin Live
      BY <3>2 DEF RowsKnown, Knows, Pending, Live
    <3> QED
      BY <2>3, <2>7, <3>1, <3>3, QuietHandlers
  <2>8. ASSUME UNCHANGED <<status, task, adrift, req>>, \A s \in Sessions : Steady(s) PROVE Paired
    <3>1. /\ \A y : (HasDriver(y)' <=> HasDriver(y)) /\ (HasMoored(y)' <=> HasMoored(y))
          /\ \A y : Handled(y)' <=> Handled(y)
      BY <2>8 DEF HasDriver, HasMoored, Moored, Driving, Handled
    <3>2. LiveDriven'
      BY <2>8, <3>1 DEF PairInv, LiveDriven
    <3>3. RowsChecked'
      <4> SUFFICES ASSUME NEW x \in Requests, NEW s \in req[x].targets
                   PROVE  Checks(req[x], s)'
        BY <2>8 DEF RowsChecked
      <4>1. s \in Sessions /\ Checks(req[x], s)
            /\ (token'[s] = "unreadable" => token[s] = "unreadable")
        BY <2>8, HeldRows DEF PairInv, RowsChecked, Steady
      <4> QED
        BY <2>8, <3>1, <4>1 DEF Checks
    <3>4. DyingLeavesError'
      <4> SUFFICES ASSUME NEW t \in Tasks, Driving(t), Dying(task[t]) PROVE GivesUp(t)'
        BY <2>8 DEF DyingLeavesError, Driving
      <4>1. GivesUp(t) /\ task[t].sid \in Sessions /\ status[task[t].sid] # "absent"
        BY DriverFacts DEF PairInv, DyingLeavesError
      <4> QED
        BY <2>8, <4>1 DEF GivesUp, Steady
    <3>5. RowsRevived'
      BY <2>8, <3>1 DEF PairInv, RowsRevived, Revived
    <3> QED
      BY <3>2, <3>3, <3>4, <3>5
  <2>9. ASSUME NEW s \in Sessions, TokenExpires(s)
        PROVE  UNCHANGED <<status, task, adrift, req>>
    BY <2>9 DEF TokenExpires, registry
  <2>10. UNCHANGED vars => UNCHANGED <<status, task, adrift, req>>
    BY DEF vars
  <2>11. Paired
    BY <1>1, <2>1, <2>4, <2>5, <2>6, <2>7, <2>8, <2>9, <2>10, TaskStepPairs, ActPairs,
       CommitPairs, StartOnePairs, NextIs
  <2> QED
    BY <2>2, <2>11 DEF PairInv
<1> QED
  BY <1>1, RestartPairs

(* With no request under way, every row that says the bot is alive has a   *)
(* task that runs it, however many sessions, users and requests there are, *)
(* through expiring tokens, restarts, rotated keys and lost cancels: it is *)
(* the registered one, or one that was told to stop and goes on.           *)
THEOREM LiveStatusCorrect ==
  ASSUME PairsStatusAndTask
  PROVE  Spec /\ []NoSharedRow => []LiveStatusHasTask
<1>1. Init => PairInv
  BY RecordFields DEF Init, PairInv, TokensAreJwt, LiveDriven, RowsChecked, RowsRevived,
     DyingLeavesError, Driving, Live, Free
<1>2. RowsInv /\ PairInv => LiveStatusHasTask
  <2> SUFFICES ASSUME RowsInv, PairInv, Quiet, NEW s \in Sessions, status[s] \in Live
               PROVE  \E t \in Tasks : /\ Driving(t) /\ task[t].sid = s
                                       /\ t = tasks[s] \/ t \in adrift
    BY DEF LiveStatusHasTask
  <2>1. ~Handled(s)
    BY DEF Quiet, Handled
  <2>2. PICK t \in Tasks : Driving(t) /\ task[t].sid = s
    BY <2>1 DEF PairInv, LiveDriven, HasDriver
  <2>3. t = tasks[s] \/ t \in adrift
    BY <2>2, DriverFacts DEF RowsInv
  <2> QED
    BY <2>2, <2>3
<1>3. RowsInv /\ LoopInv /\ PairInv /\ NoSharedRow /\ [Next]_vars => PairInv'
  BY NextPairs
<1>4. RowsInv /\ LoopInv /\ [Next]_vars => LoopInv'
  BY NextLoops DEF RowsInv
<1> QED
  BY <1>1, <1>2, <1>3, <1>4, InitRows, NextRows, InitLoops, PTL DEF Spec

-----------------------------------------------------------------------------
(* One live session per user and symbol, when no endpoint but the          *)
(* activations, which check for duplicates under the lock of the user,     *)
(* makes a row live                                                        *)

OnlyActivationsMakeLive ==
  \A op \in Endpoints \ Activations : Plan[op].want = {"deactivated"}

(* An activation holds the lock of the user whose rows it inserts, and has *)
(* no second insert to make for a symbol.                                  *)
Holds(r, s) ==
  /\ lock[Owner[s]] = r
  /\ req[r].pc = "checking" => symbol[s] \notin req[r].todo

LockHeld ==
  \A r \in Requests : Pending(req[r]) => \A s \in req[r].targets : Holds(r, s)

(* A row claims its symbol from its insert, committed or not, on.          *)
Claims(s) ==
  status[s] \in Live \/ \E r \in Requests : Pending(req[r]) /\ s \in req[r].targets

OneClaim ==
  \A x, y \in Sessions :
    x # y /\ Claims(x) /\ Claims(y) /\ Owner[x] = Owner[y] => symbol[x] # symbol[y]

ClaimInv == LockHeld /\ OneClaim

LEMMA FewerClaims ==
  ASSUME OneClaim, UNCHANGED symbol, \A s \in Sessions : Claims(s)' => Claims(s)
  PROVE  OneClaim'
BY DEF OneClaim

(* The locks of the other requests stay.                                   *)
LEMMA OtherLocks ==
  ASSUME IInv, LockHeld, NEW r \in Requests, req' = [req EXCEPT ![r] = req'[r]],
         UNCHANGED symbol,
         \A u \in Users : lock[u] \in Requests \ {r} => lock'[u] = lock[u],
         Pending(req'[r]) => req'[r].targets = {}
  PROVE  LockHeld'
<1> SUFFICES ASSUME NEW x \in Requests, Pending(req'[x]), NEW s \in req'[x].targets
             PROVE  Holds(x, s)'
  BY DEF LockHeld, Pending
<1>1. req'[x] = req[x] /\ x # r
  BY DEF IInv, TypeOK
<1>2. Holds(x, s) /\ s \in Sessions
  BY <1>1, HeldRows DEF LockHeld
<1>3. Owner[s] \in Users
  BY <1>2, OwnerAssumption
<1> QED
  BY <1>1, <1>2, <1>3 DEF Holds

LEMMA UnlockedKeeps ==
  ASSUME NEW r \in Requests, Unlocked(r)
  PROVE  \A u \in Users : lock[u] \in Requests \ {r} => lock'[u] = lock[u]
BY DEF Unlocked

LEMMA CheckSymbolClaims ==
  ASSUME RowsInv, ClaimInv, NEW r \in Requests, CheckSymbol(r)
  PROVE  ClaimInv'
<1> USE DEF RowsInv, ClaimInv
<1>1. UNCHANGED status
  BY QuietHandlers
<1>2. /\ req' = [req EXCEPT ![r] = req'[r]]
      /\ req[r].pc = "checking" /\ req[r].op \in Activations /\ Pending(req[r])
      /\ \/ Abort(r) /\ req'[r] = Free /\ UNCHANGED symbol
         \/ /\ req'[r].pc \in {"checking", "acted"} /\ req'[r].op = req[r].op
            /\ \E u \in Held(r), sym \in req[r].todo :
                 /\ req'[r].todo = req[r].todo \ {sym}
                 /\ \/ UNCHANGED <<symbol, lock>> /\ req'[r].targets = req[r].targets
                    \/ \E s \in Sessions :
                         /\ Duplicates(u, sym) = {} /\ Fresh(s) /\ Owner[s] = u
                         /\ req'[r].targets = req[r].targets \cup {s}
                         /\ symbol' = [symbol EXCEPT ![s] = sym] /\ UNCHANGED lock
  BY CheckSymbolRequest DEF Pending
<1>3. \A x \in Requests : x # r => req'[x] = req[x]
  BY <1>2 DEF IInv, TypeOK
<1>4. CASE Abort(r) /\ req'[r] = Free /\ UNCHANGED symbol
  <2>1. \A s \in Sessions : Claims(s)' => Claims(s)
    BY <1>1, <1>3, <1>4, FreePlanned DEF Claims, Pending
  <2>2. ~Pending(req'[r])
    BY <1>4, FreePlanned DEF Pending
  <2> QED
    BY <1>2, <1>4, <2>1, <2>2, FewerClaims, OtherLocks, UnlockedKeeps DEF Abort
<1>5. ASSUME UNCHANGED <<symbol, lock>>, req'[r].targets = req[r].targets,
             req'[r].pc \in {"checking", "acted"}, req'[r].op = req[r].op,
             NEW sym, req'[r].todo = req[r].todo \ {sym}
      PROVE  ClaimInv'
  <2>1. \A s \in Sessions : Claims(s)' => Claims(s)
    BY <1>1, <1>2, <1>3, <1>5 DEF Claims, Pending
  <2>2. LockHeld'
    BY <1>2, <1>3, <1>5 DEF LockHeld, Holds, Pending
  <2> QED
    BY <1>5, <2>1, <2>2, FewerClaims
<1>6. ASSUME NEW u \in Held(r), NEW sym \in req[r].todo, NEW s \in Sessions,
             req'[r].pc \in {"checking", "acted"}, req'[r].op = req[r].op,
             req'[r].todo = req[r].todo \ {sym},
             Duplicates(u, sym) = {}, Fresh(s), Owner[s] = u,
             req'[r].targets = req[r].targets \cup {s},
             symbol' = [symbol EXCEPT ![s] = sym], UNCHANGED lock
      PROVE  ClaimInv'
  <2>1. /\ symbol'[s] = sym /\ \A y \in Sessions : y # s => symbol'[y] = symbol[y]
        /\ lock[u] = r /\ u \in Users
    BY <1>6 DEF IInv, TypeOK, Held
  <2>2. ~Claims(s) /\ \A x \in Requests : s \notin req[x].targets
    BY <1>6 DEF Claims, Fresh, Live
  <2>3. ASSUME NEW y \in Sessions, y # s, Claims(y)' PROVE Claims(y)
    BY <1>1, <1>2, <1>3, <1>6, <2>3 DEF Claims, Pending
  <2>4. ASSUME NEW y \in Sessions, y # s, Claims(y), Owner[y] = u PROVE symbol[y] # sym
    <3>1. CASE status[y] \in Live
      BY <1>6, <2>4, <3>1 DEF Duplicates
    <3>2. ASSUME NEW x \in Requests, Pending(req[x]), y \in req[x].targets
          PROVE  symbol[y] # sym
      <4>1. Holds(x, y)
        BY <3>2 DEF LockHeld
      <4>2. x = r
        BY <2>1, <2>4, <4>1 DEF Holds
      <4> QED
        BY <1>2, <4>1, <4>2 DEF Holds
    <3> QED
      BY <2>4, <3>1, <3>2 DEF Claims
  <2>5. OneClaim'
    <3> SUFFICES ASSUME NEW x \in Sessions, NEW y \in Sessions, x # y,
                        Claims(x)', Claims(y)', Owner[x] = Owner[y]
                 PROVE  symbol'[x] # symbol'[y]
      BY DEF OneClaim
    <3>1. CASE x = s
      BY <1>6, <2>1, <2>3, <2>4, <3>1
    <3>2. CASE y = s
      BY <1>6, <2>1, <2>3, <2>4, <3>2
    <3>3. CASE x # s /\ y # s
      BY <2>1, <2>3, <3>3 DEF OneClaim
    <3> QED
      BY <3>1, <3>2, <3>3
  <2>6. LockHeld'
    <3> SUFFICES ASSUME NEW x \in Requests, Pending(req'[x]), NEW y \in req'[x].targets
                 PROVE  Holds(x, y)'
      BY DEF LockHeld, Pending
    <3>1. CASE y = s
      <4>1. x = r
        BY <1>3, <2>2, <3>1
      <4> QED
        BY <1>6, <2>1, <3>1, <4>1 DEF Holds
    <3>2. CASE y # s
      <4>1. /\ Pending(req[x]) /\ y \in req[x].targets
            /\ req'[x].pc = "checking" => req[x].pc = "checking"
            /\ req'[x].todo \subseteq req[x].todo
        BY <1>2, <1>3, <1>6, <3>2
      <4>2. Holds(x, y) /\ y \in Sessions
        BY <4>1, HeldRows DEF LockHeld
      <4> QED
        BY <1>6, <2>1, <3>2, <4>1, <4>2 DEF Holds
    <3> QED
      BY <3>1, <3>2
  <2> QED
    BY <2>5, <2>6
<1> QED
  BY <1>2, <1>4, <1>5, <1>6

(* A commit makes a row live only for the request whose insert claims it.  *)
LEMMA CommitClaims ==
  ASSUME RowsInv, OnlyActivationsMakeLive, ClaimInv, NEW r \in Requests, Commit(r)
  PROVE  ClaimInv'
<1> USE DEF RowsInv, ClaimInv
<1> DEFINE op == req[r].op
           want == req[r].want
<1>1. /\ req' = [req EXCEPT ![r] = req'[r]] /\ req[r].pc = "acted"
      /\ req'[r].pc \in {"free", "starting"}
      /\ \A s \in Sessions :
           status'[s] = IF s \in req[r].targets THEN Written(want, req[r].seen[s], s)
                                                ELSE status[s]
  BY CommitRequest, FreePlanned
<1>2. /\ op \in Endpoints /\ want \in Plan[op].want
      /\ req[r].newSymbol # NoSymbol => Plan[op].rename
      /\ Deactivates(Plan[op]) /\ Starts(Plan[op])
      /\ op \in Activations => Plan[op].start
      /\ op \notin Activations => Plan[op].want = {"deactivated"}
  BY <1>1, PlanFacts, EndpointsAssumption
     DEF Planned, FollowsPlan, OnlyActivationsMakeLive
<1>3. req[r].newSymbol = NoSymbol
  BY <1>2 DEF Deactivates, Starts
<1>4. UNCHANGED symbol
  <2>1. symbol' = [s \in Sessions |-> symbol[s]]
    BY <1>3 DEF Commit
  <2> QED
    BY <2>1 DEF IInv, TypeOK
<1>5. \A x \in Requests : x # r => req'[x] = req[x]
  BY <1>1 DEF IInv, TypeOK
<1>6. ASSUME NEW s \in Sessions, Claims(s)' PROVE Claims(s)
  <2>1. ASSUME NEW x \in Requests, Pending(req'[x]), s \in req'[x].targets
        PROVE  Claims(s)
    <3>1. x # r
      BY <1>1, <2>1 DEF Pending
    <3> QED
      BY <1>5, <2>1, <3>1 DEF Claims
  <2>2. ASSUME status'[s] \in Live PROVE Claims(s)
    <3>1. CASE s \notin req[r].targets
      BY <1>1, <2>2, <3>1 DEF Claims
    <3>2. CASE s \in req[r].targets /\ op \in Activations
      BY <1>1, <3>2 DEF Claims, Pending
    <3>3. CASE s \in req[r].targets /\ op \notin Activations
      BY <1>1, <1>2, <2>2, <3>3 DEF Claims, Written, Live
    <3> QED
      BY <3>1, <3>2, <3>3
  <2> QED
    BY <1>6, <2>1, <2>2 DEF Claims, Pending
<1>7. \A u \in Users : lock[u] \in Requests \ {r} => lock'[u] = lock[u]
  BY UnlockedKeeps DEF Commit
<1>8. ~Pending(req'[r])
  BY <1>1 DEF Pending
<1> QED
  BY <1>1, <1>4, <1>6, <1>7, <1>8, FewerClaims, OtherLocks

(* As long as no cancel is lost, no task trades for a row that says it     *)
(* failed: nobody but the task itself writes that status.                  *)
Unerring ==
  \A t \in Tasks : Driving(t) /\ Trading(task[t]) => status[task[t].sid] # "error"

LEMMA NextUnerring ==
  ASSUME RowsInv, adrift = {}, Unerring, [Next]_vars
  PROVE  Unerring'
<1> USE DEF RowsInv
<1>1. SUFFICES ASSUME NEW x \in Tasks, Driving(x)', Trading(task'[x])
               PROVE  status'[task'[x].sid] # "error"
  BY DEF Unerring
<1> DEFINE Fine == status'[task'[x].sid] # "error"
<1>2. ASSUME task'[x] = task[x] PROVE Driving(x) /\ task[x].sid \in Sessions
                                      /\ status[task[x].sid] # "error"
  <2>1. Driving(x)
    BY <1>1, <1>2 DEF Driving
  <2> QED
    BY <1>1, <1>2, <2>1, DriverFacts DEF Unerring
<1>3. ASSUME UNCHANGED <<status, task>> PROVE Fine
  BY <1>2, <1>3
<1>4. ASSUME NEW t \in Tasks, TickCommit(t) PROVE Fine
  <2>1. /\ Driving(t) /\ task[t].pc = "writing" /\ task[t].sid \in Sessions
        /\ task'[t] = AfterWrite(task[t])
        /\ \A s \in Sessions : status'[s] =
             IF s = task[t].sid /\ task[t].want # task[t].seen
             THEN task[t].want ELSE status[s]
    BY <1>4, CommitStatus
  <2>2. CASE x # t
    <3>1. task'[x] = task[x]
      BY <1>4, <2>2, TaskStepIs DEF TaskStep
    <3>2. task[x].sid # task[t].sid
      BY <1>2, <2>1, <2>2, <3>1, DriverFacts
    <3> QED
      BY <1>2, <2>1, <3>1, <3>2
  <2>3. CASE x = t
    <3>1. task[t].after \in {"idle", "loaded", "trading", "draining", "done"}
      BY <2>1 DEF IInv, TypeOK, Writing, TaskRecords
    <3>2. CASE task[t].after \in {"loaded", "trading"}
      <4>1. AfterWrite(task[t]) = At(task[t].sid, task[t].after, task[t].want)
        BY <3>2 DEF AfterWrite
      <4>2. task'[x].sid = task[t].sid
        BY <2>1, <2>3, <4>1, RecordFields
      <4>3. task[t].want \in Live /\ Trading(task[t])
        BY <2>1, <3>2 DEF Decided, Sound, Trading
      <4> QED
        BY <2>1, <4>2, <4>3 DEF Unerring, Live
    <3>3. CASE task[t].after \in {"idle", "draining"}
      <4>1. AfterWrite(task[t]) = At(task[t].sid, task[t].after, "none")
        BY <3>3 DEF AfterWrite
      <4> QED
        BY <1>1, <2>1, <2>3, <3>3, <4>1, RecordKinds
    <3>4. CASE task[t].after = "done"
      <4>1. AfterWrite(task[t]) = Finished
        BY <3>4 DEF AfterWrite
      <4> QED
        BY <1>1, <2>1, <2>3, <4>1, RecordKinds
    <3> QED
      BY <3>1, <3>2, <3>3, <3>4
  <2> QED
    BY <2>2, <2>3
<1>5. ASSUME NEW t \in Tasks, TaskStep(t) \/ FeedEnds(t), UNCHANGED status PROVE Fine
  <2>1. CASE x # t
    BY <1>2, <1>5, <2>1, TaskStepIs
  <2>2. CASE x = t
    <3>1. ~CancelLost(t)
      <4> SUFFICES ASSUME CancelLost(t) PROVE FALSE
        OBVIOUS
      <4>1. task'[t] = At(task[t].sid, "idle", "none")
        BY DEF CancelLost, EndTick, Becomes, IInv, TypeOK
      <4> QED
        BY <1>1, <2>2, <4>1, RecordKinds
    <3>2. Driving(t) /\ task'[t].sid = task[t].sid
      BY <1>1, <1>5, <2>2, <3>1, TaskStepIs
    <3>3. Trading(task[t]) \/ status[task[t].sid] \notin Inactive
      BY <1>1, <1>5, <2>2, TaskStepTrades
    <3> QED
      BY <1>5, <2>2, <3>2, <3>3 DEF Unerring, Inactive
  <2> QED
    BY <2>1, <2>2
<1>6. ASSUME NEW r \in Requests, Act(r) PROVE Fine
  <2>1. UNCHANGED status /\ task'[x] = task[x]
    BY <1>1, <1>6, ActIs
  <2> QED
    BY <1>2, <2>1
<1>7. ASSUME NEW r \in Requests, Commit(r) PROVE Fine
  <2>1. /\ task'[x] = task[x] /\ req[r].pc = "acted"
        /\ \A s \in Sessions :
             status'[s] = IF s \in req[r].targets
                          THEN Written(req[r].want, req[r].seen[s], s) ELSE status[s]
    BY <1>7, CommitRequest
  <2>2. req[r].want \in {"keep", "active", "paused", "deactivated"}
    BY <2>1, PlanFacts, EndpointsAssumption DEF Planned, FollowsPlan
  <2> QED
    BY <1>2, <2>1, <2>2 DEF Written
<1>8. ASSUME NEW r \in Requests, StartOne(r) PROVE Fine
  <2>1. PICK s \in req[r].targets, t \in Tasks : StartsOne(r, s, t)
    BY <1>8, StartOneIs
  <2>2. UNCHANGED status /\ (task'[x] = task[x] \/ task'[x] = At(s, "created", "none"))
    BY <1>1, <2>1 DEF StartsOne
  <2> QED
    BY <1>1, <1>2, <2>2, RecordKinds
<1>9. ASSUME NEW rotated \in BOOLEAN, Restart(rotated) PROVE Fine
  <2>1. ~Trading(task'[x])
    BY <1>9, RestartIs, RecordKinds
  <2> QED
    BY <1>1, <2>1
<1>10. ASSUME NEW s \in Sessions, TokenExpires(s) PROVE UNCHANGED <<status, task>>
  BY <1>10 DEF TokenExpires, registry
<1>11. UNCHANGED vars => UNCHANGED <<status, task>>
  BY DEF vars
<1>12. ASSUME NEW t \in Tasks, TaskStep(t) \/ FeedEnds(t) PROVE Fine
  BY <1>4, <1>5, <1>12, TaskStepIs
<1> HIDE DEF Fine
<1>13. Fine
  BY <1>3, <1>6, <1>7, <1>8, <1>9, <1>10, <1>11, <1>12, NextIs, QuietHandlers
<1> QED
  BY <1>13 DEF Fine

(* The steps of a task do not make an inactive row live.                   *)
LEMMA TaskStepClaims ==
  ASSUME RowsInv, adrift = {}, Unerring, ClaimInv,
         NEW t \in Tasks, TaskStep(t) \/ FeedEnds(t)
  PROVE  ClaimInv'
<1> USE DEF RowsInv, ClaimInv
<1>1. UNCHANGED <<symbol, lock, req>> /\ (UNCHANGED status \/ TickCommit(t))
  BY TaskStepIs
<1>2. ASSUME NEW s \in Sessions, status'[s] \in Live PROVE status[s] \in Live
  <2> SUFFICES ASSUME TickCommit(t), s = task[t].sid, task[t].want # task[t].seen
               PROVE  status[s] \in Live
    BY <1>1, <1>2, CommitStatus
  <2>1. Driving(t) /\ task[t].pc = "writing" /\ status'[s] = task[t].want
    BY CommitStatus
  <2>2. task[t].after # "done"
    BY <1>2, <2>1 DEF Decided, Sound, Live
  <2>3. status[s] \notin Inactive /\ status[s] # "absent"
    BY <2>1, <2>2, DriverFacts DEF Asleep, Moored, Unerring, Trading, Inactive
  <2> QED
    BY <2>3 DEF IInv, TypeOK, Statuses, Inactive
<1>3. \A s \in Sessions : Claims(s)' => Claims(s)
  BY <1>1, <1>2 DEF Claims, Pending
<1>4. LockHeld'
  BY <1>1 DEF LockHeld, Holds, Pending
<1> QED
  BY <1>1, <1>3, <1>4, FewerClaims

LEMMA NextClaims ==
  ASSUME RowsInv, adrift = {}, Unerring, OnlyActivationsMakeLive, ClaimInv, [Next]_vars
  PROVE  ClaimInv'
<1> USE DEF RowsInv, ClaimInv
<1>1. ASSUME NEW r \in Requests, req' = [req EXCEPT ![r] = req'[r]],
             UNCHANGED <<status, symbol>>,
             \A u \in Users : lock[u] \in Requests \ {r} => lock'[u] = lock[u],
             Pending(req'[r]) => req'[r].targets = {}
      PROVE  ClaimInv'
  <2>1. \A x \in Requests : x # r => req'[x] = req[x]
    BY <1>1 DEF IInv, TypeOK
  <2>2. \A s \in Sessions : Claims(s)' => Claims(s)
    BY <1>1, <2>1 DEF Claims, Pending
  <2> QED
    BY <1>1, <2>2, FewerClaims, OtherLocks
<1>2. ASSUME NEW r \in Requests, NEW u \in Users, NEW op \in Activations,
             NEW syms \in SUBSET Symbols, TakeLock(r, u, op, syms)
      PROVE  ClaimInv'
  <2>1. req' = [req EXCEPT ![r] = req'[r]] /\ req'[r].targets = {}
    BY <1>2, TakeLockRequest
  <2>2. /\ UNCHANGED <<status, symbol>> /\ lock[u] = NoRequest
        /\ lock' = [lock EXCEPT ![u] = r]
    BY <1>2 DEF TakeLock, rows, LockFree
  <2>3. \A v \in Users : lock[v] \in Requests \ {r} => lock'[v] = lock[v]
    BY <2>2, AbsentAssumption DEF IInv, TypeOK
  <2> QED
    BY <1>1, <2>1, <2>2, <2>3
<1>3. ASSUME NEW r \in Requests, NEW op \in Endpoints, NEW s0 \in Sessions,
             NEW sym \in Symbols \cup {NoSymbol}, NEW want \in Statuses \cup {"keep"},
             ReadRows(r, op, s0, want, sym)
      PROVE  ClaimInv'
  <2>1. req' = [req EXCEPT ![r] = req'[r]] /\ ~Pending(req'[r])
    BY <1>3, ReadRowsRequest DEF Pending
  <2>2. UNCHANGED <<status, symbol, lock>>
    BY <1>3 DEF ReadRows, rows
  <2> QED
    BY <1>1, <2>1, <2>2
<1>4. ASSUME NEW r \in Requests, ActivateRefused(r) \/ CommitFails(r) PROVE ClaimInv'
  <2>1. Abort(r)
    BY <1>4 DEF ActivateRefused, CommitFails
  <2>2. req' = [req EXCEPT ![r] = req'[r]] /\ req'[r].targets = {}
    BY <2>1, AbortRequest, FreePlanned DEF IInv
  <2>3. UNCHANGED <<status, symbol>>
    BY <2>1 DEF Abort, rows
  <2> QED
    BY <1>1, <2>1, <2>2, <2>3, UnlockedKeeps DEF Abort
<1>5. ASSUME NEW r \in Requests, Act(r) PROVE ClaimInv'
  <2>1. req' = [req EXCEPT ![r] = req'[r]] /\ ~Pending(req'[r])
    BY <1>5, ActRequest, FreePlanned DEF Pending
  <2>2. UNCHANGED <<status, symbol, lock>>
    BY <1>5 DEF Act, rows
  <2> QED
    BY <1>1, <2>1, <2>2
<1>6. ASSUME NEW r \in Requests, StartOne(r) PROVE ClaimInv'
  <2>1. PICK s \in req[r].targets, t \in Tasks : StartsOne(r, s, t)
    BY <1>6, StartOneIs
  <2>2. req' = [req EXCEPT ![r] = req'[r]] /\ ~Pending(req'[r])
    BY <2>1, StartOneRequest DEF Pending
  <2>3. UNCHANGED <<status, symbol>> /\ (Unlocked(r) \/ UNCHANGED lock)
    BY <1>6 DEF StartOne, rows
  <2> QED
    BY <1>1, <2>2, <2>3, UnlockedKeeps
<1>7. ASSUME NEW rotated \in BOOLEAN, Restart(rotated) PROVE ClaimInv'
  <2>1. /\ UNCHANGED symbol
        /\ \A r \in Requests : req'[r] = Free
        /\ \A s \in Sessions : status'[s] = status[s] \/ status'[s] = "error"
    BY <1>7, RestartIs
  <2>2. \A s \in Sessions : Claims(s)' => Claims(s)
    BY <2>1, FreePlanned DEF Claims, Pending, Live
  <2>3. LockHeld'
    BY <2>1, FreePlanned DEF LockHeld
  <2> QED
    BY <2>1, <2>2, <2>3, FewerClaims
<1>8. ASSUME UNCHANGED <<status, symbol, lock, req>> PROVE ClaimInv'
  BY <1>8 DEF LockHeld, OneClaim, Holds, Claims, Pending
<1>9. ASSUME NEW s \in Sessions, TokenExpires(s) PROVE ClaimInv'
  BY <1>8, <1>9 DEF TokenExpires
<1>10. UNCHANGED vars => UNCHANGED <<status, symbol, lock, req>>
  BY DEF vars
<1> QED
  BY <1>2, <1>3, <1>4, <1>5, <1>6, <1>7, <1>8, <1>9, <1>10, CheckSymbolClaims,
     CommitClaims, TaskStepClaims, NextIs

LEMMA ClaimsAreUnique == ClaimInv => UniqueLive
<1> SUFFICES ASSUME ClaimInv, NEW u \in Users, NEW sym \in Symbols
             PROVE  Cardinality(Duplicates(u, sym)) <= 1
  BY DEF UniqueLive
<1>1. \A x, y \in Duplicates(u, sym) : x = y
  BY DEF Duplicates, ClaimInv, OneClaim, Claims
<1>2. CASE Duplicates(u, sym) = {}
  BY <1>2, FS_EmptySet
<1>3. CASE Duplicates(u, sym) # {}
  <2>1. PICK x : x \in Duplicates(u, sym)
    BY <1>3
  <2>2. Duplicates(u, sym) = {x}
    BY <1>1, <2>1
  <2> QED
    <3>1. Cardinality({x}) = 1
      BY FS_Singleton, Zenon
    <3> QED
      BY <2>2, <3>1
<1> QED
  BY <1>2, <1>3

LEMMA InitClaims == Init => ClaimInv /\ Unerring
<1>1. Init => ClaimInv
  BY DEF Init, ClaimInv, LockHeld, OneClaim, Claims, Pending, Free, Live
<1>2. Init => Unerring
  BY RecordFields DEF Init, Unerring, Driving
<1> QED
  BY <1>1, <1>2

(* A user has at most one live session per symbol, whatever activations,   *)
(* ticks, failures and restarts interleave, as long as no other endpoint   *)
(* makes a row live, no two requests handle the same row and no cancel is  *)
(* lost: a task adrift can revive a session that was replaced.             *)
THEOREM UniqueLiveCorrect ==
  ASSUME OnlyActivationsMakeLive
  PROVE  Spec /\ []NoSharedRow /\ [](adrift = {}) => []UniqueLive
<1>1. RowsInv /\ adrift = {} /\ Unerring /\ ClaimInv /\ [Next]_vars => ClaimInv'
  BY NextClaims
<1>2. RowsInv /\ adrift = {} /\ Unerring /\ [Next]_vars => Unerring'
  BY NextUnerring
<1> QED
  BY <1>1, <1>2, InitRows, NextRows, InitClaims, ClaimsAreUnique, PTL DEF Spec

(* Activations insert rows that no other request names.                    *)
LEMMA NextDistinct ==
  ASSUME Endpoints \subseteq Activations, IInv, Planned, NoSharedRow, [Next]_vars
  PROVE  NoSharedRow'
<1>1. ASSUME NEW r \in Requests, req' = [req EXCEPT ![r] = req'[r]],
             \A s \in req'[r].targets :
               s \in req[r].targets \/ \A x \in Requests : s \notin req[x].targets
      PROVE  NoSharedRow'
  <2>1. \A x \in Requests : x # r => req'[x] = req[x]
    BY <1>1 DEF IInv, TypeOK
  <2>2. ASSUME NEW x \in Requests, NEW y \in Requests, x # y,
               NEW s \in req'[x].targets, s \in req'[y].targets
        PROVE  FALSE
    <3>1. /\ x # r => s \in req[x].targets
          /\ y # r => s \in req[y].targets
      BY <2>1, <2>2
    <3> QED
      BY <1>1, <2>2, <3>1 DEF NoSharedRow
  <2> QED
    BY <2>2 DEF NoSharedRow
<1>2. ASSUME UNCHANGED req PROVE NoSharedRow'
  BY <1>2 DEF NoSharedRow
<1>3. ASSUME NEW t \in Tasks, TaskStep(t) \/ FeedEnds(t) PROVE UNCHANGED req
  BY <1>3 DEF TaskStep, FeedEnds, TaskBegin, TaskBeginFails, TickLoad, HaltDetected,
     HaltCleared, HaltCheckFails, BrokerRejectsToken, RiskPause, TickEnds, TickCommit,
     TickCommitFails, TaskUnwinds, CancelLost, TaskOnly, RowsAndHandlers
<1>4. ASSUME NEW r \in Requests, NEW u \in Users, NEW op \in Activations,
             NEW syms \in SUBSET Symbols, TakeLock(r, u, op, syms)
      PROVE  NoSharedRow'
  BY <1>1, <1>4, TakeLockRequest
<1>5. ASSUME NEW r \in Requests, NEW op \in Endpoints, NEW s \in Sessions,
             NEW sym \in Symbols \cup {NoSymbol}, NEW want \in Statuses \cup {"keep"},
             ReadRows(r, op, s, want, sym)
      PROVE  FALSE
  BY <1>5 DEF ReadRows
<1>6. ASSUME NEW r \in Requests, CheckSymbol(r) PROVE NoSharedRow'
  <2>1. /\ req' = [req EXCEPT ![r] = req'[r]]
        /\ \/ req'[r] = Free \/ req'[r].targets = req[r].targets
           \/ \E s \in Sessions : Fresh(s) /\ req'[r].targets = req[r].targets \cup {s}
    BY <1>6, CheckSymbolRequest
  <2> QED
    BY <1>1, <2>1, FreePlanned DEF Fresh
<1>7. ASSUME NEW r \in Requests, ActivateRefused(r) \/ CommitFails(r) PROVE NoSharedRow'
  <2>1. req' = [req EXCEPT ![r] = req'[r]] /\ req'[r].targets = {}
    BY <1>7, AbortRequest, FreePlanned DEF ActivateRefused, CommitFails, IInv
  <2> QED
    BY <1>1, <2>1
<1>8. ASSUME NEW r \in Requests, Act(r) PROVE FALSE
  BY <1>8, ActRequest DEF Planned, FollowsPlan
<1>9. ASSUME NEW r \in Requests, Commit(r) PROVE NoSharedRow'
  BY <1>1, <1>9, CommitRequest, FreePlanned
<1>10. ASSUME NEW r \in Requests, StartOne(r) PROVE NoSharedRow'
  <2>1. PICK s \in req[r].targets, t \in Tasks : StartsOne(r, s, t)
    BY <1>10, StartOneIs
  <2>2. req' = [req EXCEPT ![r] = req'[r]] /\ req'[r].targets = req[r].targets \ {s}
    BY <2>1, StartOneRequest
  <2> QED
    BY <1>1, <2>2
<1>11. ASSUME NEW s \in Sessions, TokenExpires(s) PROVE UNCHANGED req
  BY <1>11 DEF TokenExpires
<1>12. ASSUME NEW rotated \in BOOLEAN, Restart(rotated) PROVE NoSharedRow'
  BY <1>12, RestartIs, FreePlanned DEF NoSharedRow
<1>13. UNCHANGED vars => UNCHANGED req
  BY DEF vars
<1> QED
  BY <1>2, <1>3, <1>4, <1>5, <1>6, <1>7, <1>8, <1>9, <1>10, <1>11, <1>12, <1>13 DEF Next

(* Activations alone cancel no task: the rows they start have none.        *)
Unstarted ==
  /\ adrift = {} /\ \A t \in Tasks : ~task[t].cancelled
  /\ \A r \in Requests : \A s \in req[r].targets : ~IsRunning(s)

LEMMA NextUnstarted ==
  ASSUME Endpoints \subseteq Activations, IInv, Decided, Planned, NoSharedRow, Unstarted,
         [Next]_vars
  PROVE  Unstarted'
<1>1. ASSUME NEW s \in Sessions, status[s] = "absent" PROVE ~IsRunning(s)
  BY <1>1 DEF IsRunning, Unfinished, IInv, TypeOK, RegistryOK, RowsExist, StartedAfterCommit
<1>2. ASSUME NEW r \in Requests, UNCHANGED <<tasks, task, adrift>>,
             req' = [req EXCEPT ![r] = req'[r]],
             \A s \in req'[r].targets :
               s \in req[r].targets \/ (s \in Sessions /\ status[s] = "absent")
      PROVE  Unstarted'
  <2>1. \A x \in Requests : x # r => req'[x] = req[x]
    BY <1>2 DEF IInv, TypeOK
  <2>2. \A s : IsRunning(s)' <=> IsRunning(s)
    BY <1>2 DEF IsRunning, Unfinished
  <2> QED
    BY <1>1, <1>2, <2>1, <2>2 DEF Unstarted
<1>3. ASSUME UNCHANGED <<tasks, task, adrift, req>> PROVE Unstarted'
  BY <1>3 DEF Unstarted, IsRunning, Unfinished
<1>4. ASSUME NEW t \in Tasks, TaskStep(t) \/ FeedEnds(t) PROVE Unstarted'
  <2>1. /\ UNCHANGED <<tasks, req>> /\ \A x \in Tasks : x # t => task'[x] = task[x]
        /\ adrift' = {} \/ CancelLost(t)
    BY <1>4, TaskStepIs DEF Unstarted
  <2>2. ~CancelLost(t)
    BY DEF CancelLost, Unstarted
  <2>3. \A x \in Tasks : (Unfinished(x)' => Unfinished(x)) /\ ~task'[x].cancelled
    BY <1>4, <2>1, TaskStepLoops DEF Unfinished, Unstarted
  <2>4. \A s \in Sessions : IsRunning(s)' => IsRunning(s)
    BY <2>1, <2>3 DEF IsRunning, IInv, TypeOK
  <2> QED
    BY <2>1, <2>2, <2>3, <2>4, HeldRows DEF Unstarted
<1>5. ASSUME NEW r \in Requests, NEW u \in Users, NEW op \in Activations,
             NEW syms \in SUBSET Symbols, TakeLock(r, u, op, syms)
      PROVE  Unstarted'
  <2>1. req' = [req EXCEPT ![r] = req'[r]] /\ req'[r].targets = {}
    BY <1>5, TakeLockRequest
  <2>2. UNCHANGED <<tasks, task, adrift>>
    BY <1>5, QuietHandlers
  <2> QED
    BY <1>2, <2>1, <2>2
<1>6. ASSUME NEW r \in Requests, NEW op \in Endpoints, NEW s \in Sessions,
             NEW sym \in Symbols \cup {NoSymbol}, NEW want \in Statuses \cup {"keep"},
             ReadRows(r, op, s, want, sym)
      PROVE  FALSE
  BY <1>6 DEF ReadRows
<1>7. ASSUME NEW r \in Requests, CheckSymbol(r) PROVE Unstarted'
  <2>1. /\ req' = [req EXCEPT ![r] = req'[r]]
        /\ \/ req'[r] = Free \/ req'[r].targets = req[r].targets
           \/ \E s \in Sessions : Fresh(s) /\ req'[r].targets = req[r].targets \cup {s}
    BY <1>7, CheckSymbolRequest
  <2>2. UNCHANGED <<tasks, task, adrift>>
    BY <1>7, QuietHandlers
  <2> QED
    BY <1>2, <2>1, <2>2, FreePlanned DEF Fresh
<1>8. ASSUME NEW r \in Requests, ActivateRefused(r) \/ CommitFails(r) PROVE Unstarted'
  <2>1. req' = [req EXCEPT ![r] = req'[r]] /\ req'[r].targets = {}
    BY <1>8, AbortRequest, FreePlanned DEF ActivateRefused, CommitFails, IInv
  <2>2. UNCHANGED <<tasks, task, adrift>>
    BY <1>8, QuietHandlers
  <2> QED
    BY <1>2, <2>1, <2>2
<1>9. ASSUME NEW r \in Requests, Act(r) PROVE FALSE
  BY <1>9, ActRequest DEF Planned, FollowsPlan
<1>10. ASSUME NEW r \in Requests, Commit(r) PROVE Unstarted'
  <2>1. /\ req' = [req EXCEPT ![r] = req'[r]]
        /\ req'[r].targets = {} \/ req'[r].targets = req[r].targets
    BY <1>10, CommitRequest, FreePlanned
  <2>2. UNCHANGED <<tasks, task, adrift>>
    BY <1>10 DEF Commit, registry
  <2> QED
    BY <1>2, <2>1, <2>2
<1>11. ASSUME NEW r \in Requests, StartOne(r) PROVE Unstarted'
  <2>1. PICK s \in req[r].targets, t \in Tasks : StartsOne(r, s, t)
    BY <1>11, StartOneIs
  <2>2. /\ req' = [req EXCEPT ![r] = req'[r]] /\ req'[r].targets = req[r].targets \ {s}
    BY <2>1, StartOneRequest
  <2>3. /\ adrift' = {} /\ s \in Sessions /\ ~IsRunning(s)
        /\ task'[t] = At(s, "created", "none")
        /\ tasks' = [tasks EXCEPT ![s] = t] /\ \A y \in Sessions : tasks[y] # t
        /\ \A x \in Tasks : x # t => (tasks[s] # x \/ ~Unfinished(x) => task'[x] = task[x])
    BY <2>1 DEF StartsOne, Unstarted, Available, Registered
  <2>4. \A x \in Tasks : x # t => task'[x] = task[x]
    BY <2>3, AbsentAssumption DEF IsRunning
  <2>5. \A x \in Tasks : ~task'[x].cancelled
    BY <2>3, <2>4, RecordFields DEF Unstarted
  <2>6. ASSUME NEW x \in Requests, NEW y \in req'[x].targets PROVE ~IsRunning(y)'
    <3>1. y \in req[x].targets /\ y # s /\ y \in Sessions
      <4>1. CASE x = r
        BY <2>2, <2>6, <4>1, HeldRows
      <4>2. CASE x # r
        BY <2>2, <2>6, <4>2, HeldRows DEF NoSharedRow, IInv, TypeOK
      <4> QED
        BY <4>1, <4>2
    <3>2. tasks'[y] = tasks[y] /\ tasks[y] # t /\ ~IsRunning(y)
          /\ tasks[y] \in Tasks \cup {NoTask}
      BY <2>3, <3>1 DEF Unstarted, IInv, TypeOK
    <3> QED
      BY <2>4, <3>2 DEF IsRunning, Unfinished
  <2> QED
    BY <2>3, <2>5, <2>6 DEF Unstarted
<1>12. ASSUME NEW rotated \in BOOLEAN, Restart(rotated) PROVE Unstarted'
  <2>1. \A t \in Tasks : ~task'[t].cancelled
    BY <1>12, RestartIs, RecordFields DEF Finished
  <2>2. adrift' = {} /\ \A r \in Requests : req'[r].targets = {}
    BY <1>12, RestartIs, FreePlanned
  <2> QED
    BY <2>1, <2>2 DEF Unstarted
<1>13. ASSUME NEW s \in Sessions, TokenExpires(s) PROVE UNCHANGED <<tasks, task, adrift, req>>
  BY <1>13 DEF TokenExpires, registry
<1>14. UNCHANGED vars => UNCHANGED <<tasks, task, adrift, req>>
  BY DEF vars
<1> QED
  BY <1>3, <1>4, <1>5, <1>6, <1>7, <1>8, <1>9, <1>10, <1>11, <1>12, <1>13, <1>14 DEF Next

(* The lock of the activations is enough among themselves: any number of   *)
(* POST /activate and /activate-all of any users in flight at once.        *)
THEOREM ActivationsAreUnique ==
  ASSUME Endpoints \subseteq Activations
  PROVE  Spec => []UniqueLive
<1>1. OnlyActivationsMakeLive
  BY DEF OnlyActivationsMakeLive
<1>2. Spec /\ []NoSharedRow /\ [](adrift = {}) => []UniqueLive
  BY <1>1, UniqueLiveCorrect
<1>3. Init => NoSharedRow
  BY FreePlanned DEF Init, NoSharedRow
<1>4. Init => Unstarted
  <2>1. ~Finished.cancelled
    BY DEF Finished, At
  <2> QED
    BY <2>1, FreePlanned DEF Init, Unstarted
<1>5. IInv /\ Planned /\ NoSharedRow /\ [Next]_vars => NoSharedRow'
  BY NextDistinct
<1>6. IInv /\ Decided /\ Planned /\ NoSharedRow /\ Unstarted /\ [Next]_vars => Unstarted'
  BY NextUnstarted
<1>7. Unstarted => adrift = {}
  BY DEF Unstarted
<1> QED
  BY <1>2, <1>3, <1>4, <1>5, <1>6, <1>7, Inductive, DecidedCorrect, PlannedCorrect, PTL
     DEF Spec

=============================================================================
