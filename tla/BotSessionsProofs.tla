------------------------- MODULE BotSessionsProofs -------------------------
(***************************************************************************)
(* What the registry and the handlers of BotSessions guarantee for any     *)
(* number of sessions, users, symbols, tasks and requests, any set of      *)
(* endpoints, and database failures allowed.                               *)
(*                                                                         *)
(* The inductive invariant is TypeOK with four parts:                      *)
(*   Writing     a commit in flight knows its status and what follows it;  *)
(*   RegistryOK  an unfinished task without a cancel on its way is the one *)
(*               its session's registry entry names or one adrift, and the *)
(*               other way round a registered task has no cancel pending;  *)
(*   RowsExist   the rows requests and tasks hold are committed, except    *)
(*               those an activation is about to insert;                   *)
(*   IndexMatchesRegistry, which is inductive as it stands.                *)
(***************************************************************************)
EXTENDS BotSessions, TLAPS

Writing ==
  /\ \A t \in Tasks : task[t].pc = "writing" =>
       task[t].want # "none" /\ task[t].after # "none"
  /\ \A r \in Requests : req[r].pc # "free" => req[r].want # "none"
  /\ \A r \in Requests : req[r].pc = "checking" => req[r].want = "active"

RegistryOK ==
  \A t \in Tasks : Unfinished(t) =>
    /\ task[t].sid \in Sessions
    /\ ~task[t].cancelled => tasks[task[t].sid] = t \/ t \in adrift
    /\ \A s \in Sessions : tasks[s] = t => task[t].sid = s /\ ~task[t].cancelled

RowsExist ==
  /\ StartedAfterCommit
  /\ \A r \in Requests : \A s \in req[r].targets :
       \/ status[s] # "absent"
       \/ /\ req[r].pc \in {"checking", "acted"}
          /\ req[r].seen[s] = "absent" /\ req[r].want = "active"

IInv == TypeOK /\ Writing /\ RegistryOK /\ RowsExist /\ IndexMatchesRegistry

-----------------------------------------------------------------------------
LEMMA InitIInv == Init => IInv
<1> SUFFICES ASSUME Init PROVE IInv
  OBVIOUS
<1> USE DEF Init, Finished, At, Free
<1>1. TypeOK
  BY DEF TypeOK, Statuses, Live, TokenKinds, RowStatuses,
     TaskRecords, RequestRecords
<1>2. Writing /\ RegistryOK /\ RowsExist
  BY DEF Writing, RegistryOK, RowsExist, StartedAfterCommit, Unfinished
<1>3. IndexMatchesRegistry
  BY DEF IndexMatchesRegistry
<1> QED
  BY <1>1, <1>2, <1>3 DEF IInv

-----------------------------------------------------------------------------
(* A step of one task that leaves its session alone, and its cancelled flag*)
(* unless the cancel is lost, or ends it, and makes no row disappear.      *)
LEMMA TaskMoves ==
  ASSUME IInv,
         NEW t \in Tasks, NEW k \in TaskRecords,
         task' = [task EXCEPT ![t] = k],
         k.pc # "done" => /\ Unfinished(t)
                          /\ k.sid = task[t].sid
                          /\ \/ k.cancelled = task[t].cancelled
                             \/ task[t].cancelled /\ t \in adrift'
                          /\ t \in adrift => t \in adrift',
         adrift' \subseteq Tasks,
         \A x \in Tasks : x # t /\ x \in adrift => x \in adrift',
         k.pc = "writing" => k.want # "none" /\ k.after # "none",
         status' \in [Sessions -> Statuses \cup {"absent"}],
         \A s \in Sessions : status[s] # "absent" => status'[s] # "absent",
         UNCHANGED <<symbol, token, tasks, userSessions, lock, req>>
  PROVE  IInv'
<1> USE DEF IInv
<1>1. TypeOK'
  BY DEF TypeOK
<1>2. Writing'
  BY DEF TypeOK, Writing
<1>3. RegistryOK'
  BY DEF TypeOK, RegistryOK, Unfinished
<1>4. RowsExist'
  <2>1. StartedAfterCommit'
    <3> SUFFICES ASSUME NEW x \in Tasks, Unfinished(x)'
                 PROVE  (status[task[x].sid] # "absent")'
      BY DEF StartedAfterCommit
    <3>1. Unfinished(x) /\ task'[x].sid = task[x].sid /\ task[x].sid \in Sessions
      BY DEF Unfinished, RegistryOK, TypeOK
    <3> QED
      BY <3>1 DEF RowsExist, StartedAfterCommit
  <2> QED
    BY <2>1 DEF RowsExist, TypeOK, RequestRecords
<1>5. IndexMatchesRegistry'
  BY DEF IndexMatchesRegistry
<1> QED
  BY <1>1, <1>2, <1>3, <1>4, <1>5

(* A step of a handler that leaves the registry alone.                     *)
LEMMA RequestMoves ==
  ASSUME IInv,
         NEW r \in Requests, NEW q \in RequestRecords,
         req' = [req EXCEPT ![r] = q],
         q.pc # "free" => q.want # "none",
         q.pc = "checking" => q.want = "active",
         status' \in [Sessions -> Statuses \cup {"absent"}],
         \A s \in Sessions : status[s] # "absent" => status'[s] # "absent",
         \A s \in q.targets :
           \/ status'[s] # "absent"
           \/ q.pc \in {"checking", "acted"} /\ q.seen[s] = "absent" /\ q.want = "active",
         symbol' \in [Sessions -> Symbols \cup {NoSymbol}],
         token' \in [Sessions -> TokenKinds],
         lock' \in [Users -> Requests \cup {NoRequest}],
         UNCHANGED registry
  PROVE  IInv'
<1> USE DEF IInv, registry
<1>1. TypeOK'
  BY DEF TypeOK
<1>2. Writing'
  BY DEF TypeOK, Writing
<1>3. RegistryOK'
  BY DEF TypeOK, RegistryOK, Unfinished
<1>4. RowsExist'
  <2>1. StartedAfterCommit'
    BY DEF RowsExist, StartedAfterCommit, RegistryOK, Unfinished, TypeOK
  <2>2. ASSUME NEW x \in Requests, NEW s \in req'[x].targets
        PROVE  \/ status'[s] # "absent"
               \/ /\ req'[x].pc \in {"checking", "acted"}
                  /\ req'[x].seen[s] = "absent" /\ req'[x].want = "active"
    <3>1. CASE x = r
      BY <3>1, <2>2 DEF TypeOK
    <3>2. CASE x # r
      BY <3>2, <2>2 DEF TypeOK, RowsExist, RequestRecords
    <3> QED
      BY <3>1, <3>2
  <2> QED
    BY <2>1, <2>2 DEF RowsExist
<1>5. IndexMatchesRegistry'
  BY DEF IndexMatchesRegistry
<1> QED
  BY <1>1, <1>2, <1>3, <1>4, <1>5

-----------------------------------------------------------------------------
(* Every step of a task's own code                                         *)

LEMMA WrittenExists ==
  ASSUME NEW s, NEW seen, NEW want, TypeOK, s \in Sessions,
         want \in Statuses \cup {"keep"}
  PROVE  /\ Written(want, seen, s) \in Statuses \cup {"absent"}
         /\ status[s] # "absent" => Written(want, seen, s) # "absent"
         /\ want = "active" /\ seen = "absent" => Written(want, seen, s) = "active"
BY DEF Written, TypeOK, Statuses, Live

LEMMA TaskRecordTypes ==
  /\ Finished \in TaskRecords
  /\ \A s \in Sessions :
       /\ Unwinding(s) \in TaskRecords
       /\ \A seen \in RowStatuses :
            /\ \A pc \in {"created", "idle", "loaded", "trading", "draining"} :
                 At(s, pc, seen) \in TaskRecords
            /\ \A want \in Statuses,
                  after \in {"idle", "loaded", "trading", "draining", "done"} :
                 Committing(s, seen, want, after) \in TaskRecords
BY DEF Finished, At, Committing, Unwinding, TaskRecords, RowStatuses

(* A step of an uncancelled task that leaves the rows alone                *)
LEMMA TickMoves ==
  ASSUME IInv, NEW t \in Tasks, NEW k,
         Unfinished(t), ~task[t].cancelled, Becomes(t, k), TaskOnly,
         \/ k = Finished
         \/ \E pc \in {"created", "idle", "loaded", "trading", "draining"},
               seen \in RowStatuses : k = At(task[t].sid, pc, seen)
         \/ \E want \in Statuses, seen \in RowStatuses,
               after \in {"idle", "loaded", "trading", "draining", "done"} :
              k = Committing(task[t].sid, seen, want, after)
  PROVE  IInv'
<1>1. task[t].sid \in Sessions
  BY DEF IInv, RegistryOK
<1>2. k \in TaskRecords
  BY <1>1, TaskRecordTypes
<1>3. k.pc # "done" => /\ Unfinished(t)
                       /\ k.sid = task[t].sid
                       /\ k.cancelled = task[t].cancelled
  <2>1. task[t].cancelled = FALSE
    BY DEF IInv, TypeOK, TaskRecords
  <2>2. CASE k = Finished
    BY <2>2 DEF Finished, At
  <2>3. CASE \E pc \in {"created", "idle", "loaded", "trading", "draining"},
               seen \in RowStatuses : k = At(task[t].sid, pc, seen)
    <3>1. PICK pc \in {"created", "idle", "loaded", "trading", "draining"},
                seen \in RowStatuses : k = At(task[t].sid, pc, seen)
      BY <2>3
    <3>2. k.sid = task[t].sid /\ k.cancelled = FALSE
      BY <3>1 DEF At
    <3> QED
      BY <2>1, <3>2
  <2>4. CASE \E want \in Statuses, seen \in RowStatuses,
               after \in {"idle", "loaded", "trading", "draining", "done"} :
              k = Committing(task[t].sid, seen, want, after)
    <3>1. PICK want \in Statuses, seen \in RowStatuses,
               after \in {"idle", "loaded", "trading", "draining", "done"} :
              k = Committing(task[t].sid, seen, want, after)
      BY <2>4
    <3>2. k.sid = task[t].sid /\ k.cancelled = FALSE
      BY <3>1 DEF Committing
    <3> QED
      BY <2>1, <3>2
  <2> QED
    BY <2>2, <2>3, <2>4
<1>4. k.pc = "writing" => k.want # "none" /\ k.after # "none"
  BY DEF Finished, At, Committing, Statuses, Live
<1>5. UNCHANGED <<status, symbol, token, tasks, userSessions, adrift, lock, req>>
      /\ status' \in [Sessions -> Statuses \cup {"absent"}] /\ adrift' \subseteq Tasks
  BY DEF TaskOnly, RowsAndHandlers, rows, IInv, TypeOK
<1> QED
  BY <1>2, <1>3, <1>4, <1>5, TaskMoves DEF Becomes

LEMMA TaskStepIInv ==
  ASSUME IInv, NEW t \in Tasks, TaskStep(t) \/ FeedEnds(t)
  PROVE  IInv'
<1> DEFINE s == task[t].sid
<1>1. task[t] \in TaskRecords /\ task[t].seen \in RowStatuses
  BY DEF IInv, TypeOK, TaskRecords
<1>2. Unfinished(t) => s \in Sessions /\ status[s] \in RowStatuses
  BY DEF IInv, TypeOK, RegistryOK, RowStatuses
<1>3. "none" \in RowStatuses /\ "paused" \in RowStatuses
      /\ {"active", "halted", "paused", "error"} \subseteq Statuses
  BY DEF RowStatuses, Statuses, Live
<1>4. CASE TaskBegin(t)
  <2>1. Unfinished(t) /\ ~task[t].cancelled /\ TaskOnly
    BY <1>4 DEF TaskBegin, Runs, Unfinished
  <2>2. \/ Becomes(t, Committing(s, status[s], "error", "done"))
        \/ Becomes(t, At(s, "idle", "none"))
    BY <1>4 DEF TaskBegin, EndTick
  <2> QED
    BY <1>2, <1>3, <2>1, <2>2, TickMoves
<1>5. CASE TaskBeginFails(t)
  BY <1>5, TickMoves DEF TaskBeginFails, Runs, Unfinished
<1>6. CASE TickLoad(t)
  <2>1. Unfinished(t) /\ ~task[t].cancelled /\ TaskOnly
    BY <1>6 DEF TickLoad, Runs, Unfinished
  <2>2. \/ Becomes(t, At(s, "draining", "none"))
        \/ Becomes(t, Committing(s, "paused", "active", "loaded"))
        \/ Becomes(t, At(s, "loaded", status[s]))
    BY <1>6 DEF TickLoad
  <2> QED
    BY <1>2, <1>3, <2>1, <2>2, TickMoves
<1>7. CASE \/ HaltDetected(t) \/ HaltCleared(t) \/ HaltCheckFails(t)
           \/ BrokerRejectsToken(t) \/ RiskPause(t) \/ TickEnds(t)
  <2>1. Unfinished(t) /\ ~task[t].cancelled /\ TaskOnly
    BY <1>7 DEF HaltDetected, HaltCleared, HaltCheckFails, BrokerRejectsToken,
         RiskPause, TickEnds, Runs, Unfinished
  <2>2. \/ Becomes(t, At(s, "idle", "none"))
        \/ Becomes(t, At(s, "trading", task[t].seen))
        \/ Becomes(t, Committing(s, task[t].seen, "halted", "idle"))
        \/ Becomes(t, Committing(s, task[t].seen, "active", "trading"))
        \/ Becomes(t, Committing(s, task[t].seen, "error", "draining"))
        \/ Becomes(t, Committing(s, task[t].seen, "paused", "idle"))
    BY <1>7 DEF HaltDetected, HaltCleared, HaltCheckFails, BrokerRejectsToken,
         RiskPause, TickEnds, EndTick, Goto, Write
  <2> QED
    BY <1>1, <1>3, <2>1, <2>2, TickMoves
<1>8. CASE TickCommit(t)
  <2>1. /\ Unfinished(t) /\ ~task[t].cancelled
        /\ task[t].want \in Statuses
        /\ task[t].after \in {"idle", "loaded", "trading", "draining", "done"}
    BY <1>1, <1>8 DEF TickCommit, Runs, Unfinished, IInv, Writing, TaskRecords
  <2> DEFINE k == AfterWrite(task[t])
  <2>2. \/ k = Finished
        \/ \E pc \in {"idle", "loaded", "trading", "draining"}, seen \in RowStatuses :
             k = At(s, pc, seen)
    <3>1. task[t].want \in RowStatuses
      BY <2>1 DEF RowStatuses
    <3>2. CASE task[t].after = "done"
      BY <3>2 DEF AfterWrite
    <3>3. CASE task[t].after \in {"loaded", "trading"}
      BY <3>1, <3>3 DEF AfterWrite
    <3>4. CASE task[t].after \in {"idle", "draining"}
      BY <1>3, <3>4 DEF AfterWrite
    <3> QED
      BY <2>1, <3>2, <3>3, <3>4
  <2> HIDE DEF k
  <2>3. k \in TaskRecords /\ k.pc # "writing"
        /\ (k.pc # "done" => k.sid = task[t].sid /\ k.cancelled = task[t].cancelled)
    <3>1. k \in TaskRecords
      BY <1>2, <2>1, <2>2, TaskRecordTypes
    <3>2. k.pc # "writing" /\ (k.pc # "done" => k.sid = s /\ k.cancelled = FALSE)
      BY <2>2 DEF Finished, At
    <3> QED
      BY <1>1, <2>1, <3>1, <3>2 DEF TaskRecords
  <2>4. /\ status' \in [Sessions -> Statuses \cup {"absent"}]
        /\ \A x \in Sessions : status[x] # "absent" => status'[x] # "absent"
    BY <1>2, <1>8, <2>1, WrittenExists DEF TickCommit, IInv, TypeOK
  <2>5. task' = [task EXCEPT ![t] = k]
        /\ UNCHANGED <<symbol, token, tasks, userSessions, adrift, lock, req>>
        /\ adrift' \subseteq Tasks
    BY <1>8 DEF TickCommit, Becomes, k, IInv, TypeOK
  <2> QED
    BY <2>1, <2>3, <2>4, <2>5, TaskMoves
<1>9. CASE TickCommitFails(t)
  <2>1. Unfinished(t) /\ ~task[t].cancelled /\ TaskOnly
    BY <1>9 DEF TickCommitFails, Runs, Unfinished
  <2>2. Becomes(t, Finished) \/ Becomes(t, At(s, "idle", "none"))
    BY <1>9 DEF TickCommitFails, EndTick
  <2> QED
    BY <1>3, <2>1, <2>2, TickMoves
<1>10. CASE TaskUnwinds(t) \/ FeedEnds(t)
  <2> DEFINE k == task'[t]
  <2>1. Unfinished(t) /\ UNCHANGED RowsAndHandlers
    BY <1>10 DEF TaskUnwinds, FeedEnds, Unfinished, TaskOnly
  <2>2. /\ task' = [task EXCEPT ![t] = k]
        /\ \/ k = Finished
           \/ k = Unwinding(s) /\ task[t].cancelled /\ adrift' = adrift
        /\ adrift' = adrift \/ adrift' = adrift \ {t}
    BY <1>10 DEF TaskUnwinds, FeedEnds, Becomes, TaskOnly, IInv, TypeOK
  <2> HIDE DEF k
  <2>3. k \in TaskRecords
    BY <1>2, <2>1, <2>2, TaskRecordTypes
  <2>4. /\ k.pc # "writing"
        /\ k.pc # "done" => /\ k.sid = s
                            /\ k.cancelled = task[t].cancelled
                            /\ adrift' = adrift
    <3>1. CASE k = Finished
      BY <3>1 DEF Finished, At
    <3>2. CASE k = Unwinding(s) /\ task[t].cancelled /\ adrift' = adrift
      <4>1. task[t].cancelled = TRUE
        BY <1>1, <3>2 DEF TaskRecords
      <4> QED
        BY <3>2, <4>1 DEF Unwinding
    <3> QED
      BY <2>2, <3>1, <3>2
  <2>5. /\ UNCHANGED <<status, symbol, token, tasks, userSessions, lock, req>>
        /\ status' \in [Sessions -> Statuses \cup {"absent"}]
        /\ adrift' \subseteq Tasks
    BY <2>1, <2>2 DEF RowsAndHandlers, rows, IInv, TypeOK
  <2> QED
    BY <2>1, <2>2, <2>3, <2>4, <2>5, TaskMoves
<1>11. CASE CancelLost(t)
  <2> DEFINE k == At(s, "idle", "none")
  <2>1. Unfinished(t) /\ task[t].cancelled /\ adrift' = adrift \cup {t}
        /\ UNCHANGED RowsAndHandlers /\ task' = [task EXCEPT ![t] = k]
    BY <1>11 DEF CancelLost, EndTick, Becomes, Unfinished
  <2>2. k \in TaskRecords /\ k.pc = "idle" /\ k.sid = s
    BY <1>2, <1>3, <2>1, TaskRecordTypes DEF At
  <2> HIDE DEF k
  <2>3. /\ UNCHANGED <<status, symbol, token, tasks, userSessions, lock, req>>
        /\ status' \in [Sessions -> Statuses \cup {"absent"}]
        /\ adrift' \subseteq Tasks
    BY <2>1 DEF RowsAndHandlers, rows, IInv, TypeOK
  <2> QED
    BY <2>1, <2>2, <2>3, TaskMoves
<1> QED
  BY <1>4, <1>5, <1>6, <1>7, <1>8, <1>9, <1>10, <1>11 DEF TaskStep

-----------------------------------------------------------------------------
(* Every step of a handler                                                 *)

LEMMA FreeType == Free \in RequestRecords
BY DEF Free, RequestRecords, RowStatuses

LEMMA LockTypes ==
  ASSUME TypeOK, NEW r \in Requests
  PROVE  /\ Unlocked(r) => lock' \in [Users -> Requests \cup {NoRequest}]
         /\ \A u \in Users : [lock EXCEPT ![u] = r] \in [Users -> Requests \cup {NoRequest}]
         /\ UNCHANGED lock => lock' \in [Users -> Requests \cup {NoRequest}]
BY DEF Unlocked, TypeOK

(* The rows a request holds, and what the invariant says of them           *)
LEMMA HeldRows ==
  ASSUME IInv, NEW r \in Requests
  PROVE  /\ req[r] \in RequestRecords
         /\ \A s \in req[r].targets :
              /\ s \in Sessions
              /\ \/ status[s] # "absent"
                 \/ /\ req[r].pc \in {"checking", "acted"}
                    /\ req[r].seen[s] = "absent" /\ req[r].want = "active"
         /\ req[r].pc # "free" => req[r].want # "none"
         /\ req[r].pc = "checking" => req[r].want = "active"
BY DEF IInv, TypeOK, RequestRecords, RowsExist, Writing

LEMMA AbortIInv ==
  ASSUME IInv, NEW r \in Requests, Abort(r)
  PROVE  IInv'
<1>1. /\ req' = [req EXCEPT ![r] = Free]
      /\ Free.pc = "free" /\ Free.targets = {}
      /\ lock' \in [Users -> Requests \cup {NoRequest}]
  BY LockTypes DEF Abort, Freed, Free, IInv
<1>2. /\ status' \in [Sessions -> Statuses \cup {"absent"}]
      /\ symbol' \in [Sessions -> Symbols \cup {NoSymbol}]
      /\ token' \in [Sessions -> TokenKinds]
      /\ UNCHANGED registry /\ UNCHANGED status
  BY DEF Abort, rows, IInv, TypeOK
<1> QED
  BY <1>1, <1>2, FreeType, RequestMoves

LEMMA TakeLockIInv ==
  ASSUME IInv, NEW r \in Requests, NEW u \in Users, NEW op \in Activations,
         NEW syms \in SUBSET Symbols, TakeLock(r, u, op, syms)
  PROVE  IInv'
<1> DEFINE q == [Free EXCEPT !.pc = "checking", !.op = op,
                             !.todo = syms, !.want = "active"]
<1>1. /\ q \in RequestRecords /\ q.pc = "checking" /\ q.want = "active"
      /\ q.targets = {}
  BY FreeType DEF TakeLock, Free, RequestRecords, Statuses, Live
<1>2. req' = [req EXCEPT ![r] = q] /\ lock' \in [Users -> Requests \cup {NoRequest}]
  BY LockTypes DEF TakeLock, IInv
<1>3. /\ status' \in [Sessions -> Statuses \cup {"absent"}]
      /\ symbol' \in [Sessions -> Symbols \cup {NoSymbol}]
      /\ token' \in [Sessions -> TokenKinds]
      /\ UNCHANGED registry /\ UNCHANGED status
  BY DEF TakeLock, rows, IInv, TypeOK
<1> HIDE DEF q
<1> QED
  BY <1>1, <1>2, <1>3, RequestMoves

LEMMA ReadRowsIInv ==
  ASSUME IInv, NEW r \in Requests, NEW op \in Endpoints, NEW s0 \in Sessions,
         NEW sym \in Symbols \cup {NoSymbol}, NEW want \in Statuses \cup {"keep"},
         ReadRows(r, op, s0, want, sym)
  PROVE  IInv'
<1> DEFINE S == Selected(op, s0)
           seen == [s \in Sessions |-> IF s \in S THEN status[s] ELSE "none"]
           q == [Free EXCEPT !.pc = "read", !.op = op, !.targets = S,
                             !.seen = seen, !.want = want, !.newSymbol = sym]
<1>1. S \subseteq Sessions /\ \A s \in S : status[s] # "absent"
  BY DEF Selected
<1>2. seen \in [Sessions -> RowStatuses]
  BY DEF IInv, TypeOK, RowStatuses
<1>3. req' = [req EXCEPT ![r] = q]
  BY DEF ReadRows
<1> HIDE DEF S, seen
<1>4. q \in RequestRecords /\ q.pc = "read" /\ q.want = want /\ q.targets = S
  BY <1>1, <1>2, FreeType DEF Free, RequestRecords
<1> HIDE DEF q
<1>5. /\ status' \in [Sessions -> Statuses \cup {"absent"}]
      /\ symbol' \in [Sessions -> Symbols \cup {NoSymbol}]
      /\ token' \in [Sessions -> TokenKinds]
      /\ lock' \in [Users -> Requests \cup {NoRequest}]
      /\ UNCHANGED registry /\ UNCHANGED status
  BY DEF ReadRows, rows, IInv, TypeOK
<1>6. want # "none"
  BY DEF Statuses, Live
<1> QED
  BY <1>1, <1>3, <1>4, <1>5, <1>6, RequestMoves

LEMMA CheckSymbolIInv ==
  ASSUME IInv, NEW r \in Requests, CheckSymbol(r)
  PROVE  IInv'
<1>1. PICK u \in Held(r), sym \in req[r].todo :
        \/ DuplicateFound(r, u, sym)
        \/ \E s \in Sessions, kind \in NewTokens : AddSession(r, s, sym, kind)
  BY DEF CheckSymbol
<1>2. /\ req[r].pc = "checking" /\ req[r].want = "active"
      /\ req[r] \in RequestRecords /\ sym \in Symbols
  BY HeldRows DEF CheckSymbol, RequestRecords
<1> DEFINE pc == IF req[r].todo = {sym} THEN "acted" ELSE req[r].pc
<1>3. pc \in {"checking", "acted"}
  BY <1>2
<1>4. CASE DuplicateFound(r, u, sym)
  <2>1. CASE Abort(r)
    BY <2>1, AbortIInv
  <2>2. CASE ~Abort(r)
    <3> DEFINE q == [req[r] EXCEPT !.todo = @ \ {sym}, !.pc = pc]
    <3>1. req' = [req EXCEPT ![r] = q]
      BY <1>4, <2>2 DEF DuplicateFound, IInv, TypeOK
    <3>2. /\ q \in RequestRecords /\ q.pc = pc /\ q.want = "active"
          /\ q.targets = req[r].targets /\ q.seen = req[r].seen
      BY <1>2, <1>3 DEF RequestRecords
    <3>3. /\ status' \in [Sessions -> Statuses \cup {"absent"}]
          /\ symbol' \in [Sessions -> Symbols \cup {NoSymbol}]
          /\ token' \in [Sessions -> TokenKinds]
          /\ lock' \in [Users -> Requests \cup {NoRequest}]
          /\ UNCHANGED registry /\ UNCHANGED status
      BY <1>4, <2>2 DEF DuplicateFound, rows, IInv, TypeOK
    <3> HIDE DEF q, pc
    <3>4. \A x \in q.targets :
            status'[x] # "absent" \/ (q.seen[x] = "absent" /\ q.want = "active")
      BY <3>2, <3>3, HeldRows
    <3> QED
      BY <1>3, <3>1, <3>2, <3>3, <3>4, RequestMoves
  <2> QED
    BY <2>1, <2>2
<1>5. ASSUME NEW s \in Sessions, NEW kind \in NewTokens, AddSession(r, s, sym, kind)
      PROVE  IInv'
  <2> DEFINE q == [req[r] EXCEPT !.targets = @ \cup {s}, !.seen[s] = "absent",
                                 !.todo = @ \ {sym}, !.pc = pc]
  <2>1. req' = [req EXCEPT ![r] = q]
    BY <1>5 DEF AddSession, IInv, TypeOK
  <2>2. /\ q \in RequestRecords /\ q.pc = pc /\ q.want = "active"
        /\ q.targets = req[r].targets \cup {s}
        /\ q.seen = [req[r].seen EXCEPT ![s] = "absent"]
    BY <1>2, <1>3 DEF RequestRecords, RowStatuses
  <2> HIDE DEF q, pc
  <2>3. ASSUME NEW x \in q.targets
        PROVE  status[x] # "absent" \/ (q.seen[x] = "absent" /\ q.want = "active")
    <3>1. CASE x = s
      BY <1>2, <2>2, <3>1 DEF RequestRecords
    <3>2. CASE x # s
      BY <1>2, <2>2, <3>2, HeldRows DEF RequestRecords
    <3> QED
      BY <3>1, <3>2
  <2>4. /\ status' \in [Sessions -> Statuses \cup {"absent"}]
        /\ symbol' \in [Sessions -> Symbols \cup {NoSymbol}]
        /\ token' \in [Sessions -> TokenKinds]
        /\ lock' \in [Users -> Requests \cup {NoRequest}]
        /\ UNCHANGED registry /\ UNCHANGED status
    BY <1>2, <1>5, NewTokensAssumption DEF AddSession, IInv, TypeOK, TokenKinds
  <2> QED
    BY <1>3, <2>1, <2>2, <2>3, <2>4, RequestMoves
<1> QED
  BY <1>1, <1>4, <1>5

LEMMA CommitIInv ==
  ASSUME IInv, NEW r \in Requests, Commit(r)
  PROVE  IInv'
<1> DEFINE q == IF Plan[req[r].op].start /\ req[r].targets # {}
                THEN [req[r] EXCEPT !.pc = "starting"] ELSE Free
<1>1. /\ req[r].pc = "acted" /\ req[r] \in RequestRecords
      /\ req[r].want \in Statuses \cup {"keep"}
  BY HeldRows DEF Commit, RequestRecords
<1>2. req' = [req EXCEPT ![r] = q]
  BY DEF Commit, IInv, TypeOK
<1>3. q = Free \/ q = [req[r] EXCEPT !.pc = "starting"]
  OBVIOUS
<1> HIDE DEF q
<1>4. /\ q \in RequestRecords /\ q.pc \in {"free", "starting"}
      /\ q.targets \subseteq req[r].targets
      /\ q.pc # "free" => q.want # "none"
  <2>1. CASE q = Free
    BY <2>1, FreeType DEF Free
  <2>2. CASE q = [req[r] EXCEPT !.pc = "starting"]
    BY <1>1, <2>2, HeldRows DEF RequestRecords
  <2> QED
    BY <1>3, <2>1, <2>2
<1>5. \A s \in Sessions : status'[s] =
        IF s \in req[r].targets THEN Written(req[r].want, req[r].seen[s], s)
                                ELSE status[s]
  BY DEF Commit
<1>6. \A s \in Sessions : status[s] # "absent" => status'[s] # "absent"
  BY <1>1, <1>5, WrittenExists DEF IInv
<1>7. \A s \in req[r].targets : status'[s] # "absent"
  BY <1>1, <1>5, <1>6, WrittenExists, HeldRows DEF IInv
<1>8. status' \in [Sessions -> Statuses \cup {"absent"}]
  <2>1. \A s \in Sessions : status'[s] \in Statuses \cup {"absent"}
    BY <1>1, <1>5, WrittenExists DEF IInv, TypeOK
  <2>2. status' = [s \in Sessions |-> status'[s]]
    BY DEF Commit
  <2> QED
    BY <2>1, <2>2
<1>9. /\ symbol' \in [Sessions -> Symbols \cup {NoSymbol}]
      /\ token' \in [Sessions -> TokenKinds]
      /\ lock' \in [Users -> Requests \cup {NoRequest}]
      /\ UNCHANGED registry
  BY <1>1, LockTypes DEF Commit, IInv, TypeOK, RequestRecords
<1> QED
  BY <1>2, <1>4, <1>6, <1>7, <1>8, <1>9, RequestMoves

-----------------------------------------------------------------------------
(* Steps on the registry                                                   *)

LEMMA CancellingTypes ==
  ASSUME IInv, NEW S \in SUBSET Sessions
  PROVE  /\ Cancelling(S) \in [Tasks -> TaskRecords]
         /\ \A t \in Tasks :
              /\ Cancelling(S)[t].pc = task[t].pc
              /\ Cancelling(S)[t].sid = task[t].sid
              /\ Cancelling(S)[t].want = task[t].want
              /\ Cancelling(S)[t].after = task[t].after
              /\ Unfinished(t) /\ (\E s \in S : tasks[s] = t)
                   => Cancelling(S)[t].cancelled
              /\ ~(Unfinished(t) /\ \E s \in S : tasks[s] = t)
                   => Cancelling(S)[t] = task[t]
<1>1. \A t \in Tasks : task[t] \in TaskRecords
  BY DEF IInv, TypeOK
<1>2. \A t \in Tasks : [task[t] EXCEPT !.cancelled = TRUE] \in TaskRecords
  BY <1>1 DEF TaskRecords
<1> QED
  BY <1>1, <1>2 DEF Cancelling, TaskRecords

LEMMA CancelKeysIInv ==
  ASSUME IInv, NEW S \in SUBSET Sessions, CancelKeys(S),
         UNCHANGED <<rows, lock>>,
         NEW r \in Requests, NEW q \in RequestRecords, req' = [req EXCEPT ![r] = q],
         q.pc # "free" => q.want # "none", q.pc # "checking",
         q.targets \subseteq {s \in Sessions : status[s] # "absent"}
  PROVE  IInv'
<1>1. TypeOK'
  BY CancellingTypes DEF CancelKeys, rows, IInv, TypeOK
<1>2. Writing'
  BY CancellingTypes DEF CancelKeys, IInv, Writing, TypeOK
<1>3. RegistryOK'
  <2> SUFFICES ASSUME NEW t \in Tasks, Unfinished(t)'
               PROVE  (/\ task[t].sid \in Sessions
                       /\ ~task[t].cancelled => tasks[task[t].sid] = t \/ t \in adrift
                       /\ \A s \in Sessions : tasks[s] = t =>
                            task[t].sid = s /\ ~task[t].cancelled)'
    BY DEF RegistryOK
  <2>1. /\ Unfinished(t) /\ task'[t].sid = task[t].sid
        /\ (\E s \in S : tasks[s] = t) => task'[t].cancelled
        /\ ~(\E s \in S : tasks[s] = t) => task'[t] = task[t]
    BY CancellingTypes DEF CancelKeys, Unfinished
  <2>2. /\ \A s \in Sessions : tasks'[s] = IF s \in S THEN NoTask ELSE tasks[s]
        /\ adrift' = adrift
    BY DEF CancelKeys
  <2>3. /\ task[t].sid \in Sessions
        /\ ~task[t].cancelled => tasks[task[t].sid] = t \/ t \in adrift
        /\ \A s \in Sessions : tasks[s] = t => task[t].sid = s /\ ~task[t].cancelled
    BY <2>1 DEF IInv, RegistryOK
  <2>4. CASE \E s \in S : tasks[s] = t
    BY <2>1, <2>2, <2>3, <2>4, AbsentAssumption
  <2>5. CASE ~\E s \in S : tasks[s] = t
    BY <2>1, <2>2, <2>3, <2>5, AbsentAssumption
  <2> QED
    BY <2>4, <2>5
<1>4. RowsExist'
  <2>1. StartedAfterCommit'
    BY CancellingTypes DEF CancelKeys, rows, IInv, RowsExist, StartedAfterCommit,
       Unfinished
  <2>2. ASSUME NEW x \in Requests, NEW s \in req'[x].targets
        PROVE  \/ status'[s] # "absent"
               \/ /\ req'[x].pc \in {"checking", "acted"}
                  /\ req'[x].seen[s] = "absent" /\ req'[x].want = "active"
    <3>1. CASE x = r
      BY <2>2, <3>1 DEF rows, IInv, TypeOK
    <3>2. CASE x # r
      BY <2>2, <3>2 DEF rows, IInv, TypeOK, RowsExist
    <3> QED
      BY <3>1, <3>2
  <2> QED
    BY <2>1, <2>2 DEF RowsExist
<1>5. IndexMatchesRegistry'
  BY DEF CancelKeys, IInv, IndexMatchesRegistry, TypeOK
<1> QED
  BY <1>1, <1>2, <1>3, <1>4, <1>5 DEF IInv

LEMMA ActIInv ==
  ASSUME IInv, NEW r \in Requests, Act(r)
  PROVE  IInv'
<1> DEFINE q == IF Accepted(r) = {} THEN Free
                ELSE [req[r] EXCEPT !.pc = "acted", !.targets = Accepted(r)]
<1>1. req' = [req EXCEPT ![r] = q]
  BY DEF Act, IInv, TypeOK
<1>2. /\ req[r].pc = "read" /\ req[r] \in RequestRecords /\ req[r].want # "none"
      /\ Accepted(r) \subseteq {s \in Sessions : status[s] # "absent"}
  BY HeldRows DEF Act, Accepted
<1>3. q = Free \/ q = [req[r] EXCEPT !.pc = "acted", !.targets = Accepted(r)]
  OBVIOUS
<1> HIDE DEF q
<1>4. /\ q \in RequestRecords /\ q.pc \in {"free", "acted"}
      /\ q.targets \subseteq Accepted(r)
      /\ q.pc # "free" => q.want # "none"
  <2>1. CASE q = Free
    BY <2>1, FreeType DEF Free
  <2>2. CASE q = [req[r] EXCEPT !.pc = "acted", !.targets = Accepted(r)]
    BY <1>2, <2>2 DEF RequestRecords
  <2> QED
    BY <1>3, <2>1, <2>2
<1>5. CASE Plan[req[r].op].stop
  BY <1>1, <1>2, <1>4, <1>5, CancelKeysIInv DEF Act
<1>6. CASE ~Plan[req[r].op].stop
  <2>1. /\ status' \in [Sessions -> Statuses \cup {"absent"}]
        /\ symbol' \in [Sessions -> Symbols \cup {NoSymbol}]
        /\ token' \in [Sessions -> TokenKinds]
        /\ lock' \in [Users -> Requests \cup {NoRequest}]
        /\ UNCHANGED registry /\ UNCHANGED status
    BY <1>6 DEF Act, rows, IInv, TypeOK
  <2> QED
    BY <1>1, <1>2, <1>4, <2>1, RequestMoves
<1> QED
  BY <1>5, <1>6

LEMMA StartOneIInv ==
  ASSUME IInv, NEW r \in Requests, StartOne(r)
  PROVE  IInv'
<1>1. PICK s \in req[r].targets, t \in Tasks :
        /\ StartBot(s, t)
        /\ IF req[r].targets = {s}
           THEN Freed(r) /\ Unlocked(r)
           ELSE req' = [req EXCEPT ![r].targets = @ \ {s}] /\ UNCHANGED lock
  BY DEF StartOne
<1>2. /\ req[r].pc = "starting" /\ req[r] \in RequestRecords /\ req[r].want # "none"
      /\ s \in Sessions /\ status[s] # "absent"
      /\ \A x \in req[r].targets : x \in Sessions /\ status[x] # "absent"
      /\ UNCHANGED <<status, symbol, token>>
  BY HeldRows DEF StartOne, Committed, rows
<1> DEFINE new == At(s, "created", "none")
           q == IF req[r].targets = {s} THEN Free
                ELSE [req[r] EXCEPT !.targets = @ \ {s}]
<1>3. new \in TaskRecords /\ new.pc = "created" /\ new.sid = s /\ ~new.cancelled
  BY <1>2, TaskRecordTypes DEF At, RowStatuses
<1>4. /\ task' = [Cancelling({s}) EXCEPT ![t] = new]
      /\ tasks' = [tasks EXCEPT ![s] = t]
      /\ userSessions' = [userSessions EXCEPT ![Owner[s]] = @ \cup {s}]
      /\ adrift' = adrift
      /\ ~Unfinished(t) /\ \A x \in Sessions : tasks[x] # t
  BY <1>1 DEF StartBot, Available, Registered
<1> HIDE DEF new
<1>5. req' = [req EXCEPT ![r] = q] /\ lock' \in [Users -> Requests \cup {NoRequest}]
  BY <1>1, LockTypes DEF Freed, IInv, TypeOK
<1>6. q = Free \/ q = [req[r] EXCEPT !.targets = @ \ {s}]
  OBVIOUS
<1> HIDE DEF q
<1>7. /\ q \in RequestRecords /\ q.pc \in {"free", "starting"}
      /\ q.targets \subseteq req[r].targets
      /\ q.pc # "free" => q.want # "none"
  <2>1. CASE q = Free
    BY <2>1, FreeType DEF Free
  <2>2. CASE q = [req[r] EXCEPT !.targets = @ \ {s}]
    BY <1>2, <2>2 DEF RequestRecords
  <2> QED
    BY <1>6, <2>1, <2>2
<1>8. /\ task' \in [Tasks -> TaskRecords]
      /\ task'[t] = new
      /\ \A x \in Tasks : x # t => task'[x] = Cancelling({s})[x]
  BY <1>2, <1>3, <1>4, CancellingTypes
<1>9. TypeOK'
  BY <1>2, <1>4, <1>5, <1>7, <1>8, OwnerAssumption DEF IInv, TypeOK
<1>10. Writing'
  <2>1. \A x \in Tasks : task'[x].pc = "writing" =>
          task'[x].want # "none" /\ task'[x].after # "none"
    BY <1>2, <1>3, <1>8, CancellingTypes DEF IInv, Writing
  <2>2. \A x \in Requests : /\ req'[x].pc # "free" => req'[x].want # "none"
                            /\ req'[x].pc = "checking" => req'[x].want = "active"
    BY <1>5, <1>7 DEF IInv, Writing, TypeOK
  <2> QED
    BY <2>1, <2>2 DEF Writing
<1>11. RegistryOK'
  <2> SUFFICES ASSUME NEW x \in Tasks, Unfinished(x)'
               PROVE  (/\ task[x].sid \in Sessions
                       /\ ~task[x].cancelled => tasks[task[x].sid] = x \/ x \in adrift
                       /\ \A y \in Sessions : tasks[y] = x =>
                            task[x].sid = y /\ ~task[x].cancelled)'
    BY DEF RegistryOK
  <2>1. \A y \in Sessions : tasks'[y] = IF y = s THEN t ELSE tasks[y]
    BY <1>2, <1>4 DEF IInv, TypeOK
  <2>2. CASE x = t
    <3>1. task'[x].sid = s /\ ~task'[x].cancelled /\ s \in Sessions
      BY <1>2, <1>3, <1>8, <2>2
    <3>2. tasks'[s] = x /\ \A y \in Sessions : tasks'[y] = x => y = s
      BY <1>4, <2>1, <2>2, <3>1
    <3> QED
      BY <3>1, <3>2
  <2>3. CASE x # t
    <3>1. /\ Unfinished(x) /\ task'[x].sid = task[x].sid
          /\ tasks[s] = x => task'[x].cancelled
          /\ tasks[s] # x => task'[x] = task[x]
      BY <1>2, <1>8, <2>3, CancellingTypes DEF Unfinished
    <3>2. /\ task[x].sid \in Sessions
          /\ ~task[x].cancelled => tasks[task[x].sid] = x \/ x \in adrift
          /\ \A y \in Sessions : tasks[y] = x => task[x].sid = y /\ ~task[x].cancelled
      BY <3>1 DEF IInv, RegistryOK
    <3>3. CASE tasks[s] = x
      <4>1. task[x].sid = s /\ \A y \in Sessions : tasks'[y] # x
        BY <1>2, <2>1, <2>3, <3>2, <3>3
      <4> QED
        BY <3>1, <3>2, <3>3, <4>1
    <3>4. CASE tasks[s] # x
      <4>1. \A y \in Sessions : tasks'[y] = x <=> tasks[y] = x
        BY <2>1, <2>3, <3>4
      <4>2. task'[x] = task[x]
        BY <3>1, <3>4
      <4> QED
        BY <1>4, <3>2, <4>1, <4>2
    <3> QED
      BY <3>3, <3>4
  <2> QED
    BY <2>2, <2>3
<1>12. RowsExist'
  <2>1. StartedAfterCommit'
    <3> SUFFICES ASSUME NEW x \in Tasks, Unfinished(x)'
                 PROVE  status'[task'[x].sid] # "absent"
      BY DEF StartedAfterCommit
    <3>1. CASE x = t
      BY <1>2, <1>3, <1>8, <3>1
    <3>2. CASE x # t
      <4>1. Unfinished(x) /\ task'[x].sid = task[x].sid
        BY <1>2, <1>8, <3>2, CancellingTypes DEF Unfinished
      <4> QED
        BY <1>2, <4>1 DEF IInv, RowsExist, StartedAfterCommit
    <3> QED
      BY <3>1, <3>2
  <2>2. ASSUME NEW x \in Requests, NEW y \in req'[x].targets
        PROVE  \/ status'[y] # "absent"
               \/ /\ req'[x].pc \in {"checking", "acted"}
                  /\ req'[x].seen[y] = "absent" /\ req'[x].want = "active"
    <3>1. CASE x = r
      BY <1>2, <1>5, <1>7, <2>2, <3>1 DEF IInv, TypeOK
    <3>2. CASE x # r
      BY <1>2, <1>5, <2>2, <3>2 DEF IInv, TypeOK, RowsExist
    <3> QED
      BY <3>1, <3>2
  <2> QED
    BY <2>1, <2>2 DEF RowsExist
<1>13. IndexMatchesRegistry'
  BY <1>2, <1>4, OwnerAssumption, AbsentAssumption DEF IInv, IndexMatchesRegistry, TypeOK
<1> QED
  BY <1>9, <1>10, <1>11, <1>12, <1>13 DEF IInv

-----------------------------------------------------------------------------
(* The environment                                                         *)

LEMMA TokenExpiresIInv ==
  ASSUME IInv, NEW s \in Sessions, TokenExpires(s)
  PROVE  IInv'
<1>1. token' \in [Sessions -> TokenKinds]
      /\ UNCHANGED <<status, symbol, tasks, userSessions, task, adrift, lock, req>>
  BY DEF TokenExpires, registry, IInv, TypeOK, TokenKinds
<1> QED
  BY <1>1 DEF IInv, TypeOK, Writing, RegistryOK, RowsExist, StartedAfterCommit,
     Unfinished, IndexMatchesRegistry

LEMMA RestartIInv ==
  ASSUME IInv, NEW rotated \in BOOLEAN, Restart(rotated)
  PROVE  IInv'
<1> DEFINE tokenNow == [s \in Sessions |->
             IF rotated /\ status[s] # "absent" THEN "unreadable" ELSE token[s]]
           found == {s \in Sessions : status[s] \in Live}
           started == {s \in found : tokenNow[s] \in {"valid", "expired"}}
<1>1. PICK f \in [started -> Tasks] :
        /\ IsInjective(f)
        /\ tasks' = [s \in Sessions |-> IF s \in started THEN f[s] ELSE NoTask]
        /\ task' = [t \in Tasks |->
             IF \E s \in started : f[s] = t
             THEN At(CHOOSE s \in started : f[s] = t, "created", "none") ELSE Finished]
  BY DEF Restart
<1>2. /\ started \subseteq Sessions /\ \A s \in started : status[s] # "absent"
      /\ \A s, x \in started : f[s] = f[x] => s = x
  BY <1>1 DEF IsInjective, Live
<1>3. /\ token' \in [Sessions -> TokenKinds]
      /\ status' \in [Sessions -> Statuses \cup {"absent"}]
      /\ \A s \in Sessions : status[s] # "absent" => status'[s] # "absent"
  BY DEF Restart, IInv, TypeOK, TokenKinds, Statuses
<1>4. /\ userSessions' = [u \in Users |-> {s \in started : Owner[s] = u}]
      /\ lock' = [u \in Users |-> NoRequest]
      /\ req' = [r \in Requests |-> Free]
      /\ symbol' = symbol
      /\ adrift' = {}
  BY DEF Restart
<1> HIDE DEF tokenNow, found, started
<1>5. ASSUME NEW t \in Tasks
      PROVE  \/ task'[t] = Finished /\ \A s \in started : f[s] # t
             \/ \E s \in started : f[s] = t /\ task'[t] = At(s, "created", "none")
  BY <1>1
<1>6. \A t \in Tasks : task'[t] \in TaskRecords
  BY <1>2, <1>5, TaskRecordTypes DEF RowStatuses
<1>7. TypeOK'
  <2>1. task' \in [Tasks -> TaskRecords] /\ tasks' \in [Sessions -> Tasks \cup {NoTask}]
    BY <1>1, <1>2, <1>6
  <2> QED
    BY <1>2, <1>3, <1>4, <2>1, FreeType DEF IInv, TypeOK
<1>8. Writing'
  <2>1. \A t \in Tasks : task'[t].pc # "writing"
    <3> SUFFICES ASSUME NEW t \in Tasks PROVE task'[t].pc # "writing"
      OBVIOUS
    <3>1. CASE task'[t] = Finished
      BY <3>1 DEF Finished, At
    <3>2. CASE \E s \in started : task'[t] = At(s, "created", "none")
      <4>1. PICK s \in started : task'[t] = At(s, "created", "none")
        BY <3>2
      <4> QED
        BY <4>1 DEF At
    <3> QED
      BY <1>5, <3>1, <3>2
  <2>2. \A r \in Requests : req'[r].pc = "free"
    BY <1>4 DEF Free
  <2> QED
    BY <2>1, <2>2 DEF Writing
<1>9. ASSUME NEW t \in Tasks, Unfinished(t)'
      PROVE  \E s \in started : /\ f[s] = t /\ task'[t].sid = s
                                /\ task'[t].cancelled = FALSE
  <2>1. task'[t] # Finished
    BY <1>9 DEF Unfinished, Finished, At
  <2>2. PICK s \in started : f[s] = t /\ task'[t] = At(s, "created", "none")
    BY <1>5, <2>1
  <2>3. task'[t].sid = s /\ task'[t].cancelled = FALSE
    BY <2>2 DEF At
  <2> QED
    BY <2>2, <2>3
<1>10. RegistryOK'
  <2> SUFFICES ASSUME NEW t \in Tasks, Unfinished(t)'
               PROVE  (/\ task[t].sid \in Sessions
                       /\ ~task[t].cancelled => tasks[task[t].sid] = t \/ t \in adrift
                       /\ \A s \in Sessions : tasks[s] = t =>
                            task[t].sid = s /\ ~task[t].cancelled)'
    BY DEF RegistryOK
  <2>1. PICK s \in started : f[s] = t /\ task'[t].sid = s /\ task'[t].cancelled = FALSE
    BY <1>9
  <2>2. tasks'[s] = t /\ \A x \in Sessions : tasks'[x] = t => x = s
    BY <1>1, <1>2, <2>1, AbsentAssumption
  <2> QED
    BY <1>2, <2>1, <2>2
<1>11. RowsExist'
  <2>1. StartedAfterCommit'
    <3> SUFFICES ASSUME NEW t \in Tasks, Unfinished(t)'
                 PROVE  status'[task'[t].sid] # "absent"
      BY DEF StartedAfterCommit
    <3> QED
      BY <1>2, <1>3, <1>9
  <2>2. \A r \in Requests : req'[r].targets = {}
    BY <1>4 DEF Free
  <2> QED
    BY <2>1, <2>2 DEF RowsExist
<1>12. IndexMatchesRegistry'
  BY <1>1, <1>2, <1>4, AbsentAssumption DEF IndexMatchesRegistry
<1> QED
  BY <1>7, <1>8, <1>10, <1>11, <1>12 DEF IInv

-----------------------------------------------------------------------------
LEMMA NextIInv == IInv /\ [Next]_vars => IInv'
<1> SUFFICES ASSUME IInv, [Next]_vars PROVE IInv'
  OBVIOUS
<1>1. CASE UNCHANGED vars
  BY <1>1 DEF vars, IInv, TypeOK, Writing, RegistryOK, RowsExist, StartedAfterCommit,
     Unfinished, IndexMatchesRegistry
<1>2. ASSUME NEW r \in Requests, NEW u \in Users, NEW op \in Activations,
             NEW syms \in SUBSET Symbols, TakeLock(r, u, op, syms)
      PROVE  IInv'
  BY <1>2, TakeLockIInv
<1>3. ASSUME NEW r \in Requests, NEW op \in Endpoints, NEW s \in Sessions,
             NEW sym \in Symbols \cup {NoSymbol}, NEW want \in Statuses \cup {"keep"},
             ReadRows(r, op, s, want, sym)
      PROVE  IInv'
  BY <1>3, ReadRowsIInv
<1>4. ASSUME NEW r \in Requests, CheckSymbol(r) PROVE IInv'
  BY <1>4, CheckSymbolIInv
<1>5. ASSUME NEW r \in Requests, ActivateRefused(r) \/ CommitFails(r) PROVE IInv'
  BY <1>5, AbortIInv DEF ActivateRefused, CommitFails
<1>6. ASSUME NEW r \in Requests, Act(r) PROVE IInv'
  BY <1>6, ActIInv
<1>7. ASSUME NEW r \in Requests, Commit(r) PROVE IInv'
  BY <1>7, CommitIInv
<1>8. ASSUME NEW r \in Requests, StartOne(r) PROVE IInv'
  BY <1>8, StartOneIInv
<1>9. ASSUME NEW t \in Tasks, TaskStep(t) \/ FeedEnds(t) PROVE IInv'
  BY <1>9, TaskStepIInv
<1>10. ASSUME NEW s \in Sessions, TokenExpires(s) PROVE IInv'
  BY <1>10, TokenExpiresIInv
<1>11. ASSUME NEW rotated \in BOOLEAN, Restart(rotated) PROVE IInv'
  BY <1>11, RestartIInv
<1> QED
  BY <1>1, <1>2, <1>3, <1>4, <1>5, <1>6, <1>7, <1>8, <1>9, <1>10, <1>11 DEF Next

(* The inductive invariant holds in every reachable state of the service.  *)
THEOREM Inductive == Spec => []IInv
BY InitIInv, NextIInv, PTL DEF Spec

(* The model is well typed: no handler or tick leaves a row, the registry, *)
(* a lock or a request outside what the code can store there.              *)
THEOREM TypeCorrect == Spec => []TypeOK
<1>1. IInv => TypeOK
  BY DEF IInv
<1> QED
  BY <1>1, Inductive, PTL

(* stop_bot can reach the task that trades for a session, unless that task *)
(* is one that lost its cancel in a broker call.                           *)
THEOREM StoppableCorrect == Spec => []DriverIsStoppable
<1>1. IInv => DriverIsStoppable
  BY DEF IInv, RegistryOK, DriverIsStoppable, Driving, Unfinished
<1> QED
  BY <1>1, Inductive, PTL

(* Two tasks trade for a session only while one of them is adrift: however *)
(* the requests that start and restart bots interleave, a lost cancel is   *)
(* the one way to get there.                                               *)
THEOREM OneDriverCorrect == Spec => [](adrift = {} => OneDriver)
<1>1. DriverIsStoppable => (adrift = {} => OneDriver)
  BY DEF DriverIsStoppable, OneDriver
<1> QED
  BY <1>1, StoppableCorrect, PTL

(* Every unfinished task finds its row committed.                          *)
THEOREM StartedAfterCommitCorrect == Spec => []StartedAfterCommit
<1>1. IInv => StartedAfterCommit
  BY DEF IInv, RowsExist
<1> QED
  BY <1>1, Inductive, PTL

(* The per-user index of bot_manager agrees with its registry.             *)
THEOREM IndexCorrect == Spec => []IndexMatchesRegistry
<1>1. IInv => IndexMatchesRegistry
  BY DEF IInv
<1> QED
  BY <1>1, Inductive, PTL

=============================================================================
