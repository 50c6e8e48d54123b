----------------------------- MODULE WatchProofs -----------------------------
(***************************************************************************)
(* Theorems about WatchExecutor and WatchOrder for every choice of their   *)
(* constants, on top of the inductive invariant IInv of the task runner.   *)
(***************************************************************************)
EXTENDS WatchOrder, TaskRunnerProofs

RunsOK == OneRunAtATime /\ RunIsRemembered

WInv == IInv /\ WatchTypeOK /\ RunsOK

-----------------------------------------------------------------------------
(* What the steps of the runner leave of a live task.                      *)

LEMMA RejectKeepsLive ==
    ASSUME IInv, NEW class \in Classes, NEW scope \in Scopes \cup {NoScope},
           RejectLocked(class, scope), NEW j \in Ids, Live(j)
    PROVE  Live(j)' /\ tasks'[j] = tasks[j]
<1>1. j # nextId
  BY DEF IInv, UnusedIdsClean, Live, TypeOK, Ids
<1>2. Active(tasks[j])
  BY DEF IInv, LiveTaskRecorded, Active
<1>3. nextId <= MaxTasks /\ UNCHANGED handler
  BY DEF RejectLocked
<1>4. /\ Enqueued(class, scope) \in [Ids -> Task \cup {Absent}]
      /\ Enqueued(class, scope)[j] = tasks[j]
  BY <1>1, <1>2, <1>3, EnqueuedRecords DEF IInv
<1> QED BY <1>1, <1>3, <1>4 DEF RejectLocked, Live

LEMMA StartKeepsLive ==
    ASSUME IInv, NEW class \in Classes, NEW scope \in Scopes \cup {NoScope},
           NEW detached \in BOOLEAN, StartTask(class, scope, detached)
    PROVE  /\ nextId \in Ids
           /\ \A j \in Ids : j = nextId => Live(j)' /\ tasks'[j].scope = scope
           /\ \A j \in Ids : Live(j) => Live(j)' /\ tasks'[j] = tasks[j]
<1>1. /\ nextId \in Ids /\ ~Live(nextId)
      /\ handler'[nextId] \in {"scheduled", "executing"}
      /\ \A j \in Ids \ {nextId} : handler'[j] = handler[j]
      /\ \A j \in Ids \ {nextId} : Live(j) => tasks'[j] = tasks[j]
  BY StartEffect
<1>2. tasks'[nextId].scope = scope
  <2>1. nextId <= MaxTasks
    BY DEF StartTask
  <2>2. /\ Enqueued(class, scope) \in [Ids -> Task \cup {Absent}]
        /\ Enqueued(class, scope)[nextId] = NewTask(class, scope)
    BY <2>1, EnqueuedRecords DEF IInv
  <2> DEFINE new == [NewTask(class, scope) EXCEPT !.status = "running"]
  <2>3. new.scope = scope
    BY DEF NewTask
  <2>4. tasks' = [Enqueued(class, scope) EXCEPT ![nextId] = new]
    BY <2>2 DEF StartTask, NewTask
  <2> HIDE DEF new
  <2> QED BY <1>1, <2>2, <2>3, <2>4
<1> QED BY <1>1, <1>2 DEF Live

LEMMA DetachedKeepsLive ==
    ASSUME IInv, NEW i \in Ids, ExecuteDetached(i), NEW j \in Ids, Live(j)
    PROVE  Live(j)' /\ tasks'[j] = tasks[j]
  BY DEF ExecuteDetached, Live, IInv, TypeOK

LEMMA CancelKeepsLive ==
    ASSUME IInv, NEW i \in Ids, CancelTask(i), NEW j \in Ids, Live(j)
    PROVE  Live(j)' /\ tasks'[j].scope = tasks[j].scope
<1>1. tasks[i] \in Task
  BY DEF CancelTask, IInv, TypeOK
<1>2. UNCHANGED handler
  BY DEF CancelTask
<1>3. tasks' = [tasks EXCEPT ![i] = [tasks[i] EXCEPT !.cancelRequested = TRUE]]
  BY DEF CancelTask
<1>4. [tasks[i] EXCEPT !.cancelRequested = TRUE].scope = tasks[i].scope
  BY <1>1 DEF Task
<1> QED BY <1>2, <1>3, <1>4 DEF Live, IInv, TypeOK

LEMMA SettleKeepsLive ==
    ASSUME IInv, NEW i \in Ids, NEW status \in TaskStates, Settle(i, status),
           NEW j \in Ids \ {i}, Live(j)
    PROVE  Live(j)' /\ tasks'[j] = tasks[j]
<1>1. /\ \A k \in Ids \ {i} : tasks'[k] = tasks[k]
      /\ \A k \in Ids \ {i} : handler'[k] = handler[k]
  BY SettleEffect
<1> QED BY <1>1 DEF Live

-----------------------------------------------------------------------------
(* The run in flight.                                                      *)

(***************************************************************************)
(* A run in flight is the active task, so the executor keeps its id and    *)
(* dispatches nothing.                                                     *)
(***************************************************************************)
LEMMA RunIsActive ==
    ASSUME WInv, NEW i \in Ids, runs[i] # NoWatch
    PROVE  TaskActive /\ Remembered = i /\ activeTaskId = i
<1>1. activeTaskId = i /\ Live(i)
  BY DEF WInv, RunsOK, RunIsRemembered
<1>2. Active(tasks[i]) /\ i # Free
  BY <1>1 DEF WInv, IInv, LiveTaskRecorded, Active, Ids, Free
<1> QED BY <1>1, <1>2 DEF TaskActive, Remembered

LEMMA RunsStay ==
    ASSUME WInv, UNCHANGED runs, activeTaskId' \in {activeTaskId, Remembered},
           \A i \in Ids : runs[i] # NoWatch =>
               Live(i)' /\ tasks'[i].scope = tasks[i].scope
    PROVE  RunsOK'
<1>1. \A i \in Ids : runs[i] # NoWatch => activeTaskId' = i
  BY RunIsActive
<1>2. \A i \in Ids : runs[i] # NoWatch => tasks[i].scope = ScopeOf[runs[i]]
  BY DEF WInv, RunsOK, RunIsRemembered
<1>3. OneRunAtATime'
  BY DEF WInv, RunsOK, OneRunAtATime
<1>4. RunIsRemembered'
  BY <1>1, <1>2 DEF RunIsRemembered
<1> QED BY <1>3, <1>4 DEF RunsOK

LEMMA RunsAreLive ==
    ASSUME WInv, NEW i \in Ids, runs[i] # NoWatch
    PROVE  Live(i)
  BY DEF WInv, RunsOK, RunIsRemembered

LEMMA SameRunner ==
    ASSUME WInv, UNCHANGED vars, UNCHANGED runs,
           activeTaskId' \in {activeTaskId, Remembered}
    PROVE  IInv' /\ RunsOK'
<1>1. IInv'
  BY NextIInv DEF WInv
<1>2. \A i \in Ids : Live(i) => Live(i)' /\ tasks'[i].scope = tasks[i].scope
  BY DEF vars, Live
<1> QED BY <1>1, <1>2, RunsAreLive, RunsStay

-----------------------------------------------------------------------------
(* One lemma per group of actions.                                         *)

LEMMA DispatchStep ==
    ASSUME WInv, NEW w \in Watches, ~TaskActive,
           NEW refusedId \in Ids \cup {Free}, Dispatch(w, refusedId)
    PROVE  /\ IInv' /\ RunsOK'
           /\ activeTaskId' \in Ids \cup {Free}
           /\ runs' \in [Ids -> Watches \cup {NoWatch}]
<1>1. \A i \in Ids : runs[i] = NoWatch
  BY RunIsActive
<1>2. /\ "evidence-creating" \in Classes
      /\ ScopeOf[w] \in Scopes \cup {NoScope}
      /\ w # NoWatch
  BY WatchAssumption
<1>3. CASE RejectLocked("evidence-creating", ScopeOf[w])
           /\ activeTaskId' = refusedId /\ UNCHANGED runs
  <2>1. IInv'
    BY <1>2, <1>3, RejectIInv DEF WInv
  <2>2. RunsOK'
    BY <1>1, <1>3 DEF RunsOK, OneRunAtATime, RunIsRemembered
  <2> QED BY <1>3, <2>1, <2>2 DEF WInv, WatchTypeOK
<1>4. CASE /\ StartTask("evidence-creating", ScopeOf[w], TRUE)
           /\ runs' = [runs EXCEPT ![nextId] = w]
           /\ activeTaskId' = nextId
  <2>1. IInv'
    BY <1>2, <1>4, StartIInv DEF WInv
  <2>2. /\ nextId \in Ids
        /\ \A j \in Ids : j = nextId => /\ Live(j)'
                                        /\ tasks'[j].scope = ScopeOf[w]
    BY <1>2, <1>4, StartKeepsLive DEF WInv
  <2>3. /\ runs' \in [Ids -> Watches \cup {NoWatch}]
        /\ runs'[nextId] = w
        /\ \A i \in Ids \ {nextId} : runs'[i] = NoWatch
    BY <1>1, <1>4, <2>2 DEF WInv, WatchTypeOK
  <2>4. OneRunAtATime'
    BY <2>2, <2>3 DEF OneRunAtATime
  <2>5. RunIsRemembered'
    BY <1>4, <2>2, <2>3 DEF RunIsRemembered
  <2> QED BY <1>4, <2>1, <2>2, <2>3, <2>4, <2>5 DEF RunsOK
<1> QED BY <1>3, <1>4 DEF Dispatch

LEMMA TickStep ==
    ASSUME WInv, NEW live \in BOOLEAN, NEW refusedId \in Ids \cup {Free, nextId},
           TickArmed(live, refusedId)
    PROVE  /\ IInv' /\ RunsOK'
           /\ activeTaskId' \in Ids \cup {Free}
           /\ runs' \in [Ids -> Watches \cup {NoWatch}]
<1>1. CASE activeTaskId' = Remembered /\ UNCHANGED <<vars, runs>>
  <2>1. Remembered \in Ids \cup {Free}
    BY DEF Remembered, WInv, WatchTypeOK
  <2> QED BY <1>1, <2>1, SameRunner DEF WInv, WatchTypeOK
<1>2. ASSUME NEW w \in Watches, ~TaskActive, Dispatch(w, refusedId)
      PROVE  /\ IInv' /\ RunsOK'
             /\ activeTaskId' \in Ids \cup {Free}
             /\ runs' \in [Ids -> Watches \cup {NoWatch}]
  <2>1. nextId \in Ids
    BY <1>2, TaskRunnerAssumption
       DEF Dispatch, StartTask, RejectLocked, WInv, IInv, TypeOK, Ids
  <2>2. refusedId \in Ids \cup {Free}
    BY <2>1
  <2> QED BY <1>2, <2>2, DispatchStep
<1> QED BY <1>1, <1>2 DEF TickArmed

LEMMA FinishStep ==
    ASSUME WInv, NEW i \in Ids, FinishRun(i)
    PROVE  WInv'
<1>1. runs[i] \in Watches /\ \A j \in Ids \ {i} : runs[j] = NoWatch
  BY DEF FinishRun, WInv, WatchTypeOK, RunsOK, OneRunAtATime
<1>2. PICK status \in TaskStates \ {"queued", "running"} : Settle(i, status)
  BY DEF FinishRun, HandlerCancelled, TaskStates
<1>3. IInv'
  BY <1>2, SettleIInv DEF WInv
<1>4. rows' \in [Watches -> Row]
  <2>1. RecordSuccess(runs[i]) \/ RecordFailure(runs[i])
    BY DEF FinishRun
  <2>2. /\ now \in Nat /\ rows \in [Watches -> Row]
        /\ PollInterval[runs[i]] \in Nat /\ Backoff \in Nat
    BY <1>1, WatchAssumption DEF WInv, WatchTypeOK
  <2> QED BY <1>1, <2>1, <2>2 DEF RecordSuccess, RecordFailure, Row, Never
<1>5. /\ runs' \in [Ids -> Watches \cup {NoWatch}]
      /\ \A j \in Ids : runs'[j] = NoWatch
  BY <1>1 DEF FinishRun, WInv, WatchTypeOK
<1>6. RunsOK'
  BY <1>5 DEF RunsOK, OneRunAtATime, RunIsRemembered
<1>7. UNCHANGED <<sessionArmed, interval, activeTaskId, cooling, liveApi, now>>
  BY DEF FinishRun, world
<1>8. WatchTypeOK'
  BY <1>3, <1>4, <1>5, <1>7 DEF WInv, WatchTypeOK, IInv
<1> QED BY <1>3, <1>6, <1>8 DEF WInv

LEMMA OtherTaskStep ==
    ASSUME WInv, OtherTask
    PROVE  IInv' /\ RunsOK'
<1>1. UNCHANGED <<runs, activeTaskId>>
  BY DEF OtherTask, executor
<1>2. ASSUME NEW class \in OtherClasses, NEW scope \in Scopes \cup {NoScope},
             RejectLocked(class, scope)
      PROVE  IInv' /\ RunsOK'
  <2>1. class \in Classes
    BY WatchAssumption
  <2>2. IInv'
    BY <1>2, <2>1, RejectIInv DEF WInv
  <2>3. \A i \in Ids : Live(i) => Live(i)' /\ tasks'[i].scope = tasks[i].scope
    BY <1>2, <2>1, RejectKeepsLive DEF WInv
  <2> QED BY <1>1, <2>2, <2>3, RunsAreLive, RunsStay
<1>3. ASSUME NEW class \in OtherClasses, NEW scope \in Scopes \cup {NoScope},
             NEW detached \in BOOLEAN, StartTask(class, scope, detached)
      PROVE  IInv' /\ RunsOK'
  <2>1. class \in Classes
    BY WatchAssumption
  <2>2. IInv'
    BY <1>3, <2>1, StartIInv DEF WInv
  <2>3. \A i \in Ids : Live(i) => Live(i)' /\ tasks'[i].scope = tasks[i].scope
    BY <1>3, <2>1, StartKeepsLive DEF WInv
  <2> QED BY <1>1, <2>2, <2>3, RunsAreLive, RunsStay
<1>4. ASSUME NEW i \in Ids, ExecuteDetached(i) PROVE IInv' /\ RunsOK'
  <2>1. IInv'
    BY <1>4, ExecuteDetachedIInv DEF WInv
  <2>2. \A j \in Ids : Live(j) => Live(j)' /\ tasks'[j].scope = tasks[j].scope
    BY <1>4, DetachedKeepsLive DEF WInv
  <2> QED BY <1>1, <2>1, <2>2, RunsAreLive, RunsStay
<1>5. ASSUME NEW i \in Ids, CancelTask(i) PROVE IInv' /\ RunsOK'
  <2>1. IInv'
    BY <1>5, CancelTaskIInv DEF WInv
  <2>2. \A j \in Ids : Live(j) => Live(j)' /\ tasks'[j].scope = tasks[j].scope
    BY <1>5, CancelKeepsLive DEF WInv
  <2> QED BY <1>1, <2>1, <2>2, RunsAreLive, RunsStay
<1>6. ASSUME NEW i \in Ids, runs[i] = NoWatch, Execute(i) PROVE IInv' /\ RunsOK'
  <2>1. PICK status \in TaskStates \ {"queued", "running"} : Settle(i, status)
    BY <1>6, ExecuteSettles
  <2>2. IInv'
    BY <2>1, SettleIInv DEF WInv
  <2>3. \A j \in Ids \ {i} : Live(j) =>
            Live(j)' /\ tasks'[j].scope = tasks[j].scope
    BY <2>1, SettleKeepsLive DEF WInv
  <2> QED BY <1>1, <1>6, <2>2, <2>3, RunsAreLive, RunsStay
<1> QED BY <1>2, <1>3, <1>4, <1>5, <1>6 DEF OtherTask, OtherSubmit

LEMMA RestartStep ==
    ASSUME WInv, Restart
    PROVE  IInv' /\ RunsOK'
<1>1. Init'
  BY DEF Restart, Init
<1>2. Init' => IInv'
  BY InitIInv, PTL
<1>3. RunsOK'
  BY DEF Restart, RunsOK, OneRunAtATime, RunIsRemembered
<1> QED BY <1>1, <1>2, <1>3

-----------------------------------------------------------------------------
LEMMA WInitInv == WatchInit => WInv
<1> SUFFICES ASSUME WatchInit PROVE WInv
  OBVIOUS
<1>1. IInv
  BY InitIInv DEF WatchInit
<1>2. WatchTypeOK
  <2>1. rows \in [Watches -> Row] /\ now \in Nat \ {0}
    BY DEF WatchInit, Row, Never
  <2> QED BY <1>1, <2>1 DEF WatchInit, WatchTypeOK, IInv
<1>3. RunsOK
  BY DEF WatchInit, RunsOK, OneRunAtATime, RunIsRemembered
<1> QED BY <1>1, <1>2, <1>3 DEF WInv

LEMMA WNextInv == WInv /\ [WatchNext]_watchVars => WInv'
<1> SUFFICES ASSUME WInv, [WatchNext]_watchVars PROVE WInv'
  OBVIOUS
<1> USE DEF WInv
<1>1. ASSUME NEW live \in BOOLEAN, NEW refusedId \in Ids \cup {Free, nextId},
             TickArmed(live, refusedId), sessionArmed' \in BOOLEAN,
             interval' \in BOOLEAN, UNCHANGED <<rows, world>>
      PROVE  WInv'
  <2>1. /\ IInv' /\ RunsOK'
        /\ activeTaskId' \in Ids \cup {Free}
        /\ runs' \in [Ids -> Watches \cup {NoWatch}]
    BY <1>1, TickStep
  <2> QED BY <1>1, <2>1 DEF WatchTypeOK, IInv, world
<1>2. ASSUME NEW live \in BOOLEAN, Tick(live) PROVE WInv'
  BY <1>1, <1>2 DEF Tick, WatchTypeOK
<1>3. CASE Arm
  BY <1>1, <1>3 DEF Arm, WatchTypeOK
<1>4. CASE Disarm \/ Status
  <2>1. /\ UNCHANGED <<vars, rows, runs, world>>
        /\ activeTaskId' = Remembered
        /\ sessionArmed' \in BOOLEAN /\ interval' \in BOOLEAN
    BY <1>4 DEF Disarm, Status, WatchTypeOK
  <2>2. IInv' /\ RunsOK'
    BY <2>1, SameRunner
  <2>3. Remembered \in Ids \cup {Free}
    BY DEF Remembered, WatchTypeOK
  <2> QED BY <2>1, <2>2, <2>3 DEF WatchTypeOK, IInv, world
<1>5. ASSUME NEW i \in Ids, FinishRun(i) PROVE WInv'
  BY <1>5, FinishStep
<1>6. CASE OtherTask
  <2>1. IInv' /\ RunsOK'
    BY <1>6, OtherTaskStep
  <2> QED BY <1>6, <2>1 DEF OtherTask, WatchTypeOK, IInv, executor, world
<1>7. ASSUME UNCHANGED <<vars, executor>>, rows' \in [Watches -> Row],
             cooling' \subseteq Watches, liveApi' \in BOOLEAN,
             now' \in Nat \ {0}
      PROVE  WInv'
  <2>1. IInv' /\ RunsOK'
    BY <1>7, SameRunner DEF executor
  <2> QED BY <1>7, <2>1 DEF WatchTypeOK, IInv, executor
<1>8. ASSUME NEW w \in Watches, NEW active \in BOOLEAN, SaveWatch(w, active)
      PROVE  WInv'
  <2>1. rows' \in [Watches -> Row]
    BY <1>8 DEF SaveWatch, WatchTypeOK, Row
  <2> QED BY <1>7, <1>8, <2>1 DEF SaveWatch, WatchTypeOK, world
<1>9. ASSUME NEW w \in Watches, RecordRun(w) PROVE WInv'
  <2>1. /\ now \in Nat /\ rows \in [Watches -> Row]
        /\ PollInterval[w] \in Nat /\ Backoff \in Nat
    BY WatchAssumption DEF WatchTypeOK
  <2>2. rows' \in [Watches -> Row]
    BY <1>9, <2>1 DEF RecordRun, RecordSuccess, RecordFailure, Row, Never
  <2> QED BY <1>7, <1>9, <2>2 DEF RecordRun, WatchTypeOK, world
<1>10. ASSUME NEW w \in Watches, AcceptAttempt(w) \/ CooldownEnds(w) PROVE WInv'
  BY <1>7, <1>10 DEF AcceptAttempt, CooldownEnds, WatchTypeOK
<1>11. CASE ClockTick
  BY <1>7, <1>11 DEF ClockTick, WatchTypeOK
<1>12. CASE Restart
  <2>1. IInv' /\ RunsOK'
    BY <1>12, RestartStep
  <2> QED BY <1>12, <2>1 DEF Restart, WatchTypeOK, IInv
<1>13. CASE UNCHANGED watchVars
  BY <1>7, <1>13 DEF watchVars, world, WatchTypeOK
<1>14. SharedGate \subseteq Watches
  BY WatchAssumption
<1> QED BY <1>2, <1>3, <1>4, <1>5, <1>6, <1>8, <1>9, <1>10, <1>11, <1>12, <1>13,
           <1>14 DEF WatchNext, Operator, IntervalTick, TickCommand, WatchTypeOK

LEMMA WInvHolds == WatchSpec => []WInv
<1> QED BY WInitInv, WNextInv, PTL DEF WatchSpec

(***************************************************************************)
(* The rows, the executor and the runner keep their types.                 *)
(***************************************************************************)
THEOREM WatchTypesCorrect == WatchSpec => []WatchTypeOK
<1>1. WInv => WatchTypeOK
  BY DEF WInv
<1> QED BY <1>1, WInvHolds, PTL

(***************************************************************************)
(* The executor never has two watch runs in flight (activeTaskId in tick). *)
(***************************************************************************)
THEOREM AtMostOneRun == WatchSpec => []OneRunAtATime
<1>1. WInv => OneRunAtATime
  BY DEF WInv, RunsOK
<1> QED BY <1>1, WInvHolds, PTL

(***************************************************************************)
(* The run in flight is live and is the task the executor remembers.       *)
(***************************************************************************)
THEOREM RunsAreRemembered == WatchSpec => []RunIsRemembered
<1>1. WInv => RunIsRemembered
  BY DEF WInv, RunsOK
<1> QED BY <1>1, WInvHolds, PTL

(***************************************************************************)
(* The promises of the task runner hold in the composed program: watch     *)
(* runs, the tasks of operators and restarts keep locks exact, handlers    *)
(* isolated and live records in place.                                     *)
(***************************************************************************)
THEOREM RunnerKeepsItsPromises ==
    WatchSpec => [](LocksMatchHandlers /\ HandlersIsolated /\ LiveTaskRecorded)
<1>1. WInv => LocksMatchHandlers /\ HandlersIsolated /\ LiveTaskRecorded
  BY IsolatedByLocks DEF WInv, IInv
<1> QED BY <1>1, WInvHolds, PTL

-----------------------------------------------------------------------------
(* The order and the spacing of watch runs.                                *)

(***************************************************************************)
(* The row of a watch remembers its last recorded run: its next poll is an *)
(* interval or a backoff after it.                                         *)
(***************************************************************************)
Spaced(w) ==
    lastEnd[w] # Never =>
        \/ rows[w].nextPollAt >= lastEnd[w] + PollInterval[w]
        \/ rows[w].nextPollAt >= lastEnd[w] + Backoff

(***************************************************************************)
(* A watch that overtook a waiting one is still running or will be polled  *)
(* later than the waiting one.                                             *)
(***************************************************************************)
OvertakersLater(w) ==
    \A v \in overtook[w] :
        /\ v \in Watches \ {w}
        /\ Running(v) \/ rows[v].nextPollAt > rows[w].nextPollAt

OInv ==
    /\ WInv
    /\ lastEnd \in [Watches -> Nat]
    /\ \A w \in Watches : lastEnd[w] <= now
    /\ \A w \in Watches : Spaced(w)
    /\ \A w \in Watches : IF Waiting(w) THEN OvertakersLater(w)
                                        ELSE overtook[w] = {}

-----------------------------------------------------------------------------
(***************************************************************************)
(* What any step does to the schedule: the clock moves or the rows do; a   *)
(* poll time only moves past the clock; a watch starts only when selected; *)
(* and a run in flight goes on, is recorded or dies with the process.      *)
(***************************************************************************)
Scheduled(w) ==
    rows'[w].nextPollAt \in {now + PollInterval[w], now + Backoff}

Effect ==
    /\ now' >= now
    /\ rows' = rows \/ now' = now
    /\ \A w \in Watches : rows'[w].nextPollAt = rows[w].nextPollAt \/ Scheduled(w)
    /\ \A w \in Watches : Starts(w) => Selected(w)
    /\ \A w \in Watches : Running(w) =>
          Running(w)' \/ Scheduled(w) \/ ~sessionArmed'

LEMMA SchedulesAreNumbers ==
    ASSUME WInv
    PROVE  /\ now \in Nat
           /\ Backoff \in Nat \ {0}
           /\ \A w \in Watches : PollInterval[w] \in Nat \ {0}
           /\ \A w \in Watches : rows[w] \in Row /\ rows[w].nextPollAt \in Nat
<1>1. \A w \in Watches : rows[w] \in Row
  BY DEF WInv, WatchTypeOK
<1> QED BY <1>1, WatchAssumption DEF WInv, WatchTypeOK, Row

LEMMA Recorded ==
    ASSUME WInv, NEW u \in Watches, RecordSuccess(u) \/ RecordFailure(u)
    PROVE  /\ Scheduled(u)
           /\ \A w \in Watches \ {u} : rows'[w] = rows[w]
<1>1. rows \in [Watches -> Row] /\ rows[u] \in Row
  BY DEF WInv, WatchTypeOK
<1>2. CASE RecordSuccess(u)
  <2> DEFINE new == [rows[u] EXCEPT !.lastSuccessAt = now,
                                    !.backoffUntil = Never,
                                    !.nextPollAt = now + PollInterval[u]]
  <2>1. rows' = [rows EXCEPT ![u] = new]
    BY <1>1, <1>2 DEF RecordSuccess
  <2>2. new.nextPollAt = now + PollInterval[u]
    BY <1>1 DEF Row
  <2> HIDE DEF new
  <2> QED BY <1>1, <2>1, <2>2 DEF Scheduled
<1>3. CASE RecordFailure(u)
  <2> DEFINE new == [rows[u] EXCEPT !.lastSuccessAt = Never,
                                    !.backoffUntil = now + Backoff,
                                    !.nextPollAt = now + Backoff]
  <2>1. rows' = [rows EXCEPT ![u] = new]
    BY <1>1, <1>3 DEF RecordFailure
  <2>2. new.nextPollAt = now + Backoff
    BY <1>1 DEF Row
  <2> HIDE DEF new
  <2> QED BY <1>1, <2>1, <2>2 DEF Scheduled
<1> QED BY <1>2, <1>3

\* A step that leaves the rows, the clock and the runs alone.
LEMMA QuietEffect ==
    ASSUME WInv, UNCHANGED <<rows, now, runs>>
    PROVE  Effect
  BY SchedulesAreNumbers DEF Effect, Starts, Running

LEMMA TickEffect ==
    ASSUME WInv, NEW live, NEW refusedId, TickArmed(live, refusedId),
           UNCHANGED <<rows, now>>
    PROVE  Effect
<1>1. CASE UNCHANGED runs
  BY <1>1, QuietEffect
<1>2. ASSUME NEW u \in Watches, ~TaskActive, Selected(u), nextId \in Ids,
             runs' = [runs EXCEPT ![nextId] = u]
      PROVE  Effect
  <2>1. \A i \in Ids : runs[i] = NoWatch
    BY <1>2, RunIsActive
  <2>2. \A i \in Ids : runs'[i] \in {u, NoWatch}
    BY <1>2, <2>1 DEF WInv, WatchTypeOK
  <2>3. \A w \in Watches : ~Running(w) /\ (Running(w)' => w = u)
    BY <2>1, <2>2, WatchAssumption DEF Running
  <2> QED BY <1>2, <2>3, SchedulesAreNumbers DEF Effect, Starts
<1>3. nextId \in Ids \/ UNCHANGED runs
  BY TaskRunnerAssumption
     DEF TickArmed, Dispatch, StartTask, WInv, IInv, TypeOK, Ids
<1> QED BY <1>1, <1>2, <1>3 DEF TickArmed, Dispatchable, Dispatch

LEMMA FinishEffect ==
    ASSUME WInv, NEW i \in Ids, FinishRun(i)
    PROVE  Effect /\ Scheduled(runs[i]) /\ runs[i] \in Watches
<1>1. runs[i] \in Watches /\ \A j \in Ids \ {i} : runs[j] = NoWatch
  BY DEF FinishRun, WInv, WatchTypeOK, RunsOK, OneRunAtATime
<1>2. /\ Scheduled(runs[i])
      /\ \A w \in Watches \ {runs[i]} : rows'[w] = rows[w]
  BY <1>1, Recorded DEF FinishRun
<1>3. now' = now
  BY DEF FinishRun, world
<1>4. \A w \in Watches : Running(w) => w = runs[i]
  BY <1>1, WatchAssumption DEF Running
<1>5. \A w \in Watches : ~Running(w)'
  <2>1. \A j \in Ids : runs'[j] = NoWatch
    BY <1>1 DEF FinishRun, WInv, WatchTypeOK
  <2> QED BY <2>1, WatchAssumption DEF Running
<1> QED BY <1>1, <1>2, <1>3, <1>4, <1>5, SchedulesAreNumbers DEF Effect, Starts

LEMMA SaveEffect ==
    ASSUME WInv, NEW u \in Watches, NEW active \in BOOLEAN, SaveWatch(u, active)
    PROVE  Effect
<1> DEFINE new == [rows[u] EXCEPT !.active = active, !.scopeValid = TRUE]
<1>1. rows[u] \in Row /\ rows \in [Watches -> Row]
  BY DEF WInv, WatchTypeOK
<1>2. rows' = [rows EXCEPT ![u] = new]
  BY <1>1 DEF SaveWatch
<1>3. new.nextPollAt = rows[u].nextPollAt
  BY <1>1 DEF Row
<1> HIDE DEF new
<1>4. \A w \in Watches : rows'[w].nextPollAt = rows[w].nextPollAt
  BY <1>1, <1>2, <1>3
<1>5. UNCHANGED <<now, runs>>
  BY DEF SaveWatch, executor, world
<1> QED BY <1>4, <1>5, SchedulesAreNumbers DEF Effect, Starts, Running

LEMMA RecordEffect ==
    ASSUME WInv, NEW u \in Watches, RecordRun(u)
    PROVE  Effect
<1>1. Scheduled(u) /\ \A w \in Watches \ {u} : rows'[w] = rows[w]
  BY Recorded DEF RecordRun
<1>2. UNCHANGED <<now, runs>>
  BY DEF RecordRun, executor, world
<1> QED BY <1>1, <1>2, SchedulesAreNumbers DEF Effect, Starts, Running

LEMMA StepEffect ==
    ASSUME WInv, [WatchNext]_watchVars
    PROVE  Effect
<1>1. ASSUME NEW live \in BOOLEAN, Tick(live) PROVE Effect
  BY <1>1, TickEffect DEF Tick, world
<1>2. CASE Arm
  BY <1>2, TickEffect DEF Arm, world
<1>3. CASE Disarm \/ Status
  BY <1>3, QuietEffect DEF Disarm, Status, world
<1>4. ASSUME NEW i \in Ids, FinishRun(i) PROVE Effect
  BY <1>4, FinishEffect
<1>5. CASE OtherTask
  BY <1>5, QuietEffect DEF OtherTask, executor, world
<1>6. ASSUME NEW w \in Watches, NEW active \in BOOLEAN, SaveWatch(w, active)
      PROVE  Effect
  BY <1>6, SaveEffect
<1>7. ASSUME NEW w \in Watches, RecordRun(w) PROVE Effect
  BY <1>7, RecordEffect
<1>8. ASSUME NEW w \in Watches, AcceptAttempt(w) \/ CooldownEnds(w) PROVE Effect
  BY <1>8, QuietEffect DEF AcceptAttempt, CooldownEnds, executor
<1>9. CASE ClockTick
  <2>1. UNCHANGED <<rows, runs>> /\ now' = now + 1
    BY <1>9 DEF ClockTick, executor
  <2> QED BY <2>1, SchedulesAreNumbers DEF Effect, Starts, Running
<1>10. CASE Restart
  <2>1. UNCHANGED <<rows, now>> /\ ~sessionArmed'
    BY <1>10 DEF Restart
  <2>2. \A w \in Watches : ~Running(w)'
    BY <1>10, WatchAssumption DEF Restart, Running
  <2> QED BY <2>1, <2>2, SchedulesAreNumbers DEF Effect, Starts
<1>11. CASE UNCHANGED watchVars
  BY <1>11, QuietEffect DEF watchVars, executor, world
<1>12. SharedGate \subseteq Watches /\ liveApi \in BOOLEAN
  BY WatchAssumption DEF WInv, WatchTypeOK
<1> QED BY <1>1, <1>2, <1>3, <1>4, <1>5, <1>6, <1>7, <1>8, <1>9, <1>10, <1>11,
           <1>12 DEF WatchNext, Operator, IntervalTick, TickCommand

-----------------------------------------------------------------------------
LEMMA OInitInv == OrderInit => OInv
<1> SUFFICES ASSUME OrderInit PROVE OInv
  OBVIOUS
<1>1. WInv
  BY WInitInv DEF OrderInit
<1>2. now \in Nat /\ \A w \in Watches : lastEnd[w] = 0 /\ overtook[w] = {}
  BY <1>1, SchedulesAreNumbers DEF OrderInit, Never
<1> QED BY <1>1, <1>2 DEF OInv, Spaced, OvertakersLater, OrderInit, Never

LEMMA OrderKeepsOvertakers ==
    ASSUME OInv, OInv!1', Effect, OrderNext, NEW w \in Watches
    PROVE  IF Waiting(w)' THEN OvertakersLater(w)' ELSE overtook'[w] = {}
<1>1. overtook'[w] = IF Waiting(w)'
                     THEN overtook[w] \cup {v \in Watches : Starts(v)}
                     ELSE {}
  BY DEF OrderNext
<1>2. SUFFICES ASSUME Waiting(w)', NEW v \in overtook'[w]
               PROVE  /\ v \in Watches \ {w}
                      /\ Running(v)' \/ rows'[v].nextPollAt > rows'[w].nextPollAt
  BY <1>1 DEF OvertakersLater
<1>3. CASE v \in Watches /\ Starts(v)
  BY <1>2, <1>3 DEF Starts, Waiting
<1>4. CASE v \in overtook[w]
  <2>1. Waiting(w) /\ OvertakersLater(w)
    BY <1>4 DEF OInv
  <2>2. /\ v \in Watches \ {w}
        /\ Running(v) \/ rows[v].nextPollAt > rows[w].nextPollAt
    BY <1>4, <2>1 DEF OvertakersLater
  <2>3. /\ now \in Nat /\ Backoff \in Nat \ {0}
        /\ PollInterval[v] \in Nat \ {0} /\ PollInterval[w] \in Nat \ {0}
        /\ rows[v].nextPollAt \in Nat /\ rows[w].nextPollAt \in Nat
    BY <2>2, SchedulesAreNumbers DEF OInv
  <2>4. rows[w].nextPollAt <= now /\ rows'[w].nextPollAt <= now'
    BY <1>2, <2>1 DEF Waiting, Due
  <2>5. rows'[w].nextPollAt = rows[w].nextPollAt
    BY <2>3, <2>4 DEF Effect, Scheduled
  <2>6. sessionArmed'
    BY <1>2 DEF Waiting
  <2>7. Scheduled(v) => rows'[v].nextPollAt > rows'[w].nextPollAt
    BY <2>3, <2>4, <2>5 DEF Scheduled
  <2> QED BY <2>2, <2>5, <2>6, <2>7 DEF Effect
<1> QED BY <1>1, <1>2, <1>3, <1>4

LEMMA ONextInv == OInv /\ [OrderNext]_orderVars => OInv'
<1> SUFFICES ASSUME OInv, [OrderNext]_orderVars PROVE OInv'
  OBVIOUS
<1>1. WInv' /\ Effect
  BY WNextInv, StepEffect DEF OInv, OrderNext, orderVars
<1>2. CASE UNCHANGED orderVars
  BY <1>1, <1>2 DEF orderVars, watchVars, executor, world, OInv, Spaced,
                    OvertakersLater, Waiting, Due, Running
<1>3. CASE OrderNext
  <2>1. /\ now \in Nat /\ now' \in Nat /\ now' >= now
        /\ Backoff \in Nat
        /\ \A w \in Watches : /\ PollInterval[w] \in Nat
                              /\ rows[w].nextPollAt \in Nat
                              /\ lastEnd[w] \in Nat /\ lastEnd[w] <= now
    BY <1>1, SchedulesAreNumbers DEF OInv, Effect, WInv, WatchTypeOK
  <2>2. \A w \in Watches :
            lastEnd'[w] = lastEnd[w] \/ (lastEnd'[w] = now /\ Scheduled(w))
    <3>1. \A w \in Watches : \A i \in Ids :
              runs[i] = w /\ FinishRun(i) => Scheduled(w)
      BY FinishEffect DEF OInv
    <3> QED BY <1>3, <3>1 DEF OrderNext
  <2>3. lastEnd' \in [Watches -> Nat]
    <3>1. DOMAIN lastEnd' = Watches /\ lastEnd' = [w \in Watches |-> lastEnd'[w]]
      BY <1>3 DEF OrderNext
    <3>2. \A w \in Watches : lastEnd'[w] \in Nat
      BY <2>1, <2>2
    <3> QED BY <3>1, <3>2
  <2>4. \A w \in Watches : lastEnd'[w] <= now'
    BY <2>1, <2>2
  <2>5. \A w \in Watches : Spaced(w)'
    <3> SUFFICES ASSUME NEW w \in Watches PROVE Spaced(w)'
      OBVIOUS
    <3>1. rows'[w].nextPollAt = rows[w].nextPollAt \/ Scheduled(w)
      BY <1>1 DEF Effect
    <3>2. CASE Scheduled(w)
      BY <2>1, <2>2, <3>2 DEF Scheduled, Spaced
    <3>3. CASE ~Scheduled(w)
      BY <2>2, <3>1, <3>3 DEF Spaced, OInv
    <3> QED BY <3>2, <3>3
  <2>6. \A w \in Watches : IF Waiting(w)' THEN OvertakersLater(w)'
                                          ELSE overtook'[w] = {}
    BY <1>1, <1>3, OrderKeepsOvertakers
  <2> QED BY <1>1, <2>3, <2>4, <2>5, <2>6 DEF OInv
<1> QED BY <1>2, <1>3

LEMMA OInvHolds == OrderSpec => []OInv
<1> QED BY OInitInv, ONextInv, PTL DEF OrderSpec

(***************************************************************************)
(* Two runs of one watch are at least its interval or the backoff apart.   *)
(***************************************************************************)
THEOREM RunsKeepTheirDistance == OrderSpec => RunsSpaced
<1>1. OInv /\ [OrderNext]_orderVars =>
        \A w \in Watches : Starts(w) /\ lastEnd[w] # Never =>
            \/ now >= lastEnd[w] + PollInterval[w]
            \/ now >= lastEnd[w] + Backoff
  <2> SUFFICES ASSUME OInv, [OrderNext]_orderVars, NEW w \in Watches,
                      Starts(w), lastEnd[w] # Never
               PROVE  \/ now >= lastEnd[w] + PollInterval[w]
                      \/ now >= lastEnd[w] + Backoff
    OBVIOUS
  <2>1. Effect
    BY StepEffect DEF OInv, OrderNext, orderVars
  <2>2. rows[w].nextPollAt <= now
    BY <2>1 DEF Effect, Selected, Due
  <2>3. /\ now \in Nat /\ Backoff \in Nat /\ PollInterval[w] \in Nat
        /\ rows[w].nextPollAt \in Nat /\ lastEnd[w] \in Nat
    BY SchedulesAreNumbers DEF OInv
  <2> QED BY <2>2, <2>3 DEF OInv, Spaced
<1> QED BY <1>1, OInvHolds, PTL DEF OrderSpec, RunsSpaced

(***************************************************************************)
(* While a watch waits, no other watch starts twice: the first start moved *)
(* the overtaker's poll time past that of the waiting watch.               *)
(***************************************************************************)
THEOREM WatchesTakeTurns == OrderSpec => NoSecondOvertaking
<1>1. OInv /\ [OrderNext]_orderVars =>
        \A v, w \in Watches :
            Waiting(w) /\ Starts(v) /\ ~Starts(w) => v \notin overtook[w]
  <2> SUFFICES ASSUME OInv, [OrderNext]_orderVars,
                      NEW v \in Watches, NEW w \in Watches,
                      Waiting(w), Starts(v), v \in overtook[w]
               PROVE  FALSE
    OBVIOUS
  <2>1. Effect
    BY StepEffect DEF OInv, OrderNext, orderVars
  <2>2. v # w /\ rows[v].nextPollAt > rows[w].nextPollAt
    BY DEF OInv, OvertakersLater, Starts
  <2>3. Before(v, w)
    BY <2>1, <2>2 DEF Effect, Selected, Waiting
  <2>4. rows[v].nextPollAt \in Nat /\ rows[w].nextPollAt \in Nat
    BY SchedulesAreNumbers DEF OInv
  <2> QED BY <2>2, <2>3, <2>4 DEF Before
<1> QED BY <1>1, OInvHolds, PTL DEF OrderSpec, NoSecondOvertaking
=============================================================================
