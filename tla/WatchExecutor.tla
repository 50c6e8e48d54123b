---------------------------- MODULE WatchExecutor ----------------------------
(***************************************************************************)
(* watchlist/watchExecutor.js and watchScheduler.js on top of the task     *)
(* runner: the session executor that runs due watches one at a time, the   *)
(* schedule it reads from the watch rows and writes back to them, and what *)
(* a restart of the process keeps of both.                                 *)
(*                                                                         *)
(* A watch is its position in the order by watch_type and watch_id.  Times *)
(* are positive numbers and 0 stands for NULL, which sorts first.          *)
(***************************************************************************)
EXTENDS TaskRunner

CONSTANTS Watches,        \* rows of watchlist_entities and system_watches
          ScopeOf,        \* watch -> its scope_key
          PollInterval,   \* watch -> poll_interval_minutes
          Backoff,        \* backoffMinutes
          Malformed,      \* watches whose stored scope is unusable at first
          SharedGate,     \* watches whose gate fingerprint operators also use
          OtherClasses,   \* classes of the other tasks of the program
          NoWatch,
          MaxTime         \* bound: the clock stops there

ASSUME WatchAssumption ==
    /\ Watches \subseteq Nat
    /\ NoWatch \notin Watches
    /\ ScopeOf \in [Watches -> Scopes]
    /\ PollInterval \in [Watches -> Nat \ {0}]
    /\ Backoff \in Nat \ {0}
    /\ MaxTime \in Nat
    /\ "evidence-creating" \in Classes
    /\ SharedGate \subseteq Watches
    /\ OtherClasses \subseteq Classes

Never == 0

Row == [active : BOOLEAN, scopeValid : BOOLEAN,
        nextPollAt : Nat, backoffUntil : Nat, lastSuccessAt : Nat]

VARIABLES rows,          \* the watch rows of the database
          sessionArmed,  \* armed for this session
          interval,      \* the poll interval is running
          activeTaskId,  \* the task the executor takes for its own, or Free
          runs,          \* task -> the watch its handler is running
          cooling,       \* watches whose fingerprint is cooling down
          liveApi,       \* AURA_ATLAS_LIVE_API of this process
          now            \* the clock

executor == <<sessionArmed, interval, activeTaskId, runs>>
world    == <<cooling, liveApi, now>>
watchVars == <<vars, rows, executor, world>>

WatchTypeOK ==
    /\ TypeOK
    /\ rows \in [Watches -> Row]
    /\ sessionArmed \in BOOLEAN
    /\ interval \in BOOLEAN
    /\ activeTaskId \in Ids \cup {Free}
    /\ runs \in [Ids -> Watches \cup {NoWatch}]
    /\ cooling \subseteq Watches
    /\ liveApi \in BOOLEAN
    /\ now \in Nat \ {0}

WatchInit ==
    /\ Init
    /\ sessionArmed = FALSE
    /\ interval = FALSE
    /\ activeTaskId = Free
    /\ runs = [i \in Ids |-> NoWatch]
    /\ cooling = {}
    /\ liveApi \in BOOLEAN
    /\ rows = [w \in Watches |->
                 [active |-> TRUE, scopeValid |-> w \notin Malformed,
                  nextPollAt |-> Never, backoffUntil |-> Never,
                  lastSuccessAt |-> Never]]
    /\ now = 1

-----------------------------------------------------------------------------
(* The schedule.                                                           *)

\* Mutant: backoff_until and next_poll_at are not compared with the clock.
DueActiveOnly(w) == rows[w].active

Due(w) ==
    /\ rows[w].active
    /\ rows[w].backoffUntil <= now
    /\ rows[w].nextPollAt <= now

Before(v, w) ==
    \/ rows[v].nextPollAt < rows[w].nextPollAt
    \/ /\ rows[v].nextPollAt = rows[w].nextPollAt
       /\ \/ rows[v].lastSuccessAt < rows[w].lastSuccessAt
          \/ rows[v].lastSuccessAt = rows[w].lastSuccessAt /\ v < w

Selected(w) ==
    /\ Due(w)
    /\ \A v \in Watches \ {w} : Due(v) => Before(w, v)

\* recordWatchRunResult.
RecordSuccess(w) ==
    rows' = [rows EXCEPT ![w].lastSuccessAt = now,
                         ![w].backoffUntil = Never,
                         ![w].nextPollAt = now + PollInterval[w]]

\* Mutant: the backoff is taken off the time instead of added to it.
RecordFailureBackdated(w) ==
    rows' = [rows EXCEPT ![w].lastSuccessAt = Never,
                         ![w].backoffUntil = now - Backoff,
                         ![w].nextPollAt = now - Backoff]

RecordFailure(w) ==
    rows' = [rows EXCEPT ![w].lastSuccessAt = Never,
                         ![w].backoffUntil = now + Backoff,
                         ![w].nextPollAt = now + Backoff]

-----------------------------------------------------------------------------
(* A tick.                                                                 *)

\* isTaskActive.  Mutants: only a task whose handler has started counts as
\* active; a task that is over is never forgotten.
TaskActiveOnceStarted ==
    activeTaskId # Free /\ handler[activeTaskId] = "executing"

TaskActiveForever == activeTaskId # Free

TaskActive == activeTaskId # Free /\ Active(tasks[activeTaskId])

\* A task that is not active is forgotten by those who ask.
Remembered == IF TaskActive THEN activeTaskId ELSE Free

GateOpen(w) == liveApi /\ w \notin cooling

Dispatchable(w, live) ==
    live /\ Selected(w) /\ rows[w].scopeValid /\ GateOpen(w)

(***************************************************************************)
(* The dispatch of a selected watch: a detached task of the runner.  When  *)
(* a lock refuses it the task is finished at once, the row stays as it is  *)
(* and the executor is left with the given id.                             *)
(***************************************************************************)
Dispatch(w, refusedId) ==
    \/ /\ StartTask("evidence-creating", ScopeOf[w], TRUE)
       /\ runs' = [runs EXCEPT ![nextId] = w]
       /\ activeTaskId' = nextId
    \/ /\ RejectLocked("evidence-creating", ScopeOf[w])
       /\ activeTaskId' = refusedId
       /\ UNCHANGED runs

\* tick of an armed session; live is its option or the process's setting.
TickArmed(live, refusedId) ==
    \/ /\ TaskActive \/ \A w \in Watches : ~Dispatchable(w, live)
       /\ activeTaskId' = Remembered
       /\ UNCHANGED <<vars, runs>>
    \/ \E w \in Watches : /\ ~TaskActive
                          /\ Dispatchable(w, live)
                          /\ Dispatch(w, refusedId)

Tick(live) ==
    /\ sessionArmed
    /\ TickArmed(live, nextId)
    /\ UNCHANGED <<sessionArmed, interval, rows, world>>

IntervalTick == interval /\ Tick(liveApi)

\* watch.executor.tick, whose payload may set the option.
TickCommand == \E live \in BOOLEAN : Tick(live)

(***************************************************************************)
(* arm ticks at once and then reads the status, which forgets a task that  *)
(* was refused; its payload may keep the interval from being started.      *)
(***************************************************************************)
Arm ==
    \E live, startInterval \in BOOLEAN :
        /\ sessionArmed' = TRUE
        /\ interval' = (interval \/ startInterval)
        /\ TickArmed(live, Free)
        /\ UNCHANGED <<rows, world>>

\* Mutant: disarming forgets the task that is running.
DisarmForgetting ==
    /\ sessionArmed' = FALSE
    /\ interval' = FALSE
    /\ activeTaskId' = Free
    /\ UNCHANGED <<vars, rows, runs, world>>

Disarm ==
    /\ sessionArmed' = FALSE
    /\ interval' = FALSE
    /\ activeTaskId' = Remembered
    /\ UNCHANGED <<vars, rows, runs, world>>

Status ==
    /\ activeTaskId' = Remembered
    /\ UNCHANGED <<vars, rows, sessionArmed, interval, runs, world>>

-----------------------------------------------------------------------------
(* The run of a watch, and everybody else.                                 *)

Running(w) == \E i \in Ids : runs[i] = w

\* Mutant: the result of a cancelled run is not recorded.
FinishRunUnrecorded(i) ==
    /\ runs[i] # NoWatch
    /\ \/ Settle(i, "succeeded") /\ RecordSuccess(runs[i])
       \/ Settle(i, "failed") /\ RecordFailure(runs[i])
       \/ HandlerCancelled(i) /\ UNCHANGED rows
    /\ runs' = [runs EXCEPT ![i] = NoWatch]
    /\ UNCHANGED <<sessionArmed, interval, activeTaskId, world>>

(***************************************************************************)
(* The handler's closure settles: its result is written to the row of the  *)
(* watch in the same stretch of code that finishes the task.               *)
(***************************************************************************)
FinishRun(i) ==
    /\ runs[i] # NoWatch
    /\ \/ Settle(i, "succeeded") /\ RecordSuccess(runs[i])
       \/ Settle(i, "failed") /\ RecordFailure(runs[i])
       \/ HandlerCancelled(i) /\ RecordFailure(runs[i])
    /\ runs' = [runs EXCEPT ![i] = NoWatch]
    /\ UNCHANGED <<sessionArmed, interval, activeTaskId, world>>

\* Any other command that runs as a task, and the cancellation of any task.
OtherSubmit ==
    \E class \in OtherClasses, scope \in Scopes \cup {NoScope} :
        \/ RejectLocked(class, scope)
        \/ \E detached \in BOOLEAN : StartTask(class, scope, detached)

OtherTask ==
    /\ \/ OtherSubmit
       \/ \E i \in Ids : \/ ExecuteDetached(i)
                         \/ CancelTask(i)
                         \/ runs[i] = NoWatch /\ Execute(i)
    /\ UNCHANGED <<rows, executor, world>>

\* watch.create and watch.update: an existing row keeps its schedule.
SaveWatch(w, active) ==
    /\ rows' = [rows EXCEPT ![w].active = active, ![w].scopeValid = TRUE]
    /\ UNCHANGED <<vars, executor, world>>

\* watch.recordRun, with the default times.
RecordRun(w) ==
    /\ RecordSuccess(w) \/ RecordFailure(w)
    /\ UNCHANGED <<vars, executor, world>>

\* A command of an operator enters the gate with the watch's fingerprint.
AcceptAttempt(w) ==
    /\ GateOpen(w)
    /\ cooling' = cooling \cup {w}
    /\ UNCHANGED <<vars, rows, executor, liveApi, now>>

CooldownEnds(w) ==
    /\ w \in cooling
    /\ cooling' = cooling \ {w}
    /\ UNCHANGED <<vars, rows, executor, liveApi, now>>

ClockTick ==
    /\ now < MaxTime
    /\ now' = now + 1
    /\ UNCHANGED <<vars, rows, executor, cooling, liveApi>>

\* The process ends and another one starts: only the database survives.
Restart ==
    /\ tasks' = [i \in Ids |-> Absent]
    /\ activeLocks' = [k \in Key |-> Free]
    /\ signal' = [i \in Ids |-> "none"]
    /\ handler' = [i \in Ids |-> "idle"]
    /\ nextId' = 1
    /\ sessionArmed' = FALSE
    /\ interval' = FALSE
    /\ activeTaskId' = Free
    /\ runs' = [i \in Ids |-> NoWatch]
    /\ cooling' = {}
    /\ liveApi' \in BOOLEAN
    /\ UNCHANGED <<rows, now>>

Operator ==
    \/ Arm \/ Disarm \/ Status \/ TickCommand
    \/ \E w \in Watches : \/ \E active \in BOOLEAN : SaveWatch(w, active)
                          \/ RecordRun(w)
    \/ \E w \in SharedGate : AcceptAttempt(w)

WatchNext ==
    \/ Operator
    \/ IntervalTick
    \/ \E i \in Ids : FinishRun(i)
    \/ OtherTask
    \/ \E w \in Watches : CooldownEnds(w)
    \/ ClockTick
    \/ Restart

WatchSpec == WatchInit /\ [][WatchNext]_watchVars

(***************************************************************************)
(* The interval timer and setImmediate fire, and the awaits of a handler   *)
(* settle: every HTTP request of the collectors carries a timeout.         *)
(***************************************************************************)
StartHandler(i) == ExecuteDetached(i) /\ UNCHANGED <<rows, executor, world>>

WatchFairness ==
    /\ WF_watchVars(IntervalTick)
    /\ \A i \in Ids : WF_watchVars(StartHandler(i)) /\ WF_watchVars(FinishRun(i))

-----------------------------------------------------------------------------
(* Properties.                                                             *)

Expected(w) == sessionArmed /\ interval /\ liveApi /\ Due(w)

(***************************************************************************)
(* A watch that is due while the session stays armed and polling is run in *)
(* the end, whatever the other watches do and however their runs end:      *)
(* tick, isTaskActive and the order of selectDueWatch.  Watches without a  *)
(* usable scope and busy gates are left out: they stop the whole queue.    *)
(* The bound MaxTasks on the ids ends the promise of the model, no more.   *)
(***************************************************************************)
DueWatchRuns ==
    \A w \in Watches :
        Expected(w) ~> (Running(w) \/ ~Expected(w) \/ nextId > MaxTasks)

(***************************************************************************)
(* The executor never has two watch runs in flight, whatever is disarmed,  *)
(* armed, ticked, cancelled, refused or pruned in between (the check of    *)
(* activeTaskId in tick, pruneHistory of the runner).                      *)
(***************************************************************************)
OneRunAtATime ==
    \A i, j \in Ids : runs[i] # NoWatch /\ runs[j] # NoWatch => i = j

(***************************************************************************)
(* The run in flight is the task the executor remembers and one that is    *)
(* live, so that status shows it and the next tick sees it.                *)
(***************************************************************************)
RunIsRemembered ==
    \A i \in Ids : runs[i] # NoWatch =>
        /\ activeTaskId = i
        /\ Live(i)
        /\ tasks[i].scope = ScopeOf[runs[i]]

\* Watch w starts to run in this step.
Starts(w) == ~Running(w) /\ Running(w)'
=============================================================================
