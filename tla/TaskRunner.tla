----------------------------- MODULE TaskRunner -----------------------------
(***************************************************************************)
(* services/taskRunner.js: the in-memory task table, the lock table that   *)
(* keeps conflicting work apart, cancellation and history pruning.         *)
(*                                                                         *)
(* The process is single threaded; every action is a stretch of code with  *)
(* no await in it.  A task id is the position of the task in creation      *)
(* order, which is also the order of queued_at and of the tasks Map.       *)
(***************************************************************************)
EXTENDS Integers, FiniteSets

CONSTANTS Classes,          \* the classifications callers use
          Scopes,           \* scope_key values
          NoScope,          \* scope_key = null
          HandlerStatuses,  \* result.status values handlers return; the
                            \* handlers of this program only settle tasks
          HistoryLimit,     \* historyLimit of the constructor
          MaxTasks          \* bound: tasks created in one behaviour

TaskStates == {"queued", "running", "succeeded", "failed", "cancelled",
               "partial", "capped"}

ASSUME TaskRunnerAssumption ==
    /\ NoScope \notin Scopes
    /\ HandlerStatuses \subseteq TaskStates \ {"queued", "running"}
    /\ HistoryLimit \in Nat \ {0}
    /\ MaxTasks \in Nat

Ids  == 1..MaxTasks
Free == 0
(***************************************************************************)
(* lockKeysFor: at most one key per task, its prefix given by the class.   *)
(***************************************************************************)
ExclusiveKey == [kind |-> "exclusive", scope |-> "global"]

ScopedKey(kind, scope) ==
    IF scope = NoScope THEN {} ELSE {[kind |-> kind, scope |-> scope]}

LockKeysFor(class, scope) ==
    CASE class = "read-only" -> {}
      [] class = "metadata-only" -> ScopedKey("metadata", scope)
      [] class = "evidence-creating" ->
            ScopedKey("evidence", IF scope = NoScope THEN "global" ELSE scope)
      [] class \in {"destructive", "exclusive"} -> {ExclusiveKey}
      [] OTHER -> ScopedKey(class, scope)

KeySets == {LockKeysFor(c, s) : c \in Classes, s \in Scopes \cup {NoScope}}
Key == UNION KeySets

(***************************************************************************)
(* A record of the tasks Map; the status "none" is an id not in the Map.   *)
(***************************************************************************)
Task == [class : Classes, scope : Scopes \cup {NoScope},
         status : TaskStates, cancelRequested : BOOLEAN, finished : BOOLEAN]

Absent == [status |-> "none"]

VARIABLES tasks,        \* the tasks Map
          activeLocks,  \* key -> id of its owner, Free when not in the Map
          signal,       \* the task's AbortController: none, live or aborted
          handler,      \* the handler closure: idle, scheduled, executing, done
          nextId

vars == <<tasks, activeLocks, signal, handler, nextId>>

Present(t) == {i \in Ids : t[i] # Absent}
Active(task) == task.status \in {"queued", "running"}
Live(i) == handler[i] \in {"scheduled", "executing"}

TypeOK ==
    /\ tasks \in [Ids -> Task \cup {Absent}]
    /\ activeLocks \in [Key -> Ids \cup {Free}]
    /\ signal \in [Ids -> {"none", "live", "aborted"}]
    /\ handler \in [Ids -> {"idle", "scheduled", "executing", "done"}]
    /\ nextId \in 1..(MaxTasks + 1)

Init ==
    /\ tasks = [i \in Ids |-> Absent]
    /\ activeLocks = [k \in Key |-> Free]
    /\ signal = [i \in Ids |-> "none"]
    /\ handler = [i \in Ids |-> "idle"]
    /\ nextId = 1

-----------------------------------------------------------------------------
(* Locks.                                                                  *)

Held(k) == activeLocks[k] # Free

\* Mutant: an exclusive task joins running work, and work joins it.
LockConflictOwnKeyOnly(ks) == \E k \in ks : Held(k)

LockConflict(ks) ==
    /\ ks # {}
    /\ \/ ExclusiveKey \in Key /\ Held(ExclusiveKey)
       \/ \E k \in ks : Held(k)
       \/ ExclusiveKey \in ks /\ \E k \in Key : Held(k)

ReleaseLocks(i) ==
    activeLocks' = [k \in Key |-> IF activeLocks[k] = i THEN Free
                                                         ELSE activeLocks[k]]

-----------------------------------------------------------------------------
(* The task table.                                                         *)

\* Mutant: active tasks are pruned too.
PruneHistoryActiveToo(t) ==
    LET excess == Cardinality(Present(t)) - HistoryLimit
        Older(i) == {j \in Present(t) : j < i}
    IN  [i \in Ids |-> IF i \in Present(t) /\ Cardinality(Older(i)) < excess
                       THEN Absent ELSE t[i]]

(***************************************************************************)
(* Of the entries beyond the limit, oldest first, those that are not       *)
(* active are dropped; the active ones stay and are not made up for.       *)
(***************************************************************************)
PruneHistory(t) ==
    LET excess == Cardinality(Present(t)) - HistoryLimit
        Older(i) == {j \in Present(t) : j < i}
        oldest == {i \in Present(t) : Cardinality(Older(i)) < excess}
    IN  [i \in Ids |-> IF i \in oldest /\ ~Active(t[i]) THEN Absent ELSE t[i]]

NewTask(class, scope) ==
    [class |-> class, scope |-> scope, status |-> "queued",
     cancelRequested |-> FALSE, finished |-> FALSE]

Enqueued(class, scope) ==
    PruneHistory([tasks EXCEPT ![nextId] = NewTask(class, scope)])

(***************************************************************************)
(* runTask and runDetachedTask, up to the handler's first await: the task  *)
(* either fails at once with TASK_LOCKED or takes its locks.  runTask      *)
(* enters the handler in the same stretch of code, runDetachedTask leaves  *)
(* that to setImmediate.                                                   *)
(***************************************************************************)
RejectLocked(class, scope) ==
    /\ nextId <= MaxTasks
    /\ LockConflict(LockKeysFor(class, scope))
    /\ tasks' = [Enqueued(class, scope) EXCEPT ![nextId].status = "failed",
                                               ![nextId].finished = TRUE]
    /\ nextId' = nextId + 1
    /\ UNCHANGED <<activeLocks, signal, handler>>

StartTask(class, scope, detached) ==
    LET ks == LockKeysFor(class, scope) IN
    /\ nextId <= MaxTasks
    /\ ~LockConflict(ks)
    /\ tasks' = [Enqueued(class, scope) EXCEPT ![nextId].status = "running"]
    /\ activeLocks' = [k \in Key |-> IF k \in ks THEN nextId
                                                  ELSE activeLocks[k]]
    /\ signal' = [signal EXCEPT ![nextId] = "live"]
    /\ handler' = [handler EXCEPT ![nextId] = IF detached THEN "scheduled"
                                                           ELSE "executing"]
    /\ nextId' = nextId + 1

ExecuteDetached(i) ==
    /\ handler[i] = "scheduled"
    /\ handler' = [handler EXCEPT ![i] = "executing"]
    /\ UNCHANGED <<tasks, activeLocks, signal, nextId>>

(***************************************************************************)
(* executeTask after the handler settled: the outcome is written and the   *)
(* finally block releases the locks and the controller.                    *)
(***************************************************************************)
Settle(i, status) ==
    /\ handler[i] = "executing"
    /\ tasks' = [tasks EXCEPT ![i].status = status, ![i].finished = TRUE]
    /\ ReleaseLocks(i)
    /\ signal' = [signal EXCEPT ![i] = "none"]
    /\ handler' = [handler EXCEPT ![i] = "done"]
    /\ UNCHANGED nextId

\* Mutants: result.status is stored unchecked; a throw skips the finally.
HandlerReturnsUnchecked(i) ==
    \E status \in HandlerStatuses \cup {"succeeded", "unheard-of"} :
        Settle(i, status)

HandlerThrowsLeaking(i) ==
    /\ handler[i] = "executing"
    /\ tasks' = [tasks EXCEPT ![i].status = "failed", ![i].finished = TRUE]
    /\ handler' = [handler EXCEPT ![i] = "done"]
    /\ UNCHANGED <<activeLocks, signal, nextId>>

HandlerReturns(i) ==
    \E status \in HandlerStatuses \cup {"succeeded"} : Settle(i, status)

(***************************************************************************)
(* The handler throws a cancellation error.  A handler may do so because   *)
(* it observes its aborted signal, but executeTask does not look at the    *)
(* signal: HttpClient.json also throws HTTP_CANCELLED when the time limit  *)
(* of a request runs out in the pause before its next attempt.             *)
(***************************************************************************)
HandlerCancelled(i) == Settle(i, "cancelled")

\* The handler throws, or returns a status that is not in TASK_STATES.
HandlerThrows(i) == Settle(i, "failed")

\* Mutant: cancelling frees the locks at once.
CancelTaskReleasing(i) ==
    /\ tasks[i] # Absent /\ Active(tasks[i])
    /\ tasks' = [tasks EXCEPT ![i].cancelRequested = TRUE]
    /\ ReleaseLocks(i)
    /\ UNCHANGED <<signal, handler, nextId>>

CancelTask(i) ==
    /\ tasks[i] # Absent
    /\ Active(tasks[i])
    /\ tasks' = [tasks EXCEPT ![i].cancelRequested = TRUE]
    /\ signal' = [signal EXCEPT ![i] = IF @ = "live" THEN "aborted" ELSE @]
    /\ UNCHANGED <<activeLocks, handler, nextId>>

-----------------------------------------------------------------------------
Submit ==
    \E class \in Classes, scope \in Scopes \cup {NoScope} :
        \/ RejectLocked(class, scope)
        \/ \E detached \in BOOLEAN : StartTask(class, scope, detached)

Execute(i) == HandlerReturns(i) \/ HandlerCancelled(i) \/ HandlerThrows(i)

Next ==
    \/ Submit
    \/ \E i \in Ids : ExecuteDetached(i) \/ Execute(i) \/ CancelTask(i)

Spec == Init /\ [][Next]_vars

(***************************************************************************)
(* setImmediate callbacks run, and the awaits of a handler settle: every   *)
(* HTTP request of the collectors carries a timeout.                       *)
(***************************************************************************)
Fairness == \A i \in Ids : WF_vars(ExecuteDetached(i)) /\ WF_vars(Execute(i))

FairSpec == Spec /\ Fairness

-----------------------------------------------------------------------------
(* Properties.                                                             *)

KeysOf(i) == IF Live(i) THEN LockKeysFor(tasks[i].class, tasks[i].scope)
                        ELSE {}

(***************************************************************************)
(* The lock table says exactly which live handlers hold which keys: no     *)
(* lock outlives its handler and none is lost while the handler runs       *)
(* (prepareTask takes them, the finally block of executeTask drops them).  *)
(***************************************************************************)
LocksMatchHandlers ==
    \A k \in Key, i \in Ids : activeLocks[k] = i <=> k \in KeysOf(i)

(***************************************************************************)
(* Handlers that are live at the same time never share a lock key, and a   *)
(* live destructive or exclusive handler has no locked company             *)
(* (lockConflictFor).                                                      *)
(***************************************************************************)
HandlersIsolated ==
    \A i, j \in Ids :
        (i # j /\ KeysOf(i) # {} /\ KeysOf(j) # {}) =>
            /\ KeysOf(i) \cap KeysOf(j) = {}
            /\ ExclusiveKey \notin KeysOf(i)

(***************************************************************************)
(* pruneHistory never removes the record of a task whose handler has yet   *)
(* to settle; progress, warn and the final updateTask would throw          *)
(* "Unknown task" and the outcome would be lost.                           *)
(***************************************************************************)
LiveTaskRecorded ==
    \A i \in Ids : Live(i) => /\ tasks[i] # Absent
                              /\ tasks[i].status = "running"
                              /\ ~tasks[i].finished

(***************************************************************************)
(* The record of a finished task is never changed again, by a late cancel  *)
(* or by anything else; it can only be pruned.                             *)
(***************************************************************************)
FinishedIsFinal ==
    [][\A i \in Ids : (tasks[i] # Absent /\ tasks[i].finished) =>
            tasks'[i] \in {tasks[i], Absent}]_vars

(***************************************************************************)
(* Every lock is released some time after it was taken: whichever way the  *)
(* handler settles, the finally block runs.                                *)
(***************************************************************************)
LocksReleased == \A k \in Key : Held(k) ~> ~Held(k)

(***************************************************************************)
(* The runner implements the abstract admission of TaskIsolation, with the *)
(* keys of the live handlers as the abstract holders.                      *)
(***************************************************************************)
Isolation == INSTANCE TaskIsolation WITH
    Workers <- Ids, KeySets <- KeySets, SoleKey <- ExclusiveKey,
    inside <- [i \in Ids |-> KeysOf(i)]

ImplementsIsolation == Isolation!Spec
=============================================================================
