-------------------------- MODULE TaskRunnerProofs --------------------------
(***************************************************************************)
(* Theorems about TaskRunner for every choice of its constants.            *)
(***************************************************************************)
EXTENDS TaskRunner, TLAPS

(***************************************************************************)
(* The exclusive key, when held, is the only key held.                     *)
(***************************************************************************)
ExclusiveAlone ==
    (ExclusiveKey \in Key /\ Held(ExclusiveKey)) =>
        \A k \in Key : Held(k) => k = ExclusiveKey

(***************************************************************************)
(* An id that was not handed out has no record and no handler.             *)
(***************************************************************************)
UnusedIdsClean ==
    \A i \in Ids : i >= nextId => tasks[i] = Absent /\ handler[i] = "idle"

(***************************************************************************)
(* A finished record has a settled status, so cancelTask leaves it alone.  *)
(***************************************************************************)
FinishedInactive ==
    \A i \in Ids : (tasks[i] # Absent /\ tasks[i].finished) => ~Active(tasks[i])

IInv ==
    /\ TypeOK
    /\ LiveTaskRecorded
    /\ LocksMatchHandlers
    /\ ExclusiveAlone
    /\ UnusedIdsClean
    /\ FinishedInactive

-----------------------------------------------------------------------------
(***************************************************************************)
(* A record of the Map is never the marker of absence.                     *)
(***************************************************************************)
LEMMA AbsentIsNoTask ==
    /\ Absent \notin Task
    /\ Absent.status = "none"
    /\ ~Active(Absent)
  BY DEF Absent, Task, TaskStates, Active

(***************************************************************************)
(* The keys a submitted task asks for are lock keys (lockKeysFor).         *)
(***************************************************************************)
LEMMA LockKeysAreKeys ==
    ASSUME NEW class \in Classes, NEW scope \in Scopes \cup {NoScope}
    PROVE  /\ LockKeysFor(class, scope) \in KeySets
           /\ LockKeysFor(class, scope) \subseteq Key
  BY DEF KeySets, Key

(***************************************************************************)
(* pruneHistory only drops records, and never one of an active task.       *)
(***************************************************************************)
LEMMA PruneKeepsActive ==
    ASSUME NEW t \in [Ids -> Task \cup {Absent}]
    PROVE  /\ PruneHistory(t) \in [Ids -> Task \cup {Absent}]
           /\ \A i \in Ids : PruneHistory(t)[i] \in {t[i], Absent}
           /\ \A i \in Ids : Active(t[i]) => PruneHistory(t)[i] = t[i]
<1> DEFINE excess == Cardinality(Present(t)) - HistoryLimit
           oldest == {i \in Present(t) :
                        Cardinality({j \in Present(t) : j < i}) < excess}
<1>1. PruneHistory(t) =
        [i \in Ids |-> IF i \in oldest /\ ~Active(t[i]) THEN Absent ELSE t[i]]
  BY DEF PruneHistory
<1> HIDE DEF oldest
<1> QED BY <1>1

(***************************************************************************)
(* Adding a task: every other record stays or is dropped, the active ones  *)
(* stay, and the new one is there (createTask, prepareTask).               *)
(***************************************************************************)
LEMMA EnqueuedRecords ==
    ASSUME TypeOK, nextId <= MaxTasks,
           NEW class \in Classes, NEW scope \in Scopes \cup {NoScope}
    PROVE  /\ Enqueued(class, scope) \in [Ids -> Task \cup {Absent}]
           /\ Enqueued(class, scope)[nextId] = NewTask(class, scope)
           /\ \A i \in Ids \ {nextId} :
                 /\ Enqueued(class, scope)[i] \in {tasks[i], Absent}
                 /\ Active(tasks[i]) => Enqueued(class, scope)[i] = tasks[i]
<1> DEFINE t == [tasks EXCEPT ![nextId] = NewTask(class, scope)]
<1>1. nextId \in Ids
  BY TaskRunnerAssumption DEF TypeOK, Ids
<1>2. NewTask(class, scope) \in Task /\ Active(NewTask(class, scope))
  BY DEF NewTask, Task, TaskStates, Active
<1>3. t \in [Ids -> Task \cup {Absent}]
  BY <1>2 DEF TypeOK
<1>4. /\ t[nextId] = NewTask(class, scope)
      /\ \A i \in Ids \ {nextId} : t[i] = tasks[i]
  BY <1>1 DEF TypeOK
<1>5. Enqueued(class, scope) = PruneHistory(t)
  BY DEF Enqueued
<1> HIDE DEF t
<1> QED BY <1>1, <1>2, <1>3, <1>4, <1>5, PruneKeepsActive

-----------------------------------------------------------------------------
LEMMA InitIInv == Init => IInv
<1> SUFFICES ASSUME Init PROVE IInv
  OBVIOUS
<1>1. TypeOK
  BY TaskRunnerAssumption DEF Init, TypeOK, Ids, Free
<1>2. LiveTaskRecorded /\ UnusedIdsClean /\ FinishedInactive
  BY DEF Init, LiveTaskRecorded, UnusedIdsClean, FinishedInactive, Live
<1>3. LocksMatchHandlers
  BY DEF Init, LocksMatchHandlers, KeysOf, Live, Ids, Free
<1>4. ExclusiveAlone
  BY DEF Init, ExclusiveAlone, Held
<1> QED BY <1>1, <1>2, <1>3, <1>4 DEF IInv

(***************************************************************************)
(* A rejected task changes nothing but the table, where it is finished.    *)
(***************************************************************************)
LEMMA RejectIInv ==
    ASSUME IInv, NEW class \in Classes, NEW scope \in Scopes \cup {NoScope},
           RejectLocked(class, scope)
    PROVE  IInv'
<1> DEFINE new == [NewTask(class, scope) EXCEPT !.status = "failed",
                                                !.finished = TRUE]
<1> USE DEF IInv
<1>1. nextId \in Ids /\ nextId' \in 1..(MaxTasks + 1) /\ nextId' = nextId + 1
  BY TaskRunnerAssumption DEF RejectLocked, TypeOK, Ids
<1>2. new \in Task
  BY DEF NewTask, Task, TaskStates
<1>3. /\ tasks' = [Enqueued(class, scope) EXCEPT ![nextId] = new]
      /\ UNCHANGED <<activeLocks, signal, handler>>
  <2>1. Enqueued(class, scope)[nextId] = NewTask(class, scope)
    BY EnqueuedRecords DEF RejectLocked
  <2> QED BY <2>1 DEF RejectLocked, NewTask
<1>4. /\ tasks' \in [Ids -> Task \cup {Absent}]
      /\ \A i \in Ids \ {nextId} :
            /\ tasks'[i] \in {tasks[i], Absent}
            /\ Active(tasks[i]) => tasks'[i] = tasks[i]
  <2>1. nextId <= MaxTasks
    BY DEF RejectLocked
  <2>2. /\ Enqueued(class, scope) \in [Ids -> Task \cup {Absent}]
        /\ \A i \in Ids \ {nextId} :
              /\ Enqueued(class, scope)[i] \in {tasks[i], Absent}
              /\ Active(tasks[i]) => Enqueued(class, scope)[i] = tasks[i]
    BY <2>1, EnqueuedRecords
  <2> HIDE DEF new
  <2> QED BY <1>1, <1>2, <1>3, <2>2
<1>5. ~Live(nextId)
  BY <1>1 DEF UnusedIdsClean, Live, TypeOK, Ids
<1>6. \A i \in Ids : Live(i) => tasks'[i] = tasks[i]
  BY <1>4, <1>5 DEF LiveTaskRecorded, Active
<1>7. TypeOK'
  BY <1>1, <1>3, <1>4 DEF TypeOK
<1>8. LiveTaskRecorded'
  BY <1>3, <1>6 DEF LiveTaskRecorded, Live
<1>9. LocksMatchHandlers'
  BY <1>3, <1>6 DEF LocksMatchHandlers, KeysOf, Live
<1>10. ExclusiveAlone'
  BY <1>3 DEF ExclusiveAlone, Held
<1>11. UnusedIdsClean'
  <2>1. \A i \in Ids : i >= nextId' => i # nextId /\ i >= nextId
    BY <1>1 DEF Ids
  <2> QED BY <1>3, <1>4, <2>1 DEF UnusedIdsClean
<1>12. FinishedInactive'
  <2>1. tasks'[nextId] = new /\ ~Active(new)
    BY <1>1, <1>3, <1>4 DEF Active, NewTask
  <2> QED BY <1>4, <2>1 DEF FinishedInactive, Active
<1> QED BY <1>7, <1>8, <1>9, <1>10, <1>11, <1>12

(***************************************************************************)
(* What starting a task does to the records, the handlers and the keys.    *)
(***************************************************************************)
LEMMA StartEffect ==
    ASSUME IInv, NEW class \in Classes, NEW scope \in Scopes \cup {NoScope},
           NEW detached \in BOOLEAN, StartTask(class, scope, detached)
    PROVE  /\ nextId \in Ids /\ nextId' \in 1..(MaxTasks + 1)
           /\ nextId' = nextId + 1
           /\ tasks' \in [Ids -> Task \cup {Absent}]
           /\ tasks'[nextId] \in Task
           /\ tasks'[nextId].status = "running" /\ ~tasks'[nextId].finished
           /\ \A i \in Ids \ {nextId} : tasks'[i] \in {tasks[i], Absent}
           /\ \A i \in Ids \ {nextId} : Live(i) => tasks'[i] = tasks[i]
           /\ handler' \in [Ids -> {"idle", "scheduled", "executing", "done"}]
           /\ handler'[nextId] \in {"scheduled", "executing"}
           /\ \A i \in Ids \ {nextId} : handler'[i] = handler[i]
           /\ ~Live(nextId) /\ KeysOf(nextId) = {}
           /\ \A i \in Ids : KeysOf(i)' = IF i = nextId
                                           THEN LockKeysFor(class, scope)
                                           ELSE KeysOf(i)
<1> DEFINE ks == LockKeysFor(class, scope)
           new == [NewTask(class, scope) EXCEPT !.status = "running"]
<1> USE DEF IInv
<1>1. nextId \in Ids /\ nextId' \in 1..(MaxTasks + 1) /\ nextId' = nextId + 1
  BY TaskRunnerAssumption DEF StartTask, TypeOK, Ids
<1>2. /\ new \in Task
      /\ new.class = class
      /\ new.scope = scope
      /\ new.status = "running"
      /\ ~new.finished
  BY DEF NewTask, Task, TaskStates
<1>3. tasks' = [Enqueued(class, scope) EXCEPT ![nextId] = new]
  <2>1. Enqueued(class, scope)[nextId] = NewTask(class, scope)
    BY EnqueuedRecords DEF StartTask
  <2> QED BY <2>1 DEF StartTask, NewTask
<1> HIDE DEF new
<1>4. /\ tasks' \in [Ids -> Task \cup {Absent}]
      /\ tasks'[nextId] = new
      /\ \A i \in Ids \ {nextId} :
            /\ tasks'[i] \in {tasks[i], Absent}
            /\ Active(tasks[i]) => tasks'[i] = tasks[i]
  BY <1>1, <1>2, <1>3, EnqueuedRecords DEF StartTask
<1>5. ~Live(nextId) /\ KeysOf(nextId) = {}
  BY <1>1 DEF UnusedIdsClean, Live, TypeOK, Ids, KeysOf
<1>6. \A i \in Ids \ {nextId} : Live(i) => tasks'[i] = tasks[i]
  BY <1>4 DEF LiveTaskRecorded, Active
<1>7. /\ handler' \in [Ids -> {"idle", "scheduled", "executing", "done"}]
      /\ handler'[nextId] \in {"scheduled", "executing"}
      /\ \A i \in Ids \ {nextId} : handler'[i] = handler[i]
  BY <1>1 DEF StartTask, TypeOK
<1>8. \A i \in Ids : KeysOf(i)' = IF i = nextId THEN ks ELSE KeysOf(i)
  <2> SUFFICES ASSUME NEW i \in Ids
               PROVE  KeysOf(i)' = IF i = nextId THEN ks ELSE KeysOf(i)
    OBVIOUS
  <2>1. CASE i = nextId
    BY <1>1, <1>2, <1>4, <1>7, <2>1 DEF KeysOf, Live
  <2>2. CASE i # nextId
    BY <1>6, <1>7, <2>2 DEF KeysOf, Live
  <2> QED BY <2>1, <2>2
<1> QED BY <1>1, <1>2, <1>4, <1>5, <1>6, <1>7, <1>8

(***************************************************************************)
(* A task only starts under keys that are all free, and alone if one of    *)
(* them is the exclusive key (lockConflictFor).                            *)
(***************************************************************************)
LEMMA StartKeysFree ==
    ASSUME NEW ks \in KeySets, ~LockConflict(ks)
    PROVE  /\ ks \subseteq Key
           /\ \A k \in ks : ~Held(k)
           /\ (ks # {} /\ ExclusiveKey \in Key) => ~Held(ExclusiveKey)
           /\ ExclusiveKey \in ks => \A k \in Key : ~Held(k)
  BY DEF LockConflict, Key

(***************************************************************************)
(* A started task takes free keys, and all of them.                        *)
(***************************************************************************)
LEMMA StartIInv ==
    ASSUME IInv, NEW class \in Classes, NEW scope \in Scopes \cup {NoScope},
           NEW detached \in BOOLEAN, StartTask(class, scope, detached)
    PROVE  IInv'
<1> DEFINE ks == LockKeysFor(class, scope)
<1> USE DEF IInv
<1>1. /\ nextId \in Ids /\ nextId' \in 1..(MaxTasks + 1)
      /\ nextId' = nextId + 1
  BY StartEffect
<1>2. /\ tasks' \in [Ids -> Task \cup {Absent}]
      /\ tasks'[nextId] \in Task
      /\ tasks'[nextId].status = "running" /\ ~tasks'[nextId].finished
      /\ \A i \in Ids \ {nextId} : tasks'[i] \in {tasks[i], Absent}
      /\ \A i \in Ids \ {nextId} : Live(i) => tasks'[i] = tasks[i]
  BY StartEffect
<1>3. /\ handler' \in [Ids -> {"idle", "scheduled", "executing", "done"}]
      /\ \A i \in Ids \ {nextId} : handler'[i] = handler[i]
  BY StartEffect
<1>4. /\ KeysOf(nextId) = {}
      /\ \A i \in Ids : KeysOf(i)' = IF i = nextId THEN ks ELSE KeysOf(i)
  BY StartEffect
<1>5. ks \in KeySets /\ ~LockConflict(ks)
  BY LockKeysAreKeys DEF StartTask
<1>6. ks \subseteq Key /\ \A k \in ks : ~Held(k)
  BY <1>5, StartKeysFree
<1>7. /\ (ks # {} /\ ExclusiveKey \in Key) => ~Held(ExclusiveKey)
      /\ ExclusiveKey \in ks => \A k \in Key : ~Held(k)
  BY <1>5, StartKeysFree
<1>8. /\ activeLocks' = [k \in Key |-> IF k \in ks THEN nextId
                                                  ELSE activeLocks[k]]
      /\ signal' = [signal EXCEPT ![nextId] = "live"]
  BY DEF StartTask
<1>9. \A k \in Key : activeLocks'[k] = IF k \in ks THEN nextId
                                                 ELSE activeLocks[k]
  BY <1>8
<1>10. ks # {ExclusiveKey} => ExclusiveKey \notin ks
  BY DEF LockKeysFor, ScopedKey, ExclusiveKey
<1> HIDE DEF ks
<1>11. TypeOK'
  BY <1>1, <1>2, <1>3, <1>8 DEF TypeOK
<1>12. LiveTaskRecorded'
  <2>1. tasks'[nextId] # Absent
    BY <1>2, AbsentIsNoTask
  <2> QED BY <1>1, <1>2, <1>3, <2>1 DEF LiveTaskRecorded, Live
<1>13. LocksMatchHandlers'
  <2> SUFFICES ASSUME NEW k \in Key, NEW i \in Ids
               PROVE  activeLocks'[k] = i <=> k \in KeysOf(i)'
    BY DEF LocksMatchHandlers
  <2>1. activeLocks[k] = i <=> k \in KeysOf(i)
    BY DEF LocksMatchHandlers
  <2>2. CASE i = nextId
    <3>1. activeLocks[k] # nextId
      BY <1>1, <1>4 DEF LocksMatchHandlers
    <3>2. KeysOf(i)' = ks
      BY <1>4, <2>2
    <3> QED BY <1>9, <2>2, <3>1, <3>2
  <2>3. CASE i # nextId
    <3>1. k \in ks => k \notin KeysOf(i)
      BY <1>6, <2>1 DEF Held, Ids, Free
    <3>2. KeysOf(i)' = KeysOf(i)
      BY <1>4, <2>3
    <3> QED BY <1>9, <2>1, <2>3, <3>1, <3>2
  <2> QED BY <2>2, <2>3
<1>14. ExclusiveAlone'
  <2> SUFFICES ASSUME ExclusiveKey \in Key, Held(ExclusiveKey)',
                      NEW k \in Key, Held(k)'
               PROVE  k = ExclusiveKey
    BY DEF ExclusiveAlone, Held, ExclusiveKey
  <2>1. activeLocks'[ExclusiveKey] # Free /\ activeLocks'[k] # Free
    BY DEF Held, ExclusiveKey
  <2>2. CASE ExclusiveKey \in ks
    BY <1>7, <1>9, <1>10, <2>1, <2>2 DEF Held
  <2>3. CASE ExclusiveKey \notin ks
    BY <1>7, <1>9, <2>1, <2>3 DEF Held, ExclusiveAlone
  <2> QED BY <2>2, <2>3
<1>15. UnusedIdsClean'
  <2>1. \A i \in Ids : i >= nextId' => i # nextId /\ i >= nextId
    BY <1>1 DEF Ids
  <2> QED BY <1>2, <1>3, <2>1 DEF UnusedIdsClean
<1>16. FinishedInactive'
  BY <1>2 DEF FinishedInactive, Active
<1> QED BY <1>11, <1>12, <1>13, <1>14, <1>15, <1>16

(***************************************************************************)
(* Settling drops exactly the keys of the settled handler (executeTask).   *)
(***************************************************************************)
LEMMA SettleEffect ==
    ASSUME IInv, NEW i \in Ids, NEW status \in TaskStates, Settle(i, status)
    PROVE  /\ tasks' \in [Ids -> Task \cup {Absent}]
           /\ tasks'[i].status = status
           /\ \A j \in Ids \ {i} : tasks'[j] = tasks[j]
           /\ handler' \in [Ids -> {"idle", "scheduled", "executing", "done"}]
           /\ ~Live(i)'
           /\ \A j \in Ids \ {i} : handler'[j] = handler[j]
           /\ \A j \in Ids : KeysOf(j)' = IF j = i THEN {} ELSE KeysOf(j)
<1> USE DEF IInv
<1>1. tasks[i] \in Task
  BY DEF LiveTaskRecorded, Live, Settle, TypeOK
<1>2. /\ tasks' \in [Ids -> Task \cup {Absent}]
      /\ tasks'[i].status = status
      /\ \A j \in Ids \ {i} : tasks'[j] = tasks[j]
  <2> DEFINE new == [tasks[i] EXCEPT !.status = status, !.finished = TRUE]
  <2>1. new \in Task /\ new.status = status
    BY <1>1 DEF Task
  <2>2. tasks' = [tasks EXCEPT ![i] = new]
    BY DEF Settle
  <2> HIDE DEF new
  <2> QED BY <2>1, <2>2 DEF TypeOK
<1>3. /\ handler' = [handler EXCEPT ![i] = "done"]
      /\ handler' \in [Ids -> {"idle", "scheduled", "executing", "done"}]
      /\ \A j \in Ids \ {i} : handler'[j] = handler[j]
      /\ handler'[i] = "done"
  BY DEF Settle, TypeOK
<1>4. ~Live(i)'
  BY <1>3 DEF Live
<1>5. \A j \in Ids : KeysOf(j)' = IF j = i THEN {} ELSE KeysOf(j)
  BY <1>2, <1>3, <1>4 DEF KeysOf, Live
<1> QED BY <1>2, <1>3, <1>4, <1>5

LEMMA SettleIInv ==
    ASSUME IInv, NEW i \in Ids, NEW status \in TaskStates \ {"queued", "running"},
           Settle(i, status)
    PROVE  IInv'
<1> USE DEF IInv
<1>1. /\ tasks' \in [Ids -> Task \cup {Absent}]
      /\ tasks'[i].status = status
      /\ \A j \in Ids \ {i} : tasks'[j] = tasks[j]
      /\ handler' \in [Ids -> {"idle", "scheduled", "executing", "done"}]
      /\ ~Live(i)'
      /\ \A j \in Ids \ {i} : handler'[j] = handler[j]
  BY SettleEffect
<1>2. \A j \in Ids : KeysOf(j)' = IF j = i THEN {} ELSE KeysOf(j)
  BY SettleEffect
<1>3. /\ handler[i] = "executing"
      /\ activeLocks' = [k \in Key |-> IF activeLocks[k] = i THEN Free
                                                            ELSE activeLocks[k]]
      /\ signal' = [signal EXCEPT ![i] = "none"]
      /\ nextId' = nextId
  BY DEF Settle, ReleaseLocks
<1>4. TypeOK'
  BY <1>1, <1>3 DEF TypeOK, Ids, Free
<1>5. LiveTaskRecorded'
  BY <1>1 DEF LiveTaskRecorded, Live
<1>6. LocksMatchHandlers'
  <2> SUFFICES ASSUME NEW k \in Key, NEW j \in Ids
               PROVE  activeLocks'[k] = j <=> k \in KeysOf(j)'
    BY DEF LocksMatchHandlers
  <2>1. activeLocks[k] = j <=> k \in KeysOf(j)
    BY DEF LocksMatchHandlers
  <2>2. activeLocks'[k] = IF activeLocks[k] = i THEN Free ELSE activeLocks[k]
    BY <1>3
  <2>3. KeysOf(j)' = IF j = i THEN {} ELSE KeysOf(j)
    BY <1>2
  <2>4. j # Free
    BY DEF Ids, Free
  <2> QED BY <2>1, <2>2, <2>3, <2>4
<1>7. ExclusiveAlone'
  <2>1. \A k \in Key : Held(k)' => Held(k)
    BY <1>3 DEF Held
  <2> QED BY <2>1 DEF ExclusiveAlone, Held, ExclusiveKey
<1>8. UnusedIdsClean'
  <2>1. i < nextId
    BY <1>3 DEF UnusedIdsClean, TypeOK, Ids
  <2> QED BY <1>1, <1>3, <2>1 DEF UnusedIdsClean, TypeOK, Ids
<1>9. FinishedInactive'
  BY <1>1 DEF FinishedInactive, Active
<1> QED BY <1>4, <1>5, <1>6, <1>7, <1>8, <1>9

LEMMA ExecuteDetachedIInv ==
    ASSUME IInv, NEW i \in Ids, ExecuteDetached(i)
    PROVE  IInv' /\ \A j \in Ids : KeysOf(j)' = KeysOf(j)
<1> USE DEF IInv
<1>1. /\ handler[i] = "scheduled"
      /\ handler' = [handler EXCEPT ![i] = "executing"]
      /\ UNCHANGED <<tasks, activeLocks, signal, nextId>>
  BY DEF ExecuteDetached
<1>2. \A j \in Ids : Live(j)' <=> Live(j)
  BY <1>1 DEF Live, TypeOK
<1>3. \A j \in Ids : KeysOf(j)' = KeysOf(j)
  BY <1>1, <1>2 DEF KeysOf
<1>4. TypeOK'
  BY <1>1 DEF TypeOK
<1>5. LiveTaskRecorded'
  BY <1>1, <1>2 DEF LiveTaskRecorded
<1>6. LocksMatchHandlers'
  BY <1>1, <1>3 DEF LocksMatchHandlers
<1>7. ExclusiveAlone'
  BY <1>1 DEF ExclusiveAlone, Held
<1>8. UnusedIdsClean'
  BY <1>1 DEF UnusedIdsClean, TypeOK
<1>9. FinishedInactive'
  BY <1>1 DEF FinishedInactive
<1> QED BY <1>3, <1>4, <1>5, <1>6, <1>7, <1>8, <1>9

LEMMA CancelTaskIInv ==
    ASSUME IInv, NEW i \in Ids, CancelTask(i)
    PROVE  IInv' /\ \A j \in Ids : KeysOf(j)' = KeysOf(j)
<1> DEFINE new == [tasks[i] EXCEPT !.cancelRequested = TRUE]
<1> USE DEF IInv
<1>1. /\ tasks[i] # Absent
      /\ tasks' = [tasks EXCEPT ![i] = new]
      /\ signal' = [signal EXCEPT ![i] = IF @ = "live" THEN "aborted" ELSE @]
      /\ UNCHANGED <<activeLocks, handler, nextId>>
  BY DEF CancelTask
<1>2. /\ new \in Task
      /\ new.class = tasks[i].class
      /\ new.scope = tasks[i].scope
      /\ new.status = tasks[i].status
      /\ new.finished = tasks[i].finished
  BY <1>1 DEF TypeOK, Task
<1> HIDE DEF new
<1>3. \A j \in Ids : Live(j)' <=> Live(j)
  BY <1>1 DEF Live
<1>4. /\ tasks'[i] = new
      /\ \A j \in Ids \ {i} : tasks'[j] = tasks[j]
  BY <1>1 DEF TypeOK
<1>5. \A j \in Ids : KeysOf(j)' = KeysOf(j)
  BY <1>2, <1>3, <1>4 DEF KeysOf
<1>6. TypeOK'
  BY <1>1, <1>2 DEF TypeOK
<1>7. LiveTaskRecorded'
  <2>1. new # Absent
    BY <1>2, AbsentIsNoTask
  <2> QED BY <1>2, <1>3, <1>4, <2>1 DEF LiveTaskRecorded
<1>8. LocksMatchHandlers'
  BY <1>1, <1>5 DEF LocksMatchHandlers
<1>9. ExclusiveAlone'
  BY <1>1 DEF ExclusiveAlone, Held
<1>10. UnusedIdsClean'
  BY <1>1, <1>4 DEF UnusedIdsClean
<1>11. FinishedInactive'
  BY <1>1, <1>2, <1>4 DEF FinishedInactive, Active
<1> QED BY <1>5, <1>6, <1>7, <1>8, <1>9, <1>10, <1>11

-----------------------------------------------------------------------------
LEMMA ExecuteSettles ==
    ASSUME NEW i \in Ids, Execute(i)
    PROVE  \E status \in TaskStates \ {"queued", "running"} : Settle(i, status)
<1>1. HandlerStatuses \cup {"succeeded", "cancelled", "failed"}
        \subseteq TaskStates \ {"queued", "running"}
  BY TaskRunnerAssumption DEF TaskStates
<1> QED BY <1>1 DEF Execute, HandlerReturns, HandlerCancelled, HandlerThrows

LEMMA NextIInv == IInv /\ [Next]_vars => IInv'
<1> SUFFICES ASSUME IInv, [Next]_vars PROVE IInv'
  OBVIOUS
<1>1. CASE Submit
  BY <1>1, RejectIInv, StartIInv DEF Submit
<1>2. ASSUME NEW i \in Ids, ExecuteDetached(i) PROVE IInv'
  BY <1>2, ExecuteDetachedIInv
<1>3. ASSUME NEW i \in Ids, Execute(i) PROVE IInv'
  BY <1>3, ExecuteSettles, SettleIInv
<1>4. ASSUME NEW i \in Ids, CancelTask(i) PROVE IInv'
  BY <1>4, CancelTaskIInv
<1>5. CASE UNCHANGED vars
  BY <1>5 DEF vars, IInv, TypeOK, LiveTaskRecorded, LocksMatchHandlers, KeysOf,
              Live, ExclusiveAlone, Held, UnusedIdsClean, FinishedInactive
<1> QED BY <1>1, <1>2, <1>3, <1>4, <1>5 DEF Next

LEMMA IInvHolds == Spec => []IInv
<1> QED BY InitIInv, NextIInv, PTL DEF Spec

(***************************************************************************)
(* The tables of the runner keep their shape.                              *)
(***************************************************************************)
THEOREM TypeCorrect == Spec => []TypeOK
<1>1. IInv => TypeOK
  BY DEF IInv
<1> QED BY <1>1, IInvHolds, PTL

(***************************************************************************)
(* A key is in the lock table exactly while a live handler holds it        *)
(* (prepareTask, the finally block of executeTask).                        *)
(***************************************************************************)
THEOREM LocksAreExact == Spec => []LocksMatchHandlers
<1>1. IInv => LocksMatchHandlers
  BY DEF IInv
<1> QED BY <1>1, IInvHolds, PTL

(***************************************************************************)
(* Pruning never takes the record of a task that has yet to settle.        *)
(***************************************************************************)
THEOREM LiveTasksAreKept == Spec => []LiveTaskRecorded
<1>1. IInv => LiveTaskRecorded
  BY DEF IInv
<1> QED BY <1>1, IInvHolds, PTL

LEMMA KeysAreKeys ==
    ASSUME IInv, NEW i \in Ids
    PROVE  KeysOf(i) \in KeySets \cup {{}} /\ KeysOf(i) \subseteq Key
<1>1. CASE Live(i)
  <2>1. tasks[i] \in Task
    BY <1>1 DEF IInv, TypeOK, LiveTaskRecorded
  <2>2. tasks[i].class \in Classes /\ tasks[i].scope \in Scopes \cup {NoScope}
    BY <2>1 DEF Task
  <2> QED BY <1>1, <2>2, LockKeysAreKeys DEF KeysOf
<1>2. CASE ~Live(i)
  BY <1>2 DEF KeysOf
<1> QED BY <1>1, <1>2

LEMMA IsolatedByLocks == IInv => HandlersIsolated
<1> QED
  <2> SUFFICES ASSUME IInv, NEW i \in Ids, NEW j \in Ids,
                      i # j, KeysOf(i) # {}, KeysOf(j) # {}
               PROVE  /\ KeysOf(i) \cap KeysOf(j) = {}
                      /\ ExclusiveKey \notin KeysOf(i)
    BY DEF HandlersIsolated
  <2>1. /\ \A k \in KeysOf(i) : k \in Key /\ activeLocks[k] = i
        /\ \A k \in KeysOf(j) : k \in Key /\ activeLocks[k] = j
    BY KeysAreKeys DEF IInv, LocksMatchHandlers
  <2>2. KeysOf(i) \cap KeysOf(j) = {}
    BY <2>1
  <2>3. ExclusiveKey \in KeysOf(i) => KeysOf(j) = {ExclusiveKey}
    BY <2>1 DEF IInv, ExclusiveAlone, Held, Free, Ids
  <2> QED BY <2>2, <2>3

(***************************************************************************)
(* Live handlers never share a key, and one that holds the exclusive key   *)
(* has no company that holds any (lockConflictFor).                        *)
(***************************************************************************)
THEOREM HandlersAreIsolated == Spec => []HandlersIsolated
<1> QED BY IsolatedByLocks, IInvHolds, PTL

(***************************************************************************)
(* A finished record is only ever pruned: every later step leaves it as it *)
(* is (cancelTask's guard, pruneHistory).                                  *)
(***************************************************************************)
THEOREM FinishedTasksAreFinal == Spec => FinishedIsFinal
<1> DEFINE Final(i) == (tasks[i] # Absent /\ tasks[i].finished) =>
                            tasks'[i] \in {tasks[i], Absent}
<1>1. IInv /\ [Next]_vars => \A i \in Ids : Final(i)
  <2> SUFFICES ASSUME IInv, [Next]_vars, NEW i \in Ids,
                      tasks[i] # Absent, tasks[i].finished
               PROVE  tasks'[i] \in {tasks[i], Absent}
    OBVIOUS
  <2>1. i # nextId
    BY DEF IInv, UnusedIdsClean, TypeOK, Ids
  <2>2. ~Live(i)
    BY DEF IInv, LiveTaskRecorded
  <2>3. CASE Submit
    <3>1. ASSUME NEW class \in Classes, NEW scope \in Scopes \cup {NoScope},
                 RejectLocked(class, scope)
          PROVE  tasks'[i] \in {tasks[i], Absent}
      <4>1. nextId <= MaxTasks
        BY <3>1 DEF RejectLocked
      <4>2. /\ Enqueued(class, scope) \in [Ids -> Task \cup {Absent}]
            /\ Enqueued(class, scope)[i] \in {tasks[i], Absent}
        BY <2>1, <4>1, EnqueuedRecords DEF IInv
      <4> QED BY <2>1, <3>1, <4>2 DEF RejectLocked
    <3>2. ASSUME NEW class \in Classes, NEW scope \in Scopes \cup {NoScope},
                 NEW detached \in BOOLEAN, StartTask(class, scope, detached)
          PROVE  tasks'[i] \in {tasks[i], Absent}
      BY <2>1, <3>2, StartEffect
    <3> QED BY <2>3, <3>1, <3>2 DEF Submit
  <2>4. ASSUME NEW j \in Ids, ExecuteDetached(j) PROVE tasks'[i] = tasks[i]
    BY <2>4 DEF ExecuteDetached
  <2>5. ASSUME NEW j \in Ids, Execute(j) PROVE tasks'[i] = tasks[i]
    <3>1. PICK status \in TaskStates : Settle(j, status)
      BY <2>5, ExecuteSettles
    <3>2. i # j
      BY <2>2, <3>1 DEF Settle, Live
    <3> QED BY <3>1, <3>2, SettleEffect
  <2>6. ASSUME NEW j \in Ids, CancelTask(j) PROVE tasks'[i] = tasks[i]
    <3>1. i # j
      BY <2>6 DEF CancelTask, IInv, FinishedInactive
    <3> QED BY <2>6, <3>1 DEF CancelTask, IInv, TypeOK
  <2>7. CASE UNCHANGED vars
    BY <2>7 DEF vars
  <2> QED BY <2>3, <2>4, <2>5, <2>6, <2>7 DEF Next
<1> QED BY <1>1, IInvHolds, PTL DEF Spec, FinishedIsFinal, vars

-----------------------------------------------------------------------------
(***************************************************************************)
(* Every step of the runner is a step of TaskIsolation or leaves the       *)
(* holders alone: starting under a non-empty key set is Admit, settling a  *)
(* handler that holds keys is Leave.                                       *)
(***************************************************************************)
Holders == [i \in Ids |-> KeysOf(i)]

LEMMA StartAdmits ==
    ASSUME IInv, NEW class \in Classes, NEW scope \in Scopes \cup {NoScope},
           NEW detached \in BOOLEAN, StartTask(class, scope, detached)
    PROVE  \/ UNCHANGED Holders
           \/ \E w \in Ids, ks \in KeySets : Isolation!Admit(w, ks)
<1> DEFINE ks == LockKeysFor(class, scope)
<1>1. nextId \in Ids /\ KeysOf(nextId) = {}
  BY StartEffect
<1>2. Holders' = [Holders EXCEPT ![nextId] = ks]
  <2>1. \A i \in Ids : KeysOf(i)' = IF i = nextId THEN ks ELSE KeysOf(i)
    BY StartEffect
  <2> QED BY <1>1, <2>1 DEF Holders
<1>3. ks \in KeySets /\ ~LockConflict(ks)
  BY LockKeysAreKeys DEF StartTask
<1> HIDE DEF ks
<1>4. CASE ks = {}
  BY <1>1, <1>2, <1>4 DEF Holders
<1>5. CASE ks # {}
  <2>1. \A v \in Ids : \A k \in KeysOf(v) : k \in Key /\ Held(k)
    <3>1. \A v \in Ids : KeysOf(v) \subseteq Key
      BY KeysAreKeys
    <3> QED BY <3>1 DEF IInv, LocksMatchHandlers, Held, Ids, Free
  <2>2. \A v \in Ids : KeysOf(v) # {} =>
                           /\ ExclusiveKey \notin ks \cup KeysOf(v)
                           /\ ks \cap KeysOf(v) = {}
    BY <1>3, <1>5, <2>1, StartKeysFree
  <2>3. Isolation!Admit(nextId, ks)
    BY <1>1, <1>2, <2>2 DEF Isolation!Admit, Isolation!Compatible, Holders
  <2> QED BY <1>1, <1>3, <2>3
<1> QED BY <1>4, <1>5

LEMMA SettleLeaves ==
    ASSUME IInv, NEW i \in Ids, NEW status \in TaskStates, Settle(i, status)
    PROVE  UNCHANGED Holders \/ Isolation!Leave(i)
<1>1. \A j \in Ids : KeysOf(j)' = IF j = i THEN {} ELSE KeysOf(j)
  BY SettleEffect
<1>2. Holders' = [Holders EXCEPT ![i] = {}]
  BY <1>1 DEF Holders
<1> QED BY <1>2 DEF Isolation!Leave, Holders

LEMMA RejectKeepsHolders ==
    ASSUME IInv, NEW class \in Classes, NEW scope \in Scopes \cup {NoScope},
           RejectLocked(class, scope)
    PROVE  UNCHANGED Holders
<1>1. nextId <= MaxTasks /\ UNCHANGED handler
  BY DEF RejectLocked
<1>2. \A i \in Ids : Live(i)' <=> Live(i)
  BY <1>1 DEF Live
<1>3. \A i \in Ids : Live(i) => tasks'[i] = tasks[i]
  <2> SUFFICES ASSUME NEW i \in Ids, Live(i) PROVE tasks'[i] = tasks[i]
    OBVIOUS
  <2>1. i # nextId
    BY DEF IInv, UnusedIdsClean, Live, TypeOK, Ids
  <2>2. Active(tasks[i])
    BY DEF IInv, LiveTaskRecorded, Active
  <2>3. /\ Enqueued(class, scope) \in [Ids -> Task \cup {Absent}]
        /\ Enqueued(class, scope)[i] = tasks[i]
    BY <1>1, <2>1, <2>2, EnqueuedRecords DEF IInv
  <2> QED BY <2>1, <2>3 DEF RejectLocked
<1>4. \A i \in Ids : KeysOf(i)' = KeysOf(i)
  BY <1>2, <1>3 DEF KeysOf
<1> QED BY <1>4 DEF Holders

(***************************************************************************)
(* The task runner implements TaskIsolation.                               *)
(***************************************************************************)
THEOREM RunnerImplementsIsolation == Spec => ImplementsIsolation
<1>1. Init => Isolation!Init
  BY DEF Init, Isolation!Init, KeysOf, Live
<1>2. IInv /\ [Next]_vars => [Isolation!Next]_Holders
  <2> SUFFICES ASSUME IInv, [Next]_vars
               PROVE  UNCHANGED Holders \/ Isolation!Next
    OBVIOUS
  <2>1. CASE Submit
    BY <2>1, StartAdmits, RejectKeepsHolders DEF Submit, Isolation!Next
  <2>2. ASSUME NEW i \in Ids, ExecuteDetached(i) PROVE UNCHANGED Holders
    BY <2>2, ExecuteDetachedIInv DEF Holders
  <2>3. ASSUME NEW i \in Ids, Execute(i)
        PROVE  UNCHANGED Holders \/ Isolation!Next
    BY <2>3, ExecuteSettles, SettleLeaves DEF Isolation!Next
  <2>4. ASSUME NEW i \in Ids, CancelTask(i) PROVE UNCHANGED Holders
    BY <2>4, CancelTaskIInv DEF Holders
  <2>5. CASE UNCHANGED vars
    BY <2>5 DEF vars, Holders, KeysOf, Live
  <2> QED BY <2>1, <2>2, <2>3, <2>4, <2>5 DEF Next
<1> QED BY <1>1, <1>2, IInvHolds, PTL
        DEF Spec, ImplementsIsolation, Isolation!Spec, Holders

=============================================================================
