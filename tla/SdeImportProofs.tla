--------------------------- MODULE SdeImportProofs ---------------------------
(***************************************************************************)
(* Imports of static data for any sources, any number of imports and every *)
(* guarded practice.                                                       *)
(***************************************************************************)
EXTENDS SdeImport, TLAPS

CallsOK ==
    /\ imports \in [Imports -> Import]
    /\ flag \in [Kinds -> BOOLEAN]
    /\ lock \in Imports \cup {Nothing}
    /\ practice \in Practices
    /\ \A k \in Kinds : flag[k] =>
          \E i \in Imports : Reading(i, k) /\ imports[i].command = k
    /\ lock # Nothing => Active(lock) /\ imports[lock].asTask

TablesOK ==
    /\ created \in [Kinds -> BOOLEAN]
    /\ DOMAIN staging = Kinds /\ \A k \in Kinds : staging[k] \subseteq Row(k)
    /\ DOMAIN visible = Kinds /\ \A k \in Kinds : visible[k] \subseteq Row(k)
    /\ manifest \in [Kinds -> Sources \cup {Nothing}]

\* What a call that is at work holds.
Holds(i) ==
    /\ [command |-> imports[i].command, asTask |-> imports[i].asTask] \in practice
    /\ imports[i].asTask => lock = i
    /\ imports[i].command \in Kinds =>
          /\ Reading(i, imports[i].command)
          /\ flag[imports[i].command]
    /\ imports[i].phase = "reading" => imports[i].source \in Sources
    /\ imports[i].phase = "downloading" =>
          imports[i].kind = "topology" /\ imports[i].file = 1

Held == \A i \in Imports : Active(i) => Holds(i)

OneReader ==
    \A i, j \in Imports, k \in Kinds : Reading(i, k) /\ Reading(j, k) => i = j

\* The visible tables are those of a new database or of one source.
VisibleWhole ==
    \A k \in Kinds :
        \/ manifest[k] = Nothing /\ visible[k] = {}
        \/ /\ manifest[k] \in Sources
           /\ Complete(manifest[k], k)
           /\ visible[k] = RowsOf(manifest[k], k)

\* A lookup build that reads the inventory has promoted its topology.
HalfBuilt ==
    \A i \in Imports :
        Reading(i, "inventory") /\ imports[i].command = "lookup"
            => manifest["topology"] = imports[i].source

Calls == CallsOK /\ Held /\ OneReader

Tables == TablesOK /\ StagingIsOwn /\ VisibleWhole /\ HalfBuilt

IInv == Calls /\ Tables

USE SdeImportAssumption

LEMMA TypeParts == TypeOK <=> CallsOK /\ TablesOK
  BY DEF TypeOK, CallsOK, TablesOK

LEMMA KindsDiffer == "topology" \in Kinds /\ "inventory" \in Kinds
                     /\ "lookup" \notin Kinds /\ Kinds \subseteq Commands
                     /\ "lookup" \in Commands
  BY DEF Kinds, Commands

-----------------------------------------------------------------------------
(* Who is at work at the same time.                                        *)

\* While a lookup build is at work, nobody else is.
LEMMA LookupAlone ==
    ASSUME Calls, NEW i \in Imports, NEW j \in Imports,
           Active(i), Active(j), imports[i].command = "lookup"
    PROVE  i = j
  <1>1. Guarded(practice)
    BY DEF Calls, CallsOK
  <1>2. Holds(i) /\ Holds(j)
    BY DEF Calls, Held
  <1>3. \A use \in practice : use.asTask
    BY <1>1, <1>2 DEF Guarded, Holds
  <1>4. imports[i].asTask /\ imports[j].asTask
    BY <1>2, <1>3 DEF Holds
  <1> QED BY <1>2, <1>4 DEF Holds

\* A lookup build starts when nobody is at work.
LEMMA LookupStartsAlone ==
    ASSUME Calls, NEW asTask \in BOOLEAN, MayStart("lookup", asTask),
           NEW j \in Imports
    PROVE  ~Active(j)
  <1> SUFFICES ASSUME Active(j) PROVE FALSE
    OBVIOUS
  <1>1. Guarded(practice)
    BY DEF Calls, CallsOK
  <1>2. Holds(j)
    BY DEF Calls, Held
  <1>3. \A use \in practice : use.asTask
    BY <1>1 DEF Guarded, MayStart
  <1>4. asTask /\ imports[j].asTask
    BY <1>2, <1>3 DEF MayStart, Holds
  <1> QED BY <1>2, <1>4 DEF Holds, MayStart

\* An import service starts when nobody reads its kind.
LEMMA ServiceStartsAlone ==
    ASSUME Calls, NEW k \in Kinds, NEW asTask \in BOOLEAN, MayStart(k, asTask),
           NEW j \in Imports
    PROVE  ~Reading(j, k)
  <1> SUFFICES ASSUME Reading(j, k) PROVE FALSE
    OBVIOUS
  <1>1. Guarded(practice)
    BY DEF Calls, CallsOK
  <1>2. Holds(j)
    BY DEF Calls, Held, Active, Reading
  <1>3. CASE \A use \in practice : use.asTask
    <2>1. asTask /\ imports[j].asTask
      BY <1>2, <1>3 DEF MayStart, Holds
    <2> QED BY <1>2, <2>1 DEF Holds, MayStart
  <1>4. CASE \A use \in practice : use.command # "lookup"
    <2>1. imports[j].command # "lookup"
      BY <1>2, <1>4 DEF Holds
    <2>2. imports[j].command \in Kinds
      <3>1. imports[j] \in Import
        BY DEF Calls, CallsOK
      <3> QED BY <2>1, <3>1 DEF Import, Commands
    <2>3. imports[j].command = k
      BY <1>2, <2>2 DEF Holds, Reading
    <2> QED BY <1>2, <2>2, <2>3 DEF Holds, MayStart
  <1> QED BY <1>1, <1>3, <1>4 DEF Guarded

-----------------------------------------------------------------------------
(* The calls, action by action.                                            *)

\* The calls other than i do not change.
Others(i) == \A j \in Imports \ {i} : imports'[j] = imports[j]

LEMMA ReleaseCalls ==
    ASSUME Calls, NEW i \in Imports, NEW how \in {"done", "failed"},
           Active(i), Release(i, how), UNCHANGED practice
    PROVE  Calls' /\ Others(i) /\ ~Active(i)'
  <1>1. imports \in [Imports -> Import]
    BY DEF Calls, CallsOK
  <1>2. imports' \in [Imports -> Import]
    BY <1>1 DEF Release, Import
  <1>3. ~Active(i)'
    BY <1>1 DEF Release, Active
  <1>4. Others(i)
    BY <1>1 DEF Release, Others
  <1>5. Holds(i)
    BY DEF Calls, Held
  <1>6. flag' \in [Kinds -> BOOLEAN]
    BY DEF Release, Calls, CallsOK
  <1>7. lock' \in Imports \cup {Nothing}
    BY DEF Release, Calls, CallsOK
  <1>8. ASSUME NEW k \in Kinds, flag'[k]
        PROVE  \E j \in Imports : Reading(j, k)' /\ imports'[j].command = k
    <2>1. flag[k] /\ imports[i].command # k
      BY <1>8, KindsDiffer DEF Release, Calls, CallsOK
    <2>2. PICK j \in Imports : Reading(j, k) /\ imports[j].command = k
      BY <2>1 DEF Calls, CallsOK
    <2> QED BY <1>4, <2>1, <2>2 DEF Others, Reading
  <1>9. ASSUME lock' # Nothing PROVE (Active(lock) /\ imports[lock].asTask)'
    <2>1. lock' = lock /\ ~imports[i].asTask
      BY <1>9 DEF Release
    <2>2. lock \in Imports \ {i}
      BY <1>9, <2>1 DEF Calls, CallsOK
    <2> QED BY <1>4, <1>9, <2>1, <2>2 DEF Others, Active, Calls, CallsOK
  <1>10. practice' \in Practices
    BY DEF Calls, CallsOK
  <1>11. CallsOK'
    BY <1>2, <1>6, <1>7, <1>8, <1>9, <1>10 DEF CallsOK
  <1>12. ASSUME NEW j \in Imports, Active(j)' PROVE Holds(j)'
    <2>1. j # i
      BY <1>3, <1>12
    <2>2. imports'[j] = imports[j] /\ Active(j) /\ Holds(j)
      BY <1>4, <1>12, <2>1 DEF Others, Active, Calls, Held
    <2>3. imports[j].asTask => lock' = j
      BY <1>5, <2>1, <2>2 DEF Holds, Release
    <2>4. ASSUME imports[j].command \in Kinds PROVE flag'[imports[j].command]
      <3>1. imports[i].command # imports[j].command
        BY <1>5, <2>1, <2>2, <2>4 DEF Holds, Calls, OneReader
      <3> QED BY <2>2, <2>4, <3>1 DEF Holds, Release, Calls, CallsOK
    <2> QED BY <2>2, <2>3, <2>4 DEF Holds, Reading
  <1>13. OneReader'
    BY <1>3, <1>4 DEF OneReader, Others, Reading, Active, Calls
  <1> QED BY <1>3, <1>4, <1>11, <1>12, <1>13 DEF Calls, Held

LEMMA StartServiceCalls ==
    ASSUME Calls, NEW i \in Imports, StartService(i)
    PROVE  Calls'
  <1>1. PICK k \in Kinds, asTask \in BOOLEAN, s \in Sources :
            /\ ~Active(i)
            /\ MayStart(k, asTask)
            /\ imports' = [imports EXCEPT ![i] = Started(k, asTask, "reading", k, s)]
            /\ flag' = [flag EXCEPT ![k] = TRUE]
            /\ lock' = IF asTask THEN i ELSE lock
            /\ practice' = practice
    BY DEF StartService
  <1>2. imports \in [Imports -> Import] /\ flag \in [Kinds -> BOOLEAN]
    BY DEF Calls, CallsOK
  <1>3. imports'[i] = Started(k, asTask, "reading", k, s) /\ Others(i)
    BY <1>1, <1>2 DEF Others
  <1>4. imports' \in [Imports -> Import]
    BY <1>1, <1>2, KindsDiffer DEF Started, Import
  <1>5. Reading(i, k)' /\ Active(i)' /\ flag'[k]
        /\ imports'[i].command = k /\ imports'[i].asTask = asTask
    BY <1>1, <1>2, <1>3 DEF Started, Reading, Active
  <1>6. ASSUME NEW q \in Kinds, flag'[q]
        PROVE  \E j \in Imports : Reading(j, q)' /\ imports'[j].command = q
    <2>1. CASE q = k
      BY <1>5, <2>1
    <2>2. CASE q # k
      <3>1. flag[q]
        BY <1>1, <1>2, <1>6, <2>2
      <3>2. PICK j \in Imports : Reading(j, q) /\ imports[j].command = q
        BY <3>1 DEF Calls, CallsOK
      <3>3. j # i
        BY <1>1, <3>2 DEF Active, Reading
      <3> QED BY <1>3, <3>2, <3>3 DEF Others, Reading
    <2> QED BY <2>1, <2>2
  <1>7. ASSUME lock' # Nothing PROVE (Active(lock) /\ imports[lock].asTask)'
    <2>1. CASE asTask
      BY <1>1, <1>5, <2>1
    <2>2. CASE ~asTask
      <3>1. lock' = lock /\ lock \in Imports /\ Active(lock) /\ imports[lock].asTask
        BY <1>1, <1>7, <2>2 DEF Calls, CallsOK
      <3> QED BY <1>1, <1>3, <3>1 DEF Others, Active
    <2> QED BY <2>1, <2>2
  <1>8. CallsOK'
    BY <1>1, <1>2, <1>4, <1>6, <1>7 DEF CallsOK, Calls
  <1>9. ASSUME NEW j \in Imports, Active(j)' PROVE Holds(j)'
    <2>1. CASE j = i
      <3>1. imports'[i].phase = "reading" /\ imports'[i].source \in Sources
        BY <1>3 DEF Started
      <3>2. asTask => lock' = i
        BY <1>1
      <3>3. [command |-> k, asTask |-> asTask] \in practice'
        BY <1>1 DEF MayStart
      <3> QED BY <1>5, <2>1, <3>1, <3>2, <3>3 DEF Holds
    <2>2. CASE j # i
      <3>1. imports'[j] = imports[j] /\ Active(j) /\ Holds(j)
        BY <1>3, <1>9, <2>2 DEF Others, Active, Calls, Held
      <3>2. imports[j].asTask => lock' = j
        BY <1>1, <3>1 DEF Holds, MayStart
      <3>3. imports[j].command \in Kinds => flag'[imports[j].command]
        BY <1>1, <1>2, <3>1 DEF Holds
      <3> QED BY <1>1, <3>1, <3>2, <3>3 DEF Holds, Reading
    <2> QED BY <2>1, <2>2
  <1>10. ASSUME NEW j \in Imports, NEW l \in Imports, NEW q \in Kinds,
                Reading(j, q)', Reading(l, q)'
         PROVE  j = l
    <2>1. \A m \in Imports : Reading(m, q)' => (m = i /\ q = k) \/ Reading(m, q)
      BY <1>3 DEF Others, Reading, Started
    <2>2. \A m \in Imports : ~Reading(m, k)
      BY <1>1, ServiceStartsAlone
    <2> QED BY <1>1, <1>10, <2>1, <2>2 DEF Calls, OneReader, Reading, Active
  <1> QED BY <1>8, <1>9, <1>10 DEF Calls, Held, OneReader

LEMMA StartUnreadableCalls ==
    ASSUME Calls, NEW i \in Imports, StartUnreadable(i)
    PROVE  Calls' /\ Others(i) /\ ~Active(i)'
  <1>1. PICK kind \in Kinds, asTask \in BOOLEAN :
            imports' = [imports EXCEPT ![i] = Started(kind, asTask, "failed", kind, Nothing)]
    BY DEF StartUnreadable
  <1>2. ~Active(i) /\ UNCHANGED <<flag, lock, practice>>
    BY DEF StartUnreadable
  <1>3. imports \in [Imports -> Import]
    BY DEF Calls, CallsOK
  <1>4. imports' \in [Imports -> Import]
    BY <1>1, <1>3, KindsDiffer DEF Started, Import
  <1>5. Others(i) /\ ~Active(i)'
    BY <1>1, <1>3 DEF Others, Active, Started
  <1>6. ASSUME NEW j \in Imports
        PROVE  /\ Active(j)' <=> Active(j)
               /\ Active(j) => imports'[j] = imports[j]
    BY <1>2, <1>5 DEF Others, Active
  <1>7. CallsOK'
    <2>1. ASSUME NEW k \in Kinds, flag[k]
          PROVE  \E j \in Imports : Reading(j, k)' /\ imports'[j].command = k
      <3>1. PICK j \in Imports : Reading(j, k) /\ imports[j].command = k
        BY <2>1 DEF Calls, CallsOK
      <3> QED BY <1>6, <3>1 DEF Reading, Active
    <2>2. lock # Nothing => (Active(lock) /\ imports[lock].asTask)'
      BY <1>2, <1>6 DEF Calls, CallsOK
    <2> QED BY <1>2, <1>4, <2>1, <2>2 DEF Calls, CallsOK
  <1>8. ASSUME NEW j \in Imports, Active(j)' PROVE Holds(j)'
    BY <1>2, <1>6, <1>8 DEF Holds, Reading, Calls, Held
  <1>9. ASSUME NEW j \in Imports, NEW k \in Kinds, Reading(j, k)' PROVE Reading(j, k)
    BY <1>6, <1>9 DEF Reading, Active
  <1> QED BY <1>5, <1>7, <1>8, <1>9 DEF Calls, Held, OneReader

LEMMA StartLookupCalls ==
    ASSUME Calls, NEW i \in Imports, StartLookup(i)
    PROVE  Calls' /\ Others(i) /\ \A k \in Kinds : ~Reading(i, k)'
  <1>1. PICK asTask \in BOOLEAN :
            /\ MayStart("lookup", asTask)
            /\ imports' = [imports EXCEPT
                   ![i] = Started("lookup", asTask, "downloading", "topology", Nothing)]
            /\ lock' = IF asTask THEN i ELSE lock
    BY DEF StartLookup
  <1>2. UNCHANGED <<flag, practice>>
    BY DEF StartLookup
  <1>3. imports \in [Imports -> Import]
    BY DEF Calls, CallsOK
  <1>4. imports' \in [Imports -> Import]
    BY <1>1, <1>3, KindsDiffer DEF Started, Import
  <1>5. /\ imports'[i] = Started("lookup", asTask, "downloading", "topology", Nothing)
        /\ Others(i)
    BY <1>1, <1>3 DEF Others
  <1>6. \A j \in Imports : ~Active(j)
    BY <1>1, LookupStartsAlone
  <1>7. \A j \in Imports, k \in Kinds : ~Reading(j, k)'
    BY <1>5, <1>6 DEF Others, Reading, Active, Started
  <1>8. lock = Nothing
    BY <1>6 DEF Calls, CallsOK
  <1>9. \A k \in Kinds : ~flag[k]
    BY <1>6 DEF Calls, CallsOK, Active, Reading
  <1>10. lock' # Nothing => (Active(lock) /\ imports[lock].asTask)'
    BY <1>1, <1>5, <1>8 DEF Started, Active
  <1>11. CallsOK'
    BY <1>1, <1>2, <1>4, <1>8, <1>9, <1>10 DEF CallsOK, Calls
  <1>12. ASSUME NEW j \in Imports, Active(j)' PROVE Holds(j)'
    <2>1. j = i
      BY <1>5, <1>6, <1>12 DEF Others, Active
    <2>2. [command |-> "lookup", asTask |-> asTask] \in practice' /\ (asTask => lock' = i)
      BY <1>1, <1>2 DEF MayStart
    <2> QED BY <1>5, <2>1, <2>2, KindsDiffer DEF Holds, Started
  <1> QED BY <1>5, <1>7, <1>11, <1>12 DEF Calls, Held, OneReader

(***************************************************************************)
(* A lookup build goes on: its source is there, or its topology is done.   *)
(***************************************************************************)
LEMMA LookupGoesOnCalls ==
    ASSUME Calls, NEW i \in Imports, NEW k \in Kinds, NEW s \in Sources,
           Active(i), imports[i].command = "lookup",
           imports' \in [Imports -> Import],
           imports'[i].phase = "reading", imports'[i].kind = k,
           imports'[i].source = s,
           imports'[i].command = "lookup", imports'[i].asTask = imports[i].asTask,
           Others(i), UNCHANGED <<flag, lock, practice>>
    PROVE  Calls'
  <1>1. \A j \in Imports : j # i => ~Active(j) /\ ~Active(j)'
    BY LookupAlone DEF Others, Active
  <1>2. Holds(i)
    BY DEF Calls, Held
  <1>3. \A q \in Kinds : ~flag[q]
    BY <1>1, KindsDiffer DEF Calls, CallsOK, Active, Reading
  <1>4. lock' # Nothing => (Active(lock) /\ imports[lock].asTask)'
    BY <1>1 DEF Calls, CallsOK, Active
  <1>5. CallsOK'
    BY <1>3, <1>4 DEF Calls, CallsOK
  <1>6. Holds(i)'
    BY <1>2, KindsDiffer DEF Holds
  <1>7. \A j \in Imports, q \in Kinds : Reading(j, q)' => j = i
    BY <1>1 DEF Reading, Active
  <1> QED BY <1>1, <1>5, <1>6, <1>7 DEF Calls, Held, OneReader

LEMMA DownloadedCalls ==
    ASSUME Calls, NEW i \in Imports, Downloaded(i)
    PROVE  /\ Calls' /\ Others(i)
           /\ \A j \in Imports : j # i => ~Active(j)
           /\ imports'[i].file = imports[i].file
  <1>1. PICK s \in Sources :
            imports' = [imports EXCEPT ![i].phase = "reading", ![i].source = s]
    BY DEF Downloaded
  <1>2. imports \in [Imports -> Import] /\ imports[i].phase = "downloading"
        /\ UNCHANGED <<flag, lock, practice>>
    BY DEF Calls, CallsOK, Downloaded
  <1>3. Active(i) /\ Holds(i)
    BY <1>2 DEF Active, Calls, Held
  <1>4. imports[i].command = "lookup"
    <2>1. imports[i].command \notin Kinds
      BY <1>2, <1>3 DEF Holds, Reading
    <2> QED BY <1>2, <2>1 DEF Import, Commands
  <1>5. imports' \in [Imports -> Import]
    BY <1>1, <1>2 DEF Import
  <1>6. /\ Others(i)
        /\ imports'[i].phase = "reading" /\ imports'[i].kind = imports[i].kind
        /\ imports'[i].source = s /\ imports'[i].command = imports[i].command
        /\ imports'[i].asTask = imports[i].asTask
        /\ imports'[i].file = imports[i].file
    BY <1>1, <1>2 DEF Others, Import
  <1>7. imports[i].kind \in Kinds
    BY <1>2 DEF Import
  <1>8. Calls'
    BY <1>2, <1>3, <1>4, <1>5, <1>6, <1>7, LookupGoesOnCalls
  <1> QED BY <1>3, <1>4, <1>6, <1>8, LookupAlone

\* The file of a call that reads.
LEMMA ReadFileCalls ==
    ASSUME Calls, NEW i \in Imports, NEW k \in Kinds, ReadFile(i, k)
    PROVE  /\ Calls' /\ Others(i)
           /\ imports'[i] = [imports[i] EXCEPT !.file = @ + 1]
  <1>1. imports' = [imports EXCEPT ![i].file = @ + 1]
        /\ UNCHANGED <<flag, lock, practice>>
    BY DEF ReadFile
  <1>2. imports \in [Imports -> Import] /\ imports[i].file \in 1..4
    <2>1. imports \in [Imports -> Import] /\ imports[i].file <= Len(Files(k))
      BY DEF Calls, CallsOK, ReadFile
    <2>2. Len(Files(k)) <= 4
      BY DEF Files
    <2>3. Len(Files(k)) \in Nat
      BY DEF Files
    <2> QED BY <2>1, <2>2, <2>3 DEF Import
  <1>3. imports'[i] = [imports[i] EXCEPT !.file = @ + 1] /\ Others(i)
    BY <1>1, <1>2 DEF Others
  <1>4. imports' \in [Imports -> Import]
    BY <1>1, <1>2 DEF Import
  <1>5. \A j \in Imports :
           /\ imports'[j].phase = imports[j].phase
           /\ imports'[j].command = imports[j].command
           /\ imports'[j].asTask = imports[j].asTask
           /\ imports'[j].kind = imports[j].kind
           /\ imports'[j].source = imports[j].source
    BY <1>2, <1>3 DEF Others, Import
  <1>6. \A j \in Imports : /\ Active(j)' <=> Active(j)
                           /\ \A q \in Kinds : Reading(j, q)' <=> Reading(j, q)
    BY <1>5 DEF Active, Reading
  <1>7. CallsOK'
    BY <1>1, <1>4, <1>5, <1>6 DEF CallsOK, Calls
  <1>8. ASSUME NEW j \in Imports, Active(j)' PROVE Holds(j)'
    <2>1. Holds(j)
      BY <1>6, <1>8 DEF Calls, Held
    <2>2. imports[j].phase = "downloading" => imports'[j].file = imports[j].file
      BY <1>3 DEF ReadFile, Reading, Others
    <2>3. imports'[j].command \in Kinds =>
              Reading(j, imports[j].command)' /\ flag'[imports'[j].command]
      BY <1>1, <1>5, <1>6, <2>1 DEF Holds
    <2>4. /\ [command |-> imports'[j].command, asTask |-> imports'[j].asTask] \in practice'
          /\ imports'[j].asTask => lock' = j
          /\ imports'[j].phase = "reading" => imports'[j].source \in Sources
      BY <1>1, <1>5, <2>1 DEF Holds
    <2>5. imports'[j].phase = "downloading" =>
              imports'[j].kind = "topology" /\ imports'[j].file = 1
      BY <1>5, <2>1, <2>2 DEF Holds
    <2> QED BY <1>5, <2>3, <2>4, <2>5 DEF Holds
  <1> QED BY <1>3, <1>6, <1>7, <1>8 DEF Calls, Held, OneReader

\* A call stays well formed when it turns to the inventory.
LEMMA InventoryNext ==
    ASSUME NEW call \in Import
    PROVE  [call EXCEPT !.kind = "inventory", !.file = 1] \in Import
  <1>1. [call EXCEPT !.kind = "inventory"] \in Import
    BY DEF Import, Kinds
  <1>2. \A c \in Import : [c EXCEPT !.file = 1] \in Import
    BY DEF Import
  <1>3. [call EXCEPT !.kind = "inventory", !.file = 1]
            = [[call EXCEPT !.kind = "inventory"] EXCEPT !.file = 1]
    BY DEF Import
  <1> QED BY <1>1, <1>2, <1>3

\* The branch of FinishTopology that goes on.
LEMMA FinishTopologyCalls ==
    ASSUME Calls, NEW i \in Imports, FinishTopology(i),
           imports' = [imports EXCEPT ![i].kind = "inventory", ![i].file = 1],
           UNCHANGED <<flag, lock>>
    PROVE  /\ Calls' /\ Others(i)
           /\ imports'[i].source = imports[i].source /\ imports'[i].file = 1
           /\ Reading(i, "inventory")'
  <1>1. imports \in [Imports -> Import] /\ practice' = practice
        /\ imports[i].command = "lookup" /\ imports[i].phase = "reading"
    BY DEF Calls, CallsOK, FinishTopology, Ready, Reading
  <1>2. imports' \in [Imports -> Import]
    <2>0. imports[i] \in Import /\ "inventory" \in Kinds
      BY <1>1, KindsDiffer
    <2>1. [imports[i] EXCEPT !.kind = "inventory", !.file = 1] \in Import
      BY <2>0, InventoryNext
    <2>2. imports' = [imports EXCEPT ![i] = [imports[i] EXCEPT !.kind = "inventory", !.file = 1]]
      BY <1>1
    <2> QED BY <1>1, <2>1, <2>2
  <1>3. /\ Others(i)
        /\ imports'[i].phase = "reading" /\ imports'[i].kind = "inventory"
        /\ imports'[i].source = imports[i].source /\ imports'[i].file = 1
        /\ imports'[i].command = "lookup" /\ imports'[i].asTask = imports[i].asTask
    BY <1>1 DEF Others, Import
  <1>4. Active(i) /\ imports[i].source \in Sources
    BY <1>1 DEF Active, Calls, Held, Holds
  <1>5. Calls'
    BY <1>1, <1>2, <1>3, <1>4, KindsDiffer, LookupGoesOnCalls
  <1> QED BY <1>3, <1>5 DEF Reading

LEMMA RestartCalls ==
    ASSUME Calls, Restart
    PROVE  Calls' /\ \A i \in Imports : ~Active(i)'
  <1>1. imports' \in [Imports -> Import]
    BY KindsDiffer DEF Restart, NoImport, Import
  <1>2. \A i \in Imports : ~Active(i)'
    BY DEF Restart, NoImport, Active
  <1>3. CallsOK'
    BY <1>1 DEF Restart, Calls, CallsOK
  <1>4. Held'
    BY <1>2 DEF Held
  <1>5. OneReader'
    BY <1>2 DEF OneReader, Reading, Active
  <1> QED BY <1>2, <1>3, <1>4, <1>5 DEF Calls

-----------------------------------------------------------------------------
(* What is staged before a file is read, and after the last one.           *)

LEMMA FilesOfKind ==
    ASSUME NEW k \in Kinds
    PROVE  /\ Len(Files(k)) \in Nat \ {0}
           /\ \A n \in 1..Len(Files(k)) : Files(k)[n] \in TablesOf(k)
  <1>1. Len(Files(k)) \in Nat \ {0}
    BY DEF Files
  <1> QED BY <1>1 DEF TablesOf

LEMMA NothingBeforeFirst ==
    ASSUME NEW k \in Kinds, NEW s
    PROVE  RowsBefore(1, s, k) = {}
  BY FilesOfKind DEF RowsBefore

LEMMA OneFileMore ==
    ASSUME NEW k \in Kinds, NEW s, NEW file \in 1..Len(Files(k))
    PROVE  RowsBefore(file + 1, s, k) =
               IF HasRows(s, Files(k)[file])
               THEN RowsBefore(file, s, k) \cup {<<Files(k)[file], s>>}
               ELSE RowsBefore(file, s, k)
  <1> DEFINE Before(f) == {m \in 1..Len(Files(k)) : m < f /\ HasRows(s, Files(k)[m])}
  <1>1. Before(file + 1) = IF HasRows(s, Files(k)[file])
                           THEN Before(file) \cup {file} ELSE Before(file)
    BY FilesOfKind
  <1>2. \A f : RowsBefore(f, s, k) = {<<t, s>> : t \in {Files(k)[n] : n \in Before(f)}}
    BY DEF RowsBefore
  <1>3. \A f, row : row \in RowsBefore(f, s, k) <=>
                       \E m \in Before(f) : row = <<Files(k)[m], s>>
    BY <1>2
  <1> HIDE DEF Before
  <1>4. CASE HasRows(s, Files(k)[file])
    <2>1. \A row : row \in RowsBefore(file + 1, s, k) <=>
                      row \in RowsBefore(file, s, k) \cup {<<Files(k)[file], s>>}
      BY <1>1, <1>3, <1>4
    <2> QED BY <1>4, <2>1
  <1>5. CASE ~HasRows(s, Files(k)[file])
    <2>1. \A row : row \in RowsBefore(file + 1, s, k) <=> row \in RowsBefore(file, s, k)
      BY <1>1, <1>3, <1>5
    <2> QED BY <1>2, <1>5, <1>1
  <1> QED BY <1>4, <1>5

LEMMA RowsBeforeAreRows ==
    ASSUME NEW k \in Kinds, NEW s \in Sources, NEW file
    PROVE  RowsBefore(file, s, k) \subseteq Row(k)
  BY FilesOfKind DEF RowsBefore, Row

LEMMA AllFilesRead ==
    ASSUME NEW k \in Kinds, NEW s, NEW file \in Nat, file > Len(Files(k)),
           \A t \in TablesOf(k) : \E q \in Sources : <<t, q>> \in RowsBefore(file, s, k)
    PROVE  Complete(s, k) /\ RowsBefore(file, s, k) = RowsOf(s, k)
  <1>1. ASSUME NEW t, NEW q, <<t, q>> \in RowsBefore(file, s, k)
        PROVE  t \in TablesOf(k) /\ HasRows(s, t) /\ q = s
    BY <1>1, FilesOfKind DEF RowsBefore
  <1>2. Complete(s, k)
    BY <1>1 DEF Complete
  <1>3. ASSUME NEW row \in RowsBefore(file, s, k) PROVE row \in RowsOf(s, k)
    <2>1. PICK t : row = <<t, s>>
      BY DEF RowsBefore
    <2> QED BY <1>1, <2>1 DEF RowsOf
  <1>4. ASSUME NEW row \in RowsOf(s, k) PROVE row \in RowsBefore(file, s, k)
    <2>1. PICK t \in TablesOf(k) : row = <<t, s>>
      BY DEF RowsOf
    <2>2. PICK q \in Sources : <<t, q>> \in RowsBefore(file, s, k)
      OBVIOUS
    <2> QED BY <1>1, <2>1, <2>2
  <1> QED BY <1>2, <1>3, <1>4

-----------------------------------------------------------------------------
(* The tables, action by action.                                           *)

(***************************************************************************)
(* A call changes the staging tables of one kind, which nobody else reads. *)
(***************************************************************************)
LEMMA StagingKept ==
    ASSUME StagingIsOwn, NEW i \in Imports, NEW k \in Kinds, Others(i),
           \A q \in Kinds : q # k => staging'[q] = staging[q],
           \A j \in Imports : j # i => ~Reading(j, k),
           \A q \in Kinds : Reading(i, q)' =>
               staging'[q] = RowsBefore(imports'[i].file, imports'[i].source, q)
    PROVE  StagingIsOwn'
  <1> SUFFICES ASSUME NEW j \in Imports, NEW q \in Kinds, Reading(j, q)'
               PROVE  staging'[q] = RowsBefore(imports'[j].file, imports'[j].source, q)
    BY DEF StagingIsOwn
  <1>1. CASE j = i
    BY <1>1
  <1>2. CASE j # i
    <2>1. imports'[j] = imports[j] /\ Reading(j, q)
      BY <1>2 DEF Others, Reading
    <2> QED BY <1>2, <2>1 DEF StagingIsOwn
  <1> QED BY <1>1, <1>2

LEMMA StageTables ==
    ASSUME TablesOK, NEW k \in Kinds, Stage(k) \/ Unstage(k),
           UNCHANGED <<visible, manifest>>
    PROVE  /\ TablesOK' /\ staging'[k] = {}
           /\ \A q \in Kinds : q # k => staging'[q] = staging[q]
  <1>1. created' \in [Kinds -> BOOLEAN]
    BY DEF TablesOK, Stage, Unstage
  <1>2. staging' = [staging EXCEPT ![k] = {}]
    BY DEF Stage, Unstage
  <1> QED BY <1>1, <1>2 DEF TablesOK

LEMMA HalfBuiltKept ==
    ASSUME HalfBuilt, NEW i \in Imports, Others(i), UNCHANGED manifest,
           Reading(i, "inventory")' => imports'[i].command # "lookup"
    PROVE  HalfBuilt'
  BY DEF HalfBuilt, Others, Reading

LEMMA VisibleKept ==
    ASSUME VisibleWhole, UNCHANGED <<visible, manifest>>
    PROVE  VisibleWhole'
  BY DEF VisibleWhole

LEMMA StartServiceTables ==
    ASSUME IInv, NEW i \in Imports, StartService(i)
    PROVE  Tables'
  <1>1. PICK k \in Kinds, asTask \in BOOLEAN, s \in Sources :
            /\ MayStart(k, asTask) /\ Stage(k)
            /\ imports' = [imports EXCEPT ![i] = Started(k, asTask, "reading", k, s)]
            /\ UNCHANGED <<visible, manifest>>
    BY DEF StartService
  <1>2. imports'[i] = Started(k, asTask, "reading", k, s) /\ Others(i)
    BY <1>1 DEF Others, IInv, Calls, CallsOK
  <1>3. TablesOK' /\ staging'[k] = {} /\ \A q \in Kinds : q # k => staging'[q] = staging[q]
    BY <1>1, StageTables DEF IInv, Tables
  <1>4. \A j \in Imports : ~Reading(j, k)
    BY <1>1, ServiceStartsAlone DEF IInv
  <1>5. \A q \in Kinds : Reading(i, q)' =>
            staging'[q] = RowsBefore(imports'[i].file, imports'[i].source, q)
    <2>1. imports'[i].kind = k /\ imports'[i].file = 1
      BY <1>2 DEF Started
    <2>2. \A q \in Kinds : Reading(i, q)' => q = k
      BY <2>1 DEF Reading
    <2> QED BY <1>3, <2>1, <2>2, NothingBeforeFirst
  <1>6. StagingIsOwn'
    BY <1>2, <1>3, <1>4, <1>5, StagingKept DEF IInv, Tables
  <1>7. HalfBuilt'
    BY <1>1, <1>2, HalfBuiltKept, KindsDiffer DEF Started, IInv, Tables
  <1> QED BY <1>1, <1>3, <1>6, <1>7, VisibleKept DEF IInv, Tables

LEMMA StartUnreadableTables ==
    ASSUME IInv, NEW i \in Imports, StartUnreadable(i)
    PROVE  Tables'
  <1>1. PICK k \in Kinds, asTask \in BOOLEAN : MayStart(k, asTask) /\ Stage(k)
    BY DEF StartUnreadable
  <1>2. Others(i) /\ ~Active(i)' /\ UNCHANGED <<visible, manifest>>
    BY StartUnreadableCalls DEF IInv, StartUnreadable
  <1>3. TablesOK' /\ \A q \in Kinds : q # k => staging'[q] = staging[q]
    BY <1>1, <1>2, StageTables DEF IInv, Tables
  <1>4. \A j \in Imports : ~Reading(j, k)
    BY <1>1, ServiceStartsAlone DEF IInv
  <1>5. \A q \in Kinds : ~Reading(i, q)'
    BY <1>2 DEF Reading, Active
  <1>6. StagingIsOwn'
    BY <1>2, <1>3, <1>4, <1>5, StagingKept DEF IInv, Tables
  <1>7. HalfBuilt'
    BY <1>2, <1>5, HalfBuiltKept, KindsDiffer DEF IInv, Tables
  <1> QED BY <1>2, <1>3, <1>6, <1>7, VisibleKept DEF IInv, Tables

LEMMA StartLookupTables ==
    ASSUME IInv, NEW i \in Imports, StartLookup(i)
    PROVE  Tables'
  <1>1. UNCHANGED <<created, staging, visible, manifest>>
    BY DEF StartLookup
  <1>2. Others(i) /\ \A k \in Kinds : ~Reading(i, k)'
    BY StartLookupCalls DEF IInv
  <1>3. StagingIsOwn'
    BY <1>1, <1>2 DEF StagingIsOwn, Others, Reading, IInv, Tables
  <1>4. HalfBuilt'
    BY <1>1, <1>2, HalfBuiltKept, KindsDiffer DEF IInv, Tables
  <1>5. TablesOK'
    BY <1>1 DEF TablesOK, IInv, Tables
  <1> QED BY <1>1, <1>3, <1>4, <1>5, VisibleKept DEF IInv, Tables

LEMMA DownloadedTables ==
    ASSUME IInv, NEW i \in Imports, Downloaded(i)
    PROVE  Tables'
  <1>1. Stage("topology") /\ UNCHANGED <<visible, manifest>>
    BY DEF Downloaded
  <1>2. /\ Others(i) /\ \A j \in Imports : j # i => ~Active(j)
        /\ imports'[i].file = imports[i].file
    BY DownloadedCalls DEF IInv
  <1>3. imports[i].kind = "topology" /\ imports[i].file = 1
    BY DEF Downloaded, IInv, Calls, Held, Holds, Active
  <1>4. imports'[i].kind = "topology"
    BY <1>3 DEF Downloaded, IInv, Calls, CallsOK, Import
  <1>5. /\ TablesOK' /\ staging'["topology"] = {}
        /\ \A q \in Kinds : q # "topology" => staging'[q] = staging[q]
    BY <1>1, StageTables, KindsDiffer DEF IInv, Tables
  <1>6. \A j \in Imports : j # i => ~Reading(j, "topology")
    BY <1>2 DEF Active, Reading
  <1>7. \A q \in Kinds : Reading(i, q)' =>
            staging'[q] = RowsBefore(imports'[i].file, imports'[i].source, q)
    BY <1>2, <1>3, <1>4, <1>5, NothingBeforeFirst DEF Reading
  <1>8. StagingIsOwn'
    BY <1>2, <1>5, <1>6, <1>7, StagingKept, KindsDiffer DEF IInv, Tables
  <1>9. HalfBuilt'
    BY <1>1, <1>2, <1>4, HalfBuiltKept DEF IInv, Tables, Reading
  <1> QED BY <1>1, <1>5, <1>8, <1>9, VisibleKept DEF IInv, Tables

(***************************************************************************)
(* A call ends without a promotion: the tables it read are dropped, or     *)
(* none if it was still downloading.                                       *)
(***************************************************************************)
LEMMA EndTables ==
    ASSUME IInv, NEW i \in Imports, NEW k \in Kinds, Active(i),
           Release(i, "failed"), UNCHANGED practice,
           Stage(k) \/ Unstage(k), UNCHANGED <<visible, manifest>>,
           \A j \in Imports : j # i => ~Reading(j, k)
    PROVE  Tables'
  <1>1. Others(i) /\ ~Active(i)'
    BY ReleaseCalls DEF IInv
  <1>2. \A q \in Kinds : ~Reading(i, q)'
    BY <1>1 DEF Reading, Active
  <1>3. TablesOK' /\ \A q \in Kinds : q # k => staging'[q] = staging[q]
    BY StageTables DEF IInv, Tables
  <1>4. StagingIsOwn'
    BY <1>1, <1>2, <1>3, StagingKept DEF IInv, Tables
  <1>5. HalfBuilt'
    BY <1>1, <1>2, HalfBuiltKept, KindsDiffer DEF IInv, Tables
  <1> QED BY <1>3, <1>4, <1>5, VisibleKept DEF IInv, Tables

LEMMA FailTables ==
    ASSUME IInv, NEW i \in Imports, NEW k \in Kinds, Fail(i, k)
    PROVE  Tables'
  <1>1. Active(i) /\ \A j \in Imports : j # i => ~Reading(j, k)
    BY DEF Fail, Active, Reading, IInv, Calls, OneReader
  <1> QED BY <1>1, EndTables DEF Fail

\* A call that downloads is a lookup build, and nobody else is at work.
LEMMA DownloadsAlone ==
    ASSUME Calls, NEW i \in Imports, imports[i].phase = "downloading"
    PROVE  Active(i) /\ \A j \in Imports : j # i => ~Active(j)
  <1>1. Active(i) /\ Holds(i) /\ imports[i] \in Import
    BY DEF Active, Calls, Held, CallsOK
  <1>2. imports[i].command = "lookup"
    <2>1. imports[i].command \notin Kinds
      BY <1>1 DEF Holds, Reading
    <2> QED BY <1>1, <2>1 DEF Import, Commands
  <1> QED BY <1>1, <1>2, LookupAlone

LEMMA DownloadFailsTables ==
    ASSUME IInv, NEW i \in Imports, DownloadFails(i)
    PROVE  Tables'
  <1>1. Active(i) /\ \A j \in Imports : j # i => ~Active(j)
    BY DownloadsAlone DEF IInv, DownloadFails
  <1>2. Release(i, "failed") /\ UNCHANGED <<visible, manifest, practice>>
    BY DEF DownloadFails
  <1>3. CASE UNCHANGED <<created, staging>>
    <2>1. Others(i) /\ ~Active(i)'
      BY <1>1, <1>2, ReleaseCalls DEF IInv
    <2>2. StagingIsOwn'
      BY <1>3, <2>1 DEF StagingIsOwn, Others, Reading, Active, IInv, Tables
    <2>3. HalfBuilt'
      BY <1>2, <2>1, HalfBuiltKept DEF Reading, Active, IInv, Tables
    <2>4. TablesOK'
      BY <1>2, <1>3 DEF TablesOK, IInv, Tables
    <2> QED BY <1>2, <2>2, <2>3, <2>4, VisibleKept DEF IInv, Tables
  <1>4. CASE Stage("topology")
    BY <1>1, <1>2, <1>4, EndTables, KindsDiffer DEF Active, Reading
  <1> QED BY <1>3, <1>4 DEF DownloadFails

LEMMA ReadFileTables ==
    ASSUME IInv, NEW i \in Imports, NEW k \in Kinds, ReadFile(i, k)
    PROVE  Tables'
  <1> DEFINE f == imports[i].file
             s == imports[i].source
             t == Files(k)[f]
             added == IF HasRows(s, t) THEN {<<t, s>>} ELSE {}
  <1>1. /\ Others(i) /\ UNCHANGED <<created, visible, manifest>>
        /\ imports'[i] = [imports[i] EXCEPT !.file = @ + 1]
    BY ReadFileCalls DEF IInv, ReadFile
  <1>2. /\ imports[i] \in Import /\ Reading(i, k)
        /\ \A j \in Imports : j # i => ~Reading(j, k)
    BY DEF IInv, Calls, CallsOK, OneReader, ReadFile
  <1>3. s \in Sources
    BY <1>2 DEF IInv, Calls, Held, Holds, Active, Reading
  <1>4. f \in 1..Len(Files(k))
    BY <1>2, FilesOfKind DEF ReadFile, Import
  <1>5. t \in TablesOf(k)
    BY <1>4, FilesOfKind
  <1>6. /\ imports'[i].file = f + 1 /\ imports'[i].source = s
        /\ imports'[i].kind = k /\ imports'[i].command = imports[i].command
    BY <1>1, <1>2 DEF Import, Reading
  <1>7. staging' = IF HasRows(s, t)
                   THEN [staging EXCEPT ![k] = @ \cup {<<t, s>>}] ELSE staging
    BY DEF ReadFile
  <1>8. DOMAIN staging = Kinds /\ \A q \in Kinds : staging[q] \subseteq Row(q)
    BY DEF IInv, Tables, TablesOK
  <1> HIDE DEF f, s, t
  <1>9. /\ DOMAIN staging' = Kinds /\ staging'[k] = staging[k] \cup added
        /\ \A q \in Kinds : q # k => staging'[q] = staging[q]
    BY <1>7, <1>8
  <1>10. added \subseteq Row(k)
    BY <1>3, <1>5 DEF Row
  <1>11. TablesOK'
    BY <1>1, <1>8, <1>9, <1>10 DEF IInv, Tables, TablesOK
  <1>12. staging'[k] = RowsBefore(f + 1, s, k)
    <2>1. staging[k] = RowsBefore(f, s, k)
      BY <1>2 DEF IInv, Tables, StagingIsOwn, f, s
    <2> QED BY <1>4, <1>9, <2>1, OneFileMore DEF t
  <1>13. StagingIsOwn'
    <2>1. \A q \in Kinds : Reading(i, q)' => q = k
      BY <1>6 DEF Reading
    <2> QED BY <1>1, <1>2, <1>6, <1>9, <1>12, <2>1, StagingKept DEF IInv, Tables
  <1>14. HalfBuilt'
    <2>1. Reading(i, "inventory")' => Reading(i, "inventory")
      BY <1>1, <1>2 DEF Reading, Import
    <2> QED BY <1>1, <1>6, <2>1 DEF HalfBuilt, IInv, Tables, Others, Reading, s
  <1> QED BY <1>1, <1>11, <1>13, <1>14, VisibleKept DEF IInv, Tables

LEMMA RestartTables ==
    ASSUME IInv, Restart
    PROVE  Tables'
  <1>1. \A i \in Imports, k \in Kinds : ~Reading(i, k)'
    BY RestartCalls DEF IInv, Active, Reading
  <1>2. TablesOK'
    BY DEF Restart, IInv, Tables, TablesOK
  <1>3. StagingIsOwn' /\ HalfBuilt'
    BY <1>1, KindsDiffer DEF StagingIsOwn, HalfBuilt
  <1> QED BY <1>2, <1>3, VisibleKept DEF Restart, IInv, Tables

(***************************************************************************)
(* What is promoted is all rows of one complete source.                    *)
(***************************************************************************)
LEMMA PromotesOneSource ==
    ASSUME IInv, NEW i \in Imports, NEW k \in Kinds, Ready(i, k)
    PROVE  /\ imports[i].source \in Sources
           /\ Complete(imports[i].source, k)
           /\ staging[k] = RowsOf(imports[i].source, k)
           /\ RowsOf(imports[i].source, k) \subseteq Row(k)
  <1> DEFINE s == imports[i].source
  <1>1. Reading(i, k) /\ imports[i].file > Len(Files(k)) /\ imports[i] \in Import
    BY DEF Ready, IInv, Calls, CallsOK
  <1>2. s \in Sources
    BY <1>1 DEF IInv, Calls, Held, Holds, Active, Reading
  <1>3. staging[k] = RowsBefore(imports[i].file, s, k)
    BY <1>1 DEF IInv, Tables, StagingIsOwn
  <1>4. \A t \in TablesOf(k) : \E q \in Sources :
            <<t, q>> \in RowsBefore(imports[i].file, s, k)
    BY <1>3 DEF Ready, StageComplete
  <1>5. imports[i].file \in Nat
    BY <1>1 DEF Import
  <1>6. Complete(s, k) /\ RowsBefore(imports[i].file, s, k) = RowsOf(s, k)
    BY <1>1, <1>4, <1>5, AllFilesRead
  <1> QED BY <1>2, <1>3, <1>6 DEF RowsOf, Row

LEMMA PromoteTables ==
    ASSUME IInv, NEW i \in Imports, NEW k \in Kinds, Ready(i, k), Promote(i, k)
    PROVE  /\ VisibleWhole'
           /\ DOMAIN visible' = Kinds
           /\ \A q \in Kinds : visible'[q] \subseteq Row(q)
           /\ manifest' \in [Kinds -> Sources \cup {Nothing}]
           /\ manifest'[k] = imports[i].source
           /\ \A q \in Kinds : q # k => manifest'[q] = manifest[q]
  <1>1. TablesOK /\ VisibleWhole
    BY DEF IInv, Tables
  <1>2. /\ visible'[k] = staging[k] /\ manifest'[k] = imports[i].source
        /\ \A q \in Kinds : q # k => visible'[q] = visible[q] /\ manifest'[q] = manifest[q]
        /\ DOMAIN visible' = Kinds
    BY <1>1 DEF Promote, TablesOK
  <1>3. manifest' \in [Kinds -> Sources \cup {Nothing}]
    BY <1>1, PromotesOneSource DEF Promote, TablesOK
  <1>4. \A q \in Kinds : visible'[q] \subseteq Row(q)
    BY <1>1, <1>2, PromotesOneSource DEF TablesOK
  <1>5. VisibleWhole'
    BY <1>1, <1>2, PromotesOneSource DEF VisibleWhole
  <1> QED BY <1>2, <1>3, <1>4, <1>5

LEMMA FinishTables ==
    ASSUME IInv, NEW i \in Imports, NEW k \in Kinds, Finish(i, k)
    PROVE  Tables'
  <1>1. /\ Ready(i, k) /\ Promote(i, k) /\ Unstage(k)
        /\ Release(i, "done") /\ UNCHANGED practice
        /\ ~(imports[i].command = "lookup" /\ k = "topology")
    BY DEF Finish
  <1>2. Reading(i, k) /\ Active(i)
    BY <1>1 DEF Ready, Reading, Active
  <1>3. Others(i) /\ ~Active(i)'
    BY <1>1, <1>2, ReleaseCalls DEF IInv
  <1>4. VisibleWhole' /\ \A q \in Kinds : q # k => manifest'[q] = manifest[q]
    BY <1>1, PromoteTables
  <1>5. TablesOK'
    <2>1. created' \in [Kinds -> BOOLEAN] /\ DOMAIN staging' = Kinds
          /\ \A q \in Kinds : staging'[q] \subseteq Row(q)
      BY <1>1 DEF IInv, Tables, TablesOK, Unstage
    <2> QED BY <1>1, <2>1, PromoteTables DEF TablesOK
  <1>6. \A q \in Kinds : q # k => staging'[q] = staging[q]
    BY <1>1 DEF Unstage, IInv, Tables, TablesOK
  <1>7. \A j \in Imports : j # i => ~Reading(j, k)
    BY <1>2 DEF IInv, Calls, OneReader
  <1>8. \A q \in Kinds : ~Reading(i, q)'
    BY <1>3 DEF Reading, Active
  <1>9. StagingIsOwn'
    BY <1>3, <1>6, <1>7, <1>8, StagingKept DEF IInv, Tables
  <1>10. HalfBuilt'
    <2> SUFFICES ASSUME NEW j \in Imports, Reading(j, "inventory")',
                        imports'[j].command = "lookup"
                 PROVE  manifest'["topology"] = imports'[j].source
      BY DEF HalfBuilt
    <2>1. j # i
      BY <1>8, KindsDiffer
    <2>2. imports'[j] = imports[j] /\ Reading(j, "inventory") /\ Active(j)
      BY <1>3, <2>1 DEF Others, Reading, Active
    <2>3. j = i
      BY <1>2, <2>2, LookupAlone DEF IInv
    <2> QED BY <2>1, <2>3
  <1> QED BY <1>4, <1>5, <1>9, <1>10 DEF Tables

LEMMA FinishTopologyTables ==
    ASSUME IInv, NEW i \in Imports, FinishTopology(i)
    PROVE  Tables'
  <1>1. /\ Ready(i, "topology") /\ Promote(i, "topology")
        /\ imports[i].command = "lookup"
        /\ created' = [created EXCEPT !["topology"] = FALSE, !["inventory"] = TRUE]
        /\ staging' = [k \in Kinds |-> {}]
        /\ UNCHANGED practice
    BY DEF FinishTopology
  <1>2. Active(i)
    BY <1>1 DEF Ready, Reading, Active
  <1>3. \A j \in Imports : j # i => ~Active(j)
    BY <1>1, <1>2, LookupAlone DEF IInv
  <1>4. VisibleWhole' /\ manifest'["topology"] = imports[i].source
    BY <1>1, PromoteTables, KindsDiffer
  <1>5. TablesOK'
    BY <1>1, PromoteTables, KindsDiffer DEF IInv, Tables, TablesOK
  <1>6. CASE imports' = [imports EXCEPT ![i].kind = "inventory", ![i].file = 1]
             /\ UNCHANGED <<flag, lock>>
    <2>1. /\ Others(i)
          /\ imports'[i].source = imports[i].source /\ imports'[i].file = 1
      BY <1>6, FinishTopologyCalls DEF IInv
    <2>2. \A j \in Imports, k \in Kinds : Reading(j, k)' => j = i
      BY <1>3, <2>1 DEF Others, Active, Reading
    <2>3. StagingIsOwn'
      BY <1>1, <2>1, <2>2, NothingBeforeFirst DEF StagingIsOwn
    <2>4. HalfBuilt'
      BY <1>4, <2>1, <2>2, KindsDiffer DEF HalfBuilt
    <2> QED BY <1>4, <1>5, <2>3, <2>4 DEF Tables
  <1>7. CASE Release(i, "failed")
    <2>1. Others(i) /\ ~Active(i)'
      BY <1>1, <1>2, <1>7, ReleaseCalls DEF IInv
    <2>2. \A j \in Imports, k \in Kinds : ~Reading(j, k)'
      BY <1>3, <2>1 DEF Others, Active, Reading
    <2>3. StagingIsOwn' /\ HalfBuilt'
      BY <2>2, KindsDiffer DEF StagingIsOwn, HalfBuilt
    <2> QED BY <1>4, <1>5, <2>3 DEF Tables
  <1> QED BY <1>6, <1>7 DEF FinishTopology

-----------------------------------------------------------------------------
(* The invariant.                                                          *)

LEMMA InitIInv == Init => IInv
  <1> SUFFICES ASSUME Init PROVE IInv
    OBVIOUS
  <1>1. imports \in [Imports -> Import]
    BY KindsDiffer DEF Init, Fresh, NoImport, Import
  <1>2. \A i \in Imports : ~Active(i) /\ \A k \in Kinds : ~Reading(i, k)
    BY DEF Init, Fresh, NoImport, Active, Reading
  <1>3. CallsOK
    BY <1>1 DEF Init, Fresh, CallsOK
  <1>4. Calls
    BY <1>2, <1>3 DEF Calls, Held, OneReader
  <1>5. TablesOK
    BY DEF Init, Fresh, TablesOK
  <1>6. StagingIsOwn /\ HalfBuilt
    BY <1>2, KindsDiffer DEF StagingIsOwn, HalfBuilt
  <1>7. VisibleWhole
    BY DEF Init, VisibleWhole
  <1> QED BY <1>4, <1>5, <1>6, <1>7 DEF IInv, Tables

LEMMA NextCalls ==
    ASSUME IInv, Next
    PROVE  Calls'
  <1>1. Calls
    BY DEF IInv
  <1>2. ASSUME NEW i \in Imports, StartService(i) PROVE Calls'
    BY <1>1, <1>2, StartServiceCalls
  <1>3. ASSUME NEW i \in Imports, StartUnreadable(i) PROVE Calls'
    BY <1>1, <1>3, StartUnreadableCalls
  <1>4. ASSUME NEW i \in Imports, StartLookup(i) PROVE Calls'
    BY <1>1, <1>4, StartLookupCalls
  <1>5. ASSUME NEW i \in Imports, Downloaded(i) PROVE Calls'
    BY <1>1, <1>5, DownloadedCalls
  <1>6. ASSUME NEW i \in Imports, DownloadFails(i) PROVE Calls'
    BY <1>1, <1>6, DownloadsAlone, ReleaseCalls DEF DownloadFails
  <1>7. ASSUME NEW i \in Imports, NEW k \in Kinds, ReadFile(i, k) PROVE Calls'
    BY <1>1, <1>7, ReadFileCalls
  <1>8. ASSUME NEW i \in Imports, NEW k \in Kinds, Fail(i, k) PROVE Calls'
    BY <1>1, <1>8, ReleaseCalls DEF Fail, Reading, Active
  <1>9. ASSUME NEW i \in Imports, NEW k \in Kinds, Finish(i, k) PROVE Calls'
    BY <1>1, <1>9, ReleaseCalls DEF Finish, Ready, Reading, Active
  <1>10. ASSUME NEW i \in Imports, FinishTopology(i) PROVE Calls'
    <2>1. CASE Release(i, "failed")
      BY <1>1, <1>10, <2>1, ReleaseCalls DEF FinishTopology, Ready, Reading, Active
    <2>2. CASE imports' = [imports EXCEPT ![i].kind = "inventory", ![i].file = 1]
               /\ UNCHANGED <<flag, lock>>
      BY <1>1, <1>10, <2>2, FinishTopologyCalls
    <2> QED BY <1>10, <2>1, <2>2 DEF FinishTopology
  <1>11. CASE Restart
    BY <1>1, <1>11, RestartCalls
  <1> QED BY <1>2, <1>3, <1>4, <1>5, <1>6, <1>7, <1>8, <1>9, <1>10, <1>11
          DEF Next, Step

LEMMA NextTables ==
    ASSUME IInv, Next
    PROVE  Tables'
  BY StartServiceTables, StartUnreadableTables, StartLookupTables,
     DownloadedTables, DownloadFailsTables, ReadFileTables, FailTables,
     FinishTables, FinishTopologyTables, RestartTables DEF Next, Step

LEMMA SpecIInv == Spec => []IInv
  <1>1. IInv /\ [Next]_vars => IInv'
    <2> SUFFICES ASSUME IInv, [Next]_vars PROVE IInv'
      OBVIOUS
    <2>1. CASE Next
      BY <2>1, NextCalls, NextTables DEF IInv
    <2>2. CASE UNCHANGED vars
      <3>1. Calls'
        BY <2>2 DEF vars, IInv, Calls, CallsOK, Held, Holds, OneReader, Active, Reading
      <3>2. Tables'
        BY <2>2 DEF vars, IInv, Tables, TablesOK, StagingIsOwn, VisibleWhole,
                    HalfBuilt, Reading
      <3> QED BY <3>1, <3>2 DEF IInv
    <2> QED BY <2>1, <2>2
  <1> QED BY <1>1, InitIInv, PTL DEF Spec

-----------------------------------------------------------------------------
(***************************************************************************)
(* The state stays well formed, and a flag or the lock is only ever held   *)
(* for a call that is at work: the finally clauses release them on every   *)
(* path.                                                                   *)
(***************************************************************************)
THEOREM ImportTypesCorrect == Spec => []TypeOK
  <1>1. IInv => TypeOK
    BY TypeParts DEF IInv, Calls, Tables
  <1> QED BY <1>1, SpecIInv, PTL

(***************************************************************************)
(* Whatever an import has staged is its own, for any number of imports and *)
(* every guarded practice: flags and lock keep the fixed table names safe. *)
(***************************************************************************)
THEOREM StagingIsNeverShared == Spec => []StagingIsOwn
  <1>1. IInv => StagingIsOwn
    BY DEF IInv, Tables
  <1> QED BY <1>1, SpecIInv, PTL

(***************************************************************************)
(* A lookup build that ends well leaves both kinds of one source: nobody   *)
(* replaced its topology while it read the inventory.                      *)
(***************************************************************************)
LEMMA LookupStep ==
    ASSUME IInv, Next, NEW i \in Imports, imports[i].command = "lookup",
           Active(i), imports'[i].phase = "done"
    PROVE  manifest' = [k \in Kinds |-> imports[i].source]
  <1>1. imports \in [Imports -> Import]
    BY DEF IInv, Calls, CallsOK
  <1>2. PICK k \in Kinds : Finish(i, k)
    <2>1. ASSUME NEW j \in Imports, NEW k \in Kinds, Finish(j, k), ~Finish(i, k)
          PROVE  FALSE
      <3>1. imports'[i] = imports[i]
        BY <1>1, <2>1 DEF Finish, Release
      <3> QED BY <3>1 DEF Active
    <2>2. CASE Restart
      BY <2>2 DEF Restart, NoImport
    <2>3. ASSUME NEW j \in Imports,
                 \/ StartService(j) \/ StartUnreadable(j) \/ StartLookup(j)
                 \/ Downloaded(j) \/ DownloadFails(j) \/ FinishTopology(j)
                 \/ \E k \in Kinds : ReadFile(j, k) \/ Fail(j, k)
          PROVE  FALSE
      <3>0. imports[i].phase # "done"
        BY DEF Active
      <3>1. CASE StartService(j)
        BY <1>1, <3>0, <3>1 DEF StartService, Started
      <3>2. CASE StartUnreadable(j)
        BY <1>1, <3>0, <3>2 DEF StartUnreadable, Started
      <3>3. CASE StartLookup(j)
        BY <1>1, <3>0, <3>3 DEF StartLookup, Started
      <3>4. CASE Downloaded(j)
        BY <1>1, <3>0, <3>4 DEF Downloaded
      <3>5. CASE DownloadFails(j)
        BY <1>1, <3>0, <3>5 DEF DownloadFails, Release
      <3>6. CASE FinishTopology(j)
        <4>1. CASE imports' = [imports EXCEPT ![j].kind = "inventory", ![j].file = 1]
          BY <1>1, <3>0, <4>1 DEF Import
        <4>2. CASE Release(j, "failed")
          BY <1>1, <3>0, <4>2 DEF Release
        <4> QED BY <3>6, <4>1, <4>2 DEF FinishTopology
      <3>7. ASSUME NEW k \in Kinds, ReadFile(j, k) PROVE FALSE
        BY <1>1, <3>0, <3>7 DEF ReadFile
      <3>8. ASSUME NEW k \in Kinds, Fail(j, k) PROVE FALSE
        BY <1>1, <3>0, <3>8 DEF Fail, Release
      <3> QED BY <2>3, <3>1, <3>2, <3>3, <3>4, <3>5, <3>6, <3>7, <3>8
    <2> QED BY <2>1, <2>2, <2>3 DEF Next, Step
  <1>3. k = "inventory" /\ Ready(i, k) /\ Promote(i, k)
    BY <1>2 DEF Finish, Kinds
  <1>4. manifest["topology"] = imports[i].source
    BY <1>3 DEF IInv, Tables, HalfBuilt, Ready
  <1>5. manifest \in [Kinds -> Sources \cup {Nothing}]
    BY DEF IInv, Tables, TablesOK
  <1> QED BY <1>3, <1>4, <1>5 DEF Promote, Kinds

\* A lookup build that ends well leaves both kinds of one source: nobody
\* replaced its topology while it read the inventory.
THEOREM LookupsEndWhole == Spec => LookupEndsWhole
  <1> DEFINE Ends == \A i \in Imports :
          (imports[i].command = "lookup" /\ Active(i) /\ imports'[i].phase = "done")
          => manifest' = [k \in Kinds |-> imports[i].source]
  <1>1. IInv /\ [Next]_vars => [Ends]_vars
    BY LookupStep DEF vars
  <1>2. (Spec => [][Ends]_vars) <=> (Spec => LookupEndsWhole)
    BY DEF LookupEndsWhole
  <1> QED BY <1>1, <1>2, SpecIInv, PTL DEF Spec

-----------------------------------------------------------------------------
(* Readers.                                                                *)

LEMMA SeenIsManifest ==
    ASSUME VisibleWhole, NEW k \in Kinds
    PROVE  Seen(k) = manifest[k]
  <1>1. CASE manifest[k] \in Sources /\ visible[k] = RowsOf(manifest[k], k)
    BY <1>1 DEF Seen
  <1>2. CASE manifest[k] = Nothing /\ visible[k] = {}
    BY <1>2 DEF Seen
  <1> QED BY <1>1, <1>2 DEF VisibleWhole

LEMMA ReaderStep ==
    ASSUME IInv, IInv', [Next]_vars
    PROVE  \/ \E k \in Kinds, s \in Sources : Snapshot!Replace(k, s)
           \/ \A k \in Kinds : Seen(k)' = Seen(k)
  <1>1. \A k \in Kinds : Seen(k) = manifest[k] /\ Seen(k)' = manifest'[k]
    BY SeenIsManifest DEF IInv, Tables, VisibleWhole, Seen
  <1>2. CASE UNCHANGED manifest
    BY <1>1, <1>2
  <1>3. ASSUME NEW i \in Imports, NEW k \in Kinds, Ready(i, k), Promote(i, k)
        PROVE  Snapshot!Replace(k, imports[i].source)
    <2>1. imports[i].source \in Sources /\ Complete(imports[i].source, k)
      BY <1>3, PromotesOneSource
    <2>2. manifest' = [manifest EXCEPT ![k] = imports[i].source]
      BY <1>3 DEF Promote
    <2>3. manifest \in [Kinds -> Sources \cup {Nothing}]
      BY DEF IInv, Tables, TablesOK
    <2> QED BY <1>1, <2>1, <2>2, <2>3 DEF Snapshot!Replace
  <1>4. \/ UNCHANGED manifest
        \/ \E i \in Imports, k \in Kinds : Ready(i, k) /\ Promote(i, k)
    BY KindsDiffer DEF Next, Step, vars, StartService, StartUnreadable, StartLookup,
       Downloaded, DownloadFails, ReadFile, Fail, Finish, FinishTopology, Restart
  <1> QED BY <1>2, <1>3, <1>4, PromotesOneSource

\* Readers see one whole source of either kind, or empty tables: the imports
\* implement SdeSnapshot.
THEOREM ImportsKeepSnapshots == Spec => ImplementsSnapshot
  <1>1. Init => Snapshot!Init
    <2> SUFFICES ASSUME Init PROVE Snapshot!Init
      OBVIOUS
    <2>1. \A k \in Kinds : Seen(k) = Nothing
      BY InitIInv, SeenIsManifest DEF Init, IInv, Tables
    <2> QED BY <2>1 DEF Snapshot!Init
  <1>2. IInv /\ IInv' /\ [Next]_vars => [Snapshot!Next]_[k \in Kinds |-> Seen(k)]
    BY ReaderStep DEF Snapshot!Next
  <1> QED BY <1>1, <1>2, SpecIInv, PTL DEF Spec, ImplementsSnapshot, Snapshot!Spec
=============================================================================
