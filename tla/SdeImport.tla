----------------------------- MODULE SdeImport -----------------------------
(***************************************************************************)
(* sde/: imports of static data into the lookup tables.  An import reads   *)
(* the lines of a source, one await per line, into temp tables with fixed  *)
(* names; what is staged is counted and then put in the place of the       *)
(* visible tables in one transaction.                                      *)
(*                                                                         *)
(* Three commands start imports: one per kind of table, behind a flag of   *)
(* its own, and the lookup build, which imports both kinds one after the   *)
(* other and looks at no flag.  A command run as a task holds the          *)
(* exclusive lock of the task runner; called directly it holds none.       *)
(*                                                                         *)
(* A row is the source it comes from: what matters of a table is which     *)
(* sources its rows are of.  A file is read in one step, or fails.         *)
(***************************************************************************)
EXTENDS Integers, Sequences

CONSTANTS Sources,        \* JSONL directories and archives
          HasRows(_, _),  \* a source has rows for a table
          Imports,        \* bound: imports at a time
          Practices,      \* the ways a process may use the commands
          Nothing

Kinds == {"topology", "inventory"}
Commands == Kinds \cup {"lookup"}

\* The files of a kind in the order of the loops in importFromPath.
Files(k) ==
    IF k = "topology"
    THEN <<"regions", "constellations", "solar_systems", "system_adjacency">>
    ELSE <<"categories", "groups", "types">>

TablesOf(k) == {Files(k)[n] : n \in 1..Len(Files(k))}

Complete(s, k) == \A t \in TablesOf(k) : HasRows(s, t)

\* Rows of a table, by their source.
Row(k) == TablesOf(k) \X Sources
RowsOf(s, k) == TablesOf(k) \X {s}

\* The rows in the files that come before a file.
RowsBefore(file, s, k) ==
    {<<t, s>> : t \in {Files(k)[n] : n \in {m \in 1..Len(Files(k)) :
                                       m < file /\ HasRows(s, Files(k)[m])}}}

\* A way to use the commands is a set of these.
Use == [command : Commands, asTask : BOOLEAN]

(***************************************************************************)
(* A process either runs the commands as tasks, or it calls the two import *)
(* services and builds no lookups.                                         *)
(***************************************************************************)
Guarded(uses) ==
    \/ \A use \in uses : use.asTask
    \/ \A use \in uses : use.command # "lookup"

ASSUME SdeImportAssumption ==
    /\ Nothing \notin Sources /\ Nothing \notin Imports
    /\ Practices \subseteq SUBSET Use
    /\ \A uses \in Practices : Guarded(uses)

Import == [phase : {"idle", "downloading", "reading", "done", "failed"},
           command : Commands, asTask : BOOLEAN,
           kind : Kinds,               \* of the importer at work
           source : Sources \cup {Nothing},
           file : 1..5]                \* the file it reads next

VARIABLES imports,   \* the calls
          created,   \* the temp tables of a kind exist
          staging,   \* their rows
          visible,   \* the rows of the lookup tables
          manifest,  \* source of the latest row of sde_imports and
                     \* sde_inventory_imports
          flag,      \* sdeTopologyImportInProgress and its twin
          lock,      \* the import with the exclusive lock of the task runner
          practice

vars == <<imports, created, staging, visible, manifest, flag, lock, practice>>

Active(i) == imports[i].phase \in {"downloading", "reading"}
Reading(i, k) == imports[i].phase = "reading" /\ imports[i].kind = k

TypeOK ==
    /\ imports \in [Imports -> Import]
    /\ created \in [Kinds -> BOOLEAN]
    /\ DOMAIN staging = Kinds /\ \A k \in Kinds : staging[k] \subseteq Row(k)
    /\ DOMAIN visible = Kinds /\ \A k \in Kinds : visible[k] \subseteq Row(k)
    /\ manifest \in [Kinds -> Sources \cup {Nothing}]
    /\ flag \in [Kinds -> BOOLEAN]
    /\ lock \in Imports \cup {Nothing}
    /\ practice \in Practices
    \* A flag and the lock belong to a call that is still at work.
    /\ \A k \in Kinds : flag[k] =>
          \E i \in Imports : Reading(i, k) /\ imports[i].command = k
    /\ lock # Nothing => Active(lock) /\ imports[lock].asTask

NoImport == [phase |-> "idle", command |-> "topology", asTask |-> FALSE,
             kind |-> "topology", source |-> Nothing, file |-> 1]

Fresh ==
    /\ imports = [i \in Imports |-> NoImport]
    /\ created = [k \in Kinds |-> FALSE]
    /\ staging = [k \in Kinds |-> {}]
    /\ flag = [k \in Kinds |-> FALSE]
    /\ lock = Nothing

Init ==
    /\ Fresh
    /\ visible = [k \in Kinds |-> {}]
    /\ manifest = [k \in Kinds |-> Nothing]
    /\ practice \in Practices

-----------------------------------------------------------------------------
(* Parts of the commands.                                                  *)

(***************************************************************************)
(* importFromPath up to its first await: the staging tables are made anew, *)
(* whatever is in them.  A source that cannot be opened is noticed after   *)
(* that and outside the try block: the empty tables stay.                  *)
(***************************************************************************)
Stage(k) ==
    /\ created' = [created EXCEPT ![k] = TRUE]
    /\ staging' = [staging EXCEPT ![k] = {}]

\* The finally clause, also of an import that does not own the tables.
Unstage(k) ==
    /\ created' = [created EXCEPT ![k] = FALSE]
    /\ staging' = [staging EXCEPT ![k] = {}]

\* Mutant: the service resets its flag only when the import succeeds.
ReleaseAfterSuccess(i, how) ==
    /\ imports' = [imports EXCEPT ![i].phase = how, ![i].source = Nothing]
    /\ flag' = IF imports[i].command = "lookup" \/ how = "failed" THEN flag
               ELSE [flag EXCEPT ![imports[i].command] = FALSE]
    /\ lock' = IF imports[i].asTask THEN Nothing ELSE lock

\* The command returns or throws.
Release(i, how) ==
    /\ imports' = [imports EXCEPT ![i].phase = how, ![i].source = Nothing]
    /\ flag' = IF imports[i].command = "lookup" THEN flag
               ELSE [flag EXCEPT ![imports[i].command] = FALSE]
    /\ lock' = IF imports[i].asTask THEN Nothing ELSE lock

\* Mutants: a task takes no lock; a service looks at no flag.
MayStartUnlocked(command, asTask) ==
    /\ [command |-> command, asTask |-> asTask] \in practice
    /\ command \in Kinds => ~flag[command]

MayStartUnflagged(command, asTask) ==
    /\ [command |-> command, asTask |-> asTask] \in practice
    /\ asTask => lock = Nothing

MayStart(command, asTask) ==
    /\ [command |-> command, asTask |-> asTask] \in practice
    /\ asTask => lock = Nothing
    /\ command \in Kinds => ~flag[command]

Started(command, asTask, phase, kind, s) ==
    [phase |-> phase, command |-> command, asTask |-> asTask,
     kind |-> kind, source |-> s, file |-> 1]

-----------------------------------------------------------------------------
\* runSdeTopologyImportService and runSdeInventoryImportService.
StartService(i) ==
    \E command \in Kinds, asTask \in BOOLEAN, s \in Sources :
        /\ ~Active(i)
        /\ MayStart(command, asTask)
        /\ Stage(command)
        /\ imports' = [imports EXCEPT
               ![i] = Started(command, asTask, "reading", command, s)]
        /\ flag' = [flag EXCEPT ![command] = TRUE]
        /\ lock' = IF asTask THEN i ELSE lock
        /\ UNCHANGED <<visible, manifest, practice>>

\* The same with a source that cannot be opened; flag and lock are back at
\* once.
StartUnreadable(i) ==
    \E command \in Kinds, asTask \in BOOLEAN :
        /\ ~Active(i)
        /\ MayStart(command, asTask)
        /\ Stage(command)
        /\ imports' = [imports EXCEPT
               ![i] = Started(command, asTask, "failed", command, Nothing)]
        /\ UNCHANGED <<visible, manifest, flag, lock, practice>>

\* buildSdeLookupTables, which may have a source to download first.
StartLookup(i) ==
    \E asTask \in BOOLEAN :
        /\ ~Active(i)
        /\ MayStart("lookup", asTask)
        /\ imports' = [imports EXCEPT
               ![i] = Started("lookup", asTask, "downloading", "topology", Nothing)]
        /\ lock' = IF asTask THEN i ELSE lock
        /\ UNCHANGED <<created, staging, visible, manifest, flag, practice>>

\* The source is there: the topology importer starts on it.
Downloaded(i) ==
    /\ imports[i].phase = "downloading"
    /\ \E s \in Sources :
          imports' = [imports EXCEPT ![i].phase = "reading", ![i].source = s]
    /\ Stage("topology")
    /\ UNCHANGED <<visible, manifest, flag, lock, practice>>

\* The download fails, times out or is aborted, or its file is unreadable.
DownloadFails(i) ==
    /\ imports[i].phase = "downloading"
    /\ Release(i, "failed")
    /\ \/ UNCHANGED <<created, staging>>
       \/ Stage("topology")
    /\ UNCHANGED <<visible, manifest, practice>>

\* A file is read to its end.  Its statements need their table.
ReadFile(i, k) ==
    /\ Reading(i, k)
    /\ imports[i].file <= Len(Files(k))
    /\ LET t == Files(k)[imports[i].file]
           s == imports[i].source
       IN  /\ HasRows(s, t) => created[k]
           /\ staging' = IF HasRows(s, t)
                         THEN [staging EXCEPT ![k] = @ \cup {<<t, s>>}]
                         ELSE staging
    /\ imports' = [imports EXCEPT ![i].file = @ + 1]
    /\ UNCHANGED <<created, visible, manifest, flag, lock, practice>>

\* A line is no JSON, a table is gone, or the staged counts do not validate.
Fail(i, k) ==
    /\ Reading(i, k)
    /\ Release(i, "failed")
    /\ Unstage(k)
    /\ UNCHANGED <<visible, manifest, practice>>

\* validateStagedTopologyComplete and validateStagedInventoryComplete.
StageComplete(k) ==
    /\ created[k]
    /\ \A t \in TablesOf(k) : \E s \in Sources : <<t, s>> \in staging[k]

\* Mutant: the rows of the last build are not deleted.
PromoteUnion(i, k) ==
    /\ visible' = [visible EXCEPT ![k] = @ \cup staging[k]]
    /\ manifest' = [manifest EXCEPT ![k] = imports[i].source]

\* The transaction of promoteStagedTopology and promoteStagedInventory.
Promote(i, k) ==
    /\ visible' = [visible EXCEPT ![k] = staging[k]]
    /\ manifest' = [manifest EXCEPT ![k] = imports[i].source]

\* Everything is staged: the last stretch of importFromPath.
Ready(i, k) ==
    /\ Reading(i, k)
    /\ imports[i].file > Len(Files(k))
    /\ StageComplete(k)

Finish(i, k) ==
    /\ Ready(i, k)
    /\ ~(imports[i].command = "lookup" /\ k = "topology")
    /\ Promote(i, k)
    /\ Unstage(k)
    /\ Release(i, "done")
    /\ UNCHANGED practice

(***************************************************************************)
(* A lookup build goes on with the inventory importer at once, and ends    *)
(* there if it cannot open the source again: the topology is promoted.     *)
(***************************************************************************)
FinishTopology(i) ==
    /\ Ready(i, "topology")
    /\ imports[i].command = "lookup"
    /\ Promote(i, "topology")
    /\ created' = [created EXCEPT !["topology"] = FALSE, !["inventory"] = TRUE]
    /\ staging' = [k \in Kinds |-> {}]
    /\ \/ /\ imports' = [imports EXCEPT ![i].kind = "inventory", ![i].file = 1]
          /\ UNCHANGED <<flag, lock>>
       \/ Release(i, "failed")
    /\ UNCHANGED practice

\* The process dies.  Temp tables belong to the connection.
Restart ==
    /\ imports' = [i \in Imports |-> NoImport]
    /\ created' = [k \in Kinds |-> FALSE]
    /\ staging' = [k \in Kinds |-> {}]
    /\ flag' = [k \in Kinds |-> FALSE]
    /\ lock' = Nothing
    /\ UNCHANGED <<visible, manifest, practice>>

Step(i) ==
    \/ \E k \in Kinds : ReadFile(i, k) \/ Fail(i, k) \/ Finish(i, k)
    \/ FinishTopology(i)

Next ==
    \/ \E i \in Imports : \/ StartService(i) \/ StartUnreadable(i)
                          \/ StartLookup(i) \/ Downloaded(i)
                          \/ DownloadFails(i) \/ Step(i)
    \/ Restart

Spec == Init /\ [][Next]_vars

-----------------------------------------------------------------------------
(* Properties.                                                             *)

(***************************************************************************)
(* The fixed names of the staging tables are safe: while an import reads,  *)
(* everything staged for its kind is its own and complete so far, though   *)
(* any import drops and recreates the tables of another.                   *)
(***************************************************************************)
StagingIsOwn ==
    \A i \in Imports, k \in Kinds :
        Reading(i, k) =>
            staging[k] = RowsBefore(imports[i].file, imports[i].source, k)

(***************************************************************************)
(* A lookup build that succeeds leaves topology and inventory of one       *)
(* source, although it holds no flag while it reads.                       *)
(***************************************************************************)
LookupEndsWhole ==
    [][\A i \in Imports :
          (imports[i].command = "lookup" /\ Active(i)
              /\ imports'[i].phase = "done")
          => manifest' = [k \in Kinds |-> imports[i].source]]_vars

(***************************************************************************)
(* Readers see what SdeSnapshot promises.                                  *)
(***************************************************************************)
Seen(k) == IF visible[k] = RowsOf(manifest[k], k) THEN manifest[k]
           ELSE IF visible[k] = {} /\ manifest[k] = Nothing THEN Nothing
           ELSE "a mixture"

Snapshot == INSTANCE SdeSnapshot WITH shown <- [k \in Kinds |-> Seen(k)]

ImplementsSnapshot == Snapshot!Spec
=============================================================================
