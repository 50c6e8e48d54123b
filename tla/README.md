# EVE Atlas: specifications of what changes over time

EVE Atlas is an Electron desktop program that collects killmails of EVE Online
from two public providers (zKillboard for discovery, ESI for the full record),
keeps them as evidence in a local SQLite database and reports on them. This
directory holds TLA+ models of the part of it that changes state over time,
the TLC configurations that check them on small instances, and TLAPS proofs of
the properties that matter for every instance.

`PROJECT.json` is the index: components, runs, the lines each definition
models, hazards, findings, theorems and, per property, a mutated definition
that breaks it.

    tlc -workers 2 -config TaskRunner.cfg TaskRunner     # one run
    tlapm CollectionProofs.tla                           # one proof module

## 1. The program

One Node.js process, one event loop, one synchronous SQLite connection. There
are no threads: code is interrupted at an `await` and nowhere else. What can
go wrong comes from commands that interleave at their awaits, from providers
that fail, stall or change their answers, from crashes (the database survives,
everything else is lost) and from the order in which timers and operators act.

| Component | State | Operations | Interacts with | Hard parts |
|---|---|---|---|---|
| Task runner `services/taskRunner.js` | task table, lock table, abort controllers | submit direct or detached, execute, cancel, prune | every command that runs as a task | interleaved submissions, cancel at any point, pruning beside live tasks |
| Collection runs `discovery/*`, `workers/*` | run in memory: selection, package, failures | actor watch, radius watch, manual discovery, manual expansion | providers, evidence repository | stored checks before an await and writes after it, partial failure, time limits, crash between statements |
| Evidence repository `db/evidenceRepository.js` | killmails, activity events, discovery queue | upsert ref, persist package (transaction), mark failed, expanded, cached | collection runs | conflicting answers, status of a ref under several scopes |
| Watch executor `watchlist/*` | armed, interval, remembered task; watch rows | arm, disarm, status, tick, record result, save watch | task runner, gate, collection | selection order, a refused lock, cancel, restart, stale task id |
| Live API gate `services/liveApiGateService.js` | per fingerprint: cooldown, lockout, blocked attempts | enter attempt (accepted or blocked), read | collection, hydration, watch executor | pacing across calls, lockout abuse window |
| HTTP client `api/httpClient.js` | one request: attempt, timer, delay, signal, listeners | request, retry, delay, abort, settle | provider clients, task signal | time limit running through the delays, abort between attempts, listeners on a signal that lives longer |
| SDE import `sde/*`, `services/mutatingActionService.js` | temp staging tables, visible topology and inventory, manifests, two flags | stage line by line, validate, promote, clean up | task runner, database | fixed staging names shared by all imports, failure between the two imports of a build |
| Topology search `sde/topologyService.js` | none of its own | radius search, scope of a new watch | SDE tables, watch rows | order of service, guard, a scope stored from a topology that is replaced |
| Hydration and resolution `metadata/*`, `services/selectedId*`, `resolution/*` | entities, name columns of events, metadata runs | collect IDs, resolve in chunks, write names; repair one ID; resolve a typed actor | gate, HTTP client, collection | what is known is read before the await and written after it, chunks that fail |
| Database migration `db/database.js` | schema | create, rebuild `api_request_logs` | start-up | crash between statements |
| Settings files `services/storage*`, `externalIoStateService.js`, `runtimeSnapshotSettingsService.js` | JSON files | write temp and rename, read back | gates | temp file left by a failed rename |
| Snapshots, retention, watch bucket, assessment | files and rows | synchronous stretches | database | stale previews, delete before write |
| Service registry, readouts, reports, previews, renderer | none of their own | dispatch, pure queries | everything | none in time |

`PROJECT.json` lists all components with every file of `src/main`. More than
half of the program's lines are read-only previews, contract fixtures and
reports; they compute an answer and leave no state.

What makes the core components correct:

* task runner: conflicting handlers never overlap, no lock is lost or leaked,
  no outcome is lost to pruning, a finished record is final;
* collection: evidence is written once and kept, events match it, a queue ref
  is closed only for stored evidence, and nothing a crash or error leaves open
  stays open for ever;
* watch executor: one run at a time and never forgotten, each due watch gets
  its turn, runs keep their distance;
* gate: the commands that enter it are paced, a lockout is deserved and served
  once, and asking again and again is answered in the end;
* HTTP client: a request takes bounded time and contacts, is settled and logged
  once, leaves nothing on the task's signal, and contacts nobody after a
  cancellation;
* SDE import: readers see one complete source or nothing, although all imports
  stage into tables of the same names;
* topology: a stored scope is the exact neighbourhood of its center in one
  build of the static data;
* names: a label of an event is written once, with the name its ID has then; a
  repair yields to whoever named the ID meanwhile; every event becomes readable.

## 2. Modules

### Task runner
`TaskIsolation` is the abstract promise: work is admitted under a set of keys
and holders of common keys, or of the exclusive key, never overlap.
`TaskRunner` is the code: `tasks` is the task map in creation order,
`activeLocks` the lock table, `signal` the abort controllers, `handler` where a
handler is (scheduled by `setImmediate`, executing, done). One action per
operation: `RejectLocked`, `StartTask` (prepareTask in both outcomes),
`ExecuteDetached`, `HandlerReturns`, `HandlerCancelled`, `HandlerThrows` (the
three ways out of executeTask, each with its finally block), `CancelTask`.
A cancelled outcome needs no cancellation: executeTask goes by the error only,
and the HTTP client throws HTTP_CANCELLED also when its time limit runs out
between two attempts.

### Collection
`EvidenceLedger` is the abstract promise: content is written once, refs are
closed only for written content. `Collection` is the four kinds of run over one
queue and one evidence store. A *stretch* of code without await holds the
thread (`Thread`): phases in `Statements` are inside a stretch, phases in
`Waits` are at an await where any other run may go on. Each SQL statement
outside a transaction is an action of its own, because a crash or an error can
come between two of them; `persistEvidencePackage` is one action, because it is
one transaction. The awaited listing, the ESI answer and the finished package
("built") are the yield points. Answers, failures, deferrals, time limits and
aborts are nondeterministic. `CollectionLiveness` adds a moment after which
faults stop.

### Watch executor
`WatchExecutor` extends `TaskRunner`: the executor submits its runs to the real
lock and task tables, and other tasks of the program compete for them. `rows`
are the watch rows with their schedule, `sessionArmed`, `interval` and
`activeTaskId` are the fields of WatchSessionExecutor, `runs` says which task
runs which watch, `cooling` which fingerprints the gate holds back. `Arm`,
`Disarm`, `Status`, `IntervalTick`, `TickCommand`, `FinishRun`, `SaveWatch`,
`RecordRun` and `Restart` are the operations. `WatchOrder` adds two history
variables: when a watch last ended and who started while it waited.

### Live API gate
`PacedAccess` is the abstract promise: who enters needs the wait to be over and
starts a new one; a wait only shrinks with time; for some targets a client may
also be let through when the wait is over, and then contacts its target whenever
it likes and starts no wait. A restart forgets all waits, which is part of the
promise because the state is in memory by design, so nothing here speaks about
two contacts with a restart between them. `LiveGate` keeps, per scope
fingerprint, the time left of cooldown and lockout and the ages of the last
blocked attempts, which is what the stored timestamps mean at the present
moment. `AttemptRefused` and `AttemptAccepted` are the two outcomes of
enterLiveProviderAttempt; a command that passes is `contacting`. Three commands
do not call it but only read `actionGate`: a run of the watch executor,
metadata.hydration (`requestControl: false`) and an SDE build that downloads.
They are `ReadAllowed` (phase `released`) and `StartContacts` (`running`);
`InContact` counts the contacts of both kinds. So the gate paces what an
operator asks for, and not every contact of a provider: a manual actor.watch is
admitted at once beside or after a watch run of the same fingerprint, and the
run may make its first contact after such a command began. What spaces watch
runs is their schedule (`RunsSpaced`). The resolution of a typed name contacts
ESI before a command has its fingerprint and is outside the gate altogether
(`actorResolver.js`; in the model it is part of the phase `entering`).
`LiveGateHistory` counts the strikes since the last
lockout.

### HTTP client
`ProviderCall` is the abstract promise: a call contacts the provider at most so
many times, is settled once, and contacts nobody after it was asked to stop.
`HttpClient` is the loop of `json()`: `phase` says where it is (fetching,
reading a body, the delay after a status in the try block, the delay after a
network error in the catch clause), `timer` and `wait` are the times left,
`aborted` is the signal of the task and `listeners` what the client has on it.
`Interrupt` is the point of the module: the same abort ends a request in
different ways, depending on the delay it meets.

### SDE import and stored scopes
`SdeSnapshot` is the abstract promise to readers: per kind of table, one
complete source or nothing. `SdeImport` is the two importers, the two import
services with their flags, and the lookup build, which runs both importers.
`staging` holds the rows of the temp tables by the source they come from,
`visible` those of the lookup tables. `Stage` drops and recreates the temp
tables whatever is in them; `ReadFile` reads a file (the awaits per line touch
the same table only); `Finish` is the transaction that replaces the visible
tables. `practice` is how one process uses the commands: as tasks under the
exclusive lock, as the product does, or by calling the two import services,
which the flags keep apart. `RadiusSearch` is the breadth-first search:
`Iterate` is one pass of its loop on queue, visited set and guard, `Loop` the
search after each number of passes, `Within` the neighbourhood it should return,
by paths and without a queue. `WatchScope` composes it with the imports and
writes a radius watch.

### Names
`Readability` is the abstract promise to reports. `Hydration` is the report
hydrations (`StartHydration`, `Answer` per chunk, `Apply`), the repair of a
selected ID (`StartRepair`, `RepairAnswered`, `RepairUnresolved`), the
resolution of actors (`StartResolve`, `ResolveAnswered`, `GiveName`) and, of the
environment, `Collect`, which stores an event without names. A *cell* is a name
column of an event and belongs to one ID.

### How they fit
The watch executor is composed with the task runner, and stored scopes with the
imports (EXTENDS). Collection, gate, client and names are separate modules: what
a run does depends on the gate only through being started at all, and the locks
of the task runner only restrict which runs overlap. Collection and Hydration
are therefore checked without locks, in a larger set of interleavings than the
program shows; their properties do not lean on the locks. SdeImport keeps of the
task runner the exclusive lock, whose exclusiveness is `ImplementsIsolation`.
The executor sees the gate as a set of fingerprints that are cooling down; the
collectors see the client as an answer, a failure, a time limit or an abort,
which is what ProviderCall leaves open, and that each request is settled is
`AlwaysSettles`.

## 3. Runs

| Run | Instance | Distinct states | Shows |
|---|---|---|---|
| `task_runner` | 3 tasks, classes metadata-only, evidence-creating, exclusive, one scope or none, history of 1 | 88 thousand | isolation, exact locks, live records kept, release |
| `collection` | radius run, expansion, discovery; 1 killmail, 2 answers, 2 scopes | 97 thousand | every safety property under crash, failure and conflict, ledger refinement |
| `collection_liveness` | 2 actor runs, 1 scope, 2 killmails, cap 1 | 75 thousand | open refs are closed once faults stop, evidence is whole |
| `watch_executor` | 2 watches, one malformed, one with a shared gate, exclusive competitor, 2 tasks per process, clock up to 2 | 546 thousand | one run at a time, remembered and live |
| `watch_order` | 2 watches, intervals 1 and 2, backoff 2, 3 tasks, clock up to 3 | 227 thousand | bounded overtaking, spacing, a due watch runs |
| `live_gate` | an admissible and a rejected radius fingerprint, 2 calls that enter the gate or only read it, cooldowns 2 and 1, window 2, lockout 3, threshold 3 | 296 thousand | pacing of the commands that enter, lockouts earned anew, persistent asking is answered |
| `http_client` | 3 attempts, 30 s, delays and Retry-After of the code in half seconds | 202 thousand | bounded time, one row, no listener left, no contact after a cancellation, settled |
| `sde_import` | 2 sources, one incomplete, 2 imports, both practices, 4 systems, radius up to 2 | 79 thousand | whole builds, own staging, exact search and scopes |
| `hydration` | 2 runs, 2 IDs with a name column each, 2 names, 1 ID per request | 33 thousand | labels written once, repairs yield, events become readable |
| `collection_timeout`, `collection_conflict`, `http_cancelled_unasked` | small | stop at the violation | the findings of section 6 |

**Why the bounds are enough.** Three tasks are the least with which a task can
be live while another finishes and a third submission prunes; a history of one
makes pruning happen at the first chance. Every race of collection involves two
runs and one killmail: two scopes and two answers give duplicates and
conflicts, two killmails with a cap of one give a selection that leaves
something open. A second expansion run or a third killmail repeats these cases.
The executor needs one other task and, with a history of one, finds its own
record pruned by it; that ids run out after two tasks of a process ends
nothing, since processes restart. Two watches give one that waits and one that
overtakes; intervals shorter and equal to the backoff give both orders of the
two times, and three clock values let each of them elapse. The gate needs a
threshold of three for a first, a middle and a deciding strike, a cooldown
short enough to end within the window and a lockout longer than the window, as
in the code (cooldowns of 120 s and 300 s, a window of 600 s, a lockout of 900
s, a threshold of 3). The client has its real numbers; values of Retry-After
below, at and above the time limit are the three cases of that comparison. Of
two imports one may overtake, fail beside or clean up after the other; the
second build closes a gate, so that a scope of the first is not one of the
second, and lacks types, so that a lookup build can fail between its two
halves. Four systems have a path and a shortcut, which is what a search that
serves its queue in another order gets wrong. Two runs of names and two IDs
with one per request give overlap, a chunk that fails after one that was
answered, and an event stored while its ID is taken for known.

`CHECK_DEADLOCK FALSE` appears where a bound ends the behaviour (all task ids
used, the clock at its end) or where a program with nothing to do rests.

**Bounds in guards**: `MaxTasks` (tasks of one process), `MaxTime` (the clock),
`Calls` of the gate (commands under way), `Imports` and `Runs` (imports and runs
of names at a time), and the run slots of Collection; all four are reused
without limit.

**Fairness and why the code justifies it.** The event loop serves callbacks in
order, so whatever is ready runs: weak fairness of ExecuteDetached,
StartHandler and IntervalTick. An awaited request settles, because every
HttpClient request carries a time limit (30 s by default): weak fairness of
Execute, FinishRun, Finish, and of entering the gate. `CalmSpec` of collection
needs strong fairness for Step and StartWatch, because the thread is taken away
and given back infinitely often and because an operator or timer starts a watch
again and again; it assumes that faults stop and that answers come in the end.
`HFairSpec` of the gate assumes that commands settle and an operator who goes
on asking (strong fairness, since a call slot may be busy); `Calm` there asks
for live calls enabled and no restart, which would make admission easier, not
harder. `OrderFairSpec` assumes nothing of operators. `FairSpec` of the client
assumes that its timers are served and nothing of the provider; `FairSpec` of
Hydration that requests are settled and that operators ask for all IDs again
and again, and `Calm` there that in the end nothing fails and ESI knows every
ID.

## 4. Proofs

Eight modules of proofs; every leaf is checked by TLAPS, from the named
assumptions on the constants in the modules (positive limits, distinguished
values outside the sets, `AbuseWindow < AbuseLockout`, guarded practices of the
imports).

* `TaskRunnerProofs`. `IInv` strengthens the checked invariants with three
  facts: when the exclusive key is held it is the only key held, an id that was
  not given out has no record and no handler, and a finished record is not
  active. Exact locks alone are not inductive: that a new task's keys are free
  while no handler is live under them needs the unused ids to be clean, that
  pruning spares live tasks needs their records to be active, and isolation of
  an exclusive task needs that it holds its key alone. Isolation, final
  records and the refinement of TaskIsolation follow.
* `CollectionProofs`. `Sound` says what a run in memory relies on: an awaited
  answer and a package belong to candidates with a known origin, the first
  content filed under a killmail is of that killmail, and every ref the run is
  about to close, or skipped as cached, is of a killmail that is stored. The
  last part survives the awaits because evidence is never removed
  (`SoundIsMonotone`). With `StoredById` (a killmail is stored under its own
  id) this gives types, closed refs have evidence, events match evidence,
  evidence is preserved, and the refinement of EvidenceLedger. A second
  inductive invariant, `AllTrack`, says what is true of a run's own refs while
  other runs write to the same queue: their scope is the run's (`OwnScope`), they
  have rows (`HasRows`), the first answer of a killmail is in the package and a
  package has only answers of this run (`Packaged`), and, once the run settles,
  all it was answered is stored and every ref it was answered for is closed or
  still to be closed (`Closing`). It rests on `IInv`, and it is kept under the
  steps of the others because rows are never removed (`RowsStay`) and a run that
  settles holds the thread, so that no failure of another run reopens a ref it
  has closed before it reports (`TracksStep`). From it: a run that reports
  success closed what it was answered for, runs write in their own scope only,
  and a killmail and its events are stored in one step by the run that packaged
  them, unless that run holds two different answers (`EvidenceLandsWhole`).
  `EvidenceIsWhole` therefore has one hypothesis, `SteadyAnswers`: ESI has one
  content per killmail. Without it the statement is false, which is the run
  `collection_conflict`. Whatever holds of `Spec` holds of `CalmSpec`, which the
  liveness run uses (`CalmKeepsSpec`). What a step may do to the record of a run
  is one relation (`Moves`, `RunMoves`). From it follow two facts about single
  runs: every step brings a run nearer to its end (`RunsEnd`: a stage less, a ref
  less in its loop, or an answer less to wait for), which is why the liveness
  run only has to assume that steps are taken; and, with a finite queue, a run
  asks ESI for at most MaxExpansions refs and for none twice (`AsksAreCapped`).
* `WatchProofs` lifts the runner's invariant to the composed specification
  (`WInv`) and adds that there is at most one run, remembered and live under the
  lock scope of its watch. The spacing of runs and bounded overtaking follow
  from `OInv`: the next poll of a row is an interval or the backoff after its
  last recorded end, and a watch that has overtaken a waiting one is still
  running or has a later poll time than it. One lemma, on what any step does to
  the schedule (`Effect`), carries both. The runner's own promises hold in the
  composition too, restarts included (`RunnerKeepsItsPromises`).
* `LiveGateProofs`: types, lockouts served once, the refinement of
  `PacedAccess` with the wait as the longer of cooldown and lockout
  (`GatePacesCommands`: about commands that enter the gate, or are let through
  by it, not about every contact of a provider), and that
  each lockout rests on strikes of its own. The last needs `OnlyStrikesCount`:
  an attempt beyond the strikes is out of the window, or will be when the
  lockout under way is over; this holds because the window is shorter than the
  lockout (an assumption on the constants that the code meets).

* `HttpClientProofs`: `IInv` says of an open request that the signal is not
  aborted, that it has contacted once per attempt, that nothing is logged yet,
  and that the time spent plus what the timer has left is within the time limits
  of the attempts so far. The last is what bounds the time: each attempt starts
  its timer anew, and delays run under the timer of the attempt before them.
  Time bound, single row, listeners and the refinement of ProviderCall follow
  for any number of attempts and any delays.
* `SdeImportProofs`: for any sources and any number of imports. `Calls` says who
  may be at work together (`Held`: a call that is at work holds its flag or the
  lock it needs) and gives that no two imports read the same kind; `Tables` adds
  that staging is the reader's own, that visible tables are of one complete
  source (`VisibleWhole`), and that a lookup build in its second half has
  promoted its first (`HalfBuilt`). Without the practices the first step fails:
  a lookup build looks at no flag.
* `WatchScopeProofs`: the radius search for every finite set of rows, center,
  radius, exclusion and limit (`SearchesAreRight`). Between two passes (`Exact`)
  the queue is in order of depth and spans two depths at most (`Ordered`), what
  is visited or waits is within its depth (`Sound`), and nothing is lost
  (`Covers`): while depth d is served, whatever is d jumps away is visited or
  waits at d, and what lies next to a visited system is visited or waits. An
  empty queue then means that all within the radius was visited (`BallsEnd`), and
  a guard that trips has more than the limit within the radius. That the number
  of passes is enough is a measure (`Left`): entries in the queue plus rows of
  systems not visited yet; a visit removes its own rows and pushes no more than
  it has rows. `IInv` of the imports holds of the composed specification
  (`ScopeKeepsImports`, and with it `ImportsBesideWatches`), so visible tables
  are empty or of one build, which gives `SearchesAreExact` and
  `ScopesAreOfOneBuild`. Assumed of the constants: ids are integers, tables
  finite, radius and limit natural numbers, as the service and the schema
  enforce.
* `HydrationProofs`: types, `RepairNeverOverwrites` and the refinement of
  Readability, for any IDs, events, chunk size and number of runs. The invariant
  only has to add that a typed name is a name and that a repair is about one ID;
  that labels are copied from names of the same moment follows from what
  `Patched` and `ApplyResolved` write (`AppliedFacts`), not from what a run
  remembers across its awaits.

Also proved, though no run checks them: `HandlersIsolated` and `FinishedIsFinal`
of the task runner (conflicting handlers are never live together; a finished
record never changes), `LockoutNotExtended` of the gate, `StoredWithEvents`,
`RunsComeToAnEnd` and `AsksWithinCap` of collection.

The library's induction theorems take an operator as parameter, which no
installed prover instantiates. `NatSetInduction` is induction with the claim as
a set, from the well-foundedness of the order on Nat, and `Iteration` derives
from it that a function can be iterated; what `Balls` and `Loop` compute for
every number of steps rests on these two.

Model-checked only: liveness, which with ENABLED is out of this prover's reach:
LocksReleased, OpenRefsAreClosed, DueWatchRuns, AskingIsAnswered, AlwaysSettles
and EventsBecomeReadable. Every other property of a passing run is a theorem.

## 5. What the models leave out

* Texts, warnings, audits, estimates, API logs and summaries: written, and read
  by no decision that is modelled. `fetch_runs` rows follow from how a run ends.
* The order of queue rows and requests: priorities and times may give any
  order, so every order is allowed; failed refs come last, as the query says.
* The origin of an expanded killmail is the scope of the candidate requested
  first.
* Task ids are in creation order. Watch ids are their place in the order by
  type and id; times are positive numbers and 0 is NULL; a watch's interval is
  fixed; rows are never deleted by the product; watch.recordRun is modelled
  with its default times. A malformed stored scope can only come from a row of
  an older database; it blocks the head of the queue.
* The gate's clock never goes back. Its list of tasks is not cut at 100. Only
  the last AbuseThreshold blocked attempts are kept, no older one can matter.
* `signal` of the task runner and `aborted` of the client are the same thing in
  two modules; the client's FairSpec does not depend on it.
* No caller passes `options.signal` or `options.timeoutMs` to the client.
* Rows of SDE tables are the sources they come from; columns, checksums, byte
  limits and redirects are data. A download ends or fails.
* Which IDs a report asks for (its top lists and limits), categories, sources
  and times of names are data: any set of IDs may be asked for.
* The radius planner of a run and its `max_systems` cap are outside WatchScope.

**Not modelled.** The components with status `not_modelled` carry their reason in
`PROJECT.json`. They fall into four groups. Read-only code (previews, readouts,
reports, dry runs, gate policy, support artifacts, the renderer and most of the
service registry) is more than half of the program; it keeps no state, so a
model of it would repeat its conditions. Fixtures and proof services run the
modelled stages on databases of their own and are tests in all but name. Pure
conversions (planners, normalisation, bounds of scopes) are taken as what the
actions tell apart: which refs a plan allows, which contents differ. One
synchronous stretch without a second actor (migration, settings files,
snapshots, retention, watch bucket, assessment) has no interleaving for a model
to find; what a crash or a failed rename leaves behind there was seen by
reading and is listed under the hazards and in section 6.

## 6. Findings

| Run | The repository says | The code does |
|---|---|---|
| `collection_timeout` | expansion-selection-contract.md:43: a failed expansion does not abort the whole run | an ESI time limit in an actor run is fatal and the package expanded so far is lost |
| `collection_conflict` | ADR-0002:14: the payload is stored once and events are derived from it | two answers for one new killmail in a package leave it stored without events, and skipped as cached from then on |
| `http_cancelled_unasked` | http-timeouts-and-cancellation.md: a time limit produces HTTP_TIMEOUT, a cancellation HTTP_CANCELLED | a time limit that runs out in the delay after a network error throws HTTP_CANCELLED, and nothing is logged |

Observations from reading, without a run:

* Collection: manual expansion asks ESI twice for a killmail that is queued under
  two scopes (`manualExpansionWorker.js:32`; expansion-selection-contract.md:37
  says deduplicate before expansion). A run that a crash ends keeps its
  `fetch_runs` or metadata row in status running.
* Watch executor: a tick starts beside other evidence-creating work
  (`watchExecutor.js:66`, `:106`; session-armed-watch-executor-contract.md:52
  rules it out): it asks for its own task and for the lock of its scope only.
* Gate: a running duplicate is looked for by scope_key, which is the caller's own
  or nobody's; no caller passes Retry-After to the gate. Watch runs
  (`watchExecutor.js:97`), metadata hydration (`mutatingActionService.js:71`) and
  SDE downloads (`serviceRegistry.js:1251`) read the gate and start no cooldown,
  so their contacts are not spaced by it and a manual command of the same
  fingerprint is admitted beside them; OverseerHS79 (`workspace/to-be-sorted`)
  leaves the pace of watch runs to the watch schedule. A typed name is resolved
  at ESI before the gate is asked (`mutatingActionService.js:38`, `:53`), so a
  refused command may have made a contact.
* SDE: `sde.build-lookups` looks at no flag, so beside a direct call of an import
  service the two would share staging tables; as tasks they cannot meet. A build
  whose inventory fails leaves the new topology, as verify-partial-failures.js:352
  expects. After a source that cannot be opened the empty staging tables stay.
* Radius: `max_systems` caps a plan only when no scope is stored, and may drop the
  center (`systemRadiusPlanner.js:14`); stored `excluded_system_ids` are not
  applied when a watch is written or run.
* Names: of two overlapping hydrations the one that writes last wins, with the
  older answer if it was answered first. One ID that ESI rejects fails its chunk
  and the run. The before and after counts of a repair are of the whole database
  and show what other runs wrote meanwhile.
* Migration: a crash after CREATE makes later starts fail, one after DROP leaves
  the old rows in `api_request_logs_rebuilt` (`database.js:76`).
* Settings: the temp file of a failed rename makes every later write of the
  process fail (`externalIoStateService.js:539`). Snapshots with overwrite delete
  the old file before the new one exists (`runtimeSnapshotService.js:89`).

## 7. Order of work

The number of runs is kept at a dozen; related questions about one instance
share a run. Modelled, checked and proved, most important behaviour first:
task runner, collection, watch executor, gate; then the HTTP client, the SDE
import with the scopes stored from it, and names. Open ends worth taking up:

1. a composition of Collection with the gate and the client, which would make
   the outcomes of a request a consequence instead of a choice;
2. the retention prune, once the product reaches it beside collections.
