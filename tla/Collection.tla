----------------------------- MODULE Collection -----------------------------
(***************************************************************************)
(* Evidence collection: the discovery queue, the stored evidence and the   *)
(* four kinds of run that work on them, side by side.                      *)
(*                                                                         *)
(*   actor    discovery/actorWatchDirectBody.js (command or scheduled)     *)
(*   radius   workers/systemRadiusCollector.js                             *)
(*   expand   workers/manualExpansionWorker.js                             *)
(*   discover workers/manualDiscoveryWorker.js                             *)
(*                                                                         *)
(* A run gives up the thread only where it awaits: the listing, an ESI     *)
(* answer, the finished package.  Between two awaits each statement is a   *)
(* transaction of its own, so only a crash can come between them.          *)
(***************************************************************************)
EXTENDS Integers, FiniteSets

CONSTANTS Killmails, Hashes,
          Bodies,                    \* what ESI may answer for a killmail
          ActorScopes, RadiusScopes, \* queue scopes of the routine watches
          ManualScopes,              \* queue scopes of manual discovery
          ActorRuns, RadiusRuns, ExpandRuns, DiscoverRuns,  \* run slots
          MaxExpansions,             \* caps.maxExpansions
          NoContent, NoRef, NoScope

WatchRuns == ActorRuns \cup RadiusRuns
Runs == WatchRuns \cup ExpandRuns \cup DiscoverRuns
Scopes == ActorScopes \cup RadiusScopes \cup ManualScopes

ASSUME CollectionAssumption ==
    /\ MaxExpansions \in Nat \ {0}
    /\ NoContent \notin [killmail : Killmails, hash : Hashes, body : Bodies]
    /\ NoScope \notin Scopes

\* The primary key of discovered_killmail_refs.
Ref == [killmail : Killmails, hash : Hashes, scope : Scopes]
\* What an expanded killmail is compared by.
Content == [killmail : Killmails, hash : Hashes, body : Bodies]

Statuses == {"none", "pending", "expanded", "cached", "failed"}

\* Phases in which the run holds the thread, and those in which it waits.
Statements == {"upserting", "requesting", "failing", "expanding", "caching"}
Waits == {"searching", "awaiting", "built"}

VARIABLES refs,       \* the discovery queue: ref -> status, "none": no row
          killmails,  \* stored killmail -> its content
          events,     \* killmail -> the content its stored events derive from
          run         \* the runs in memory

vars == <<refs, killmails, events, run>>

Run == [phase : {"idle"} \cup Statements \cup Waits,
        scope : Scopes \cup {NoScope},
        chosen : SUBSET Ref,     \* selectedRefs
        known : SUBSET Ref,      \* the discovered queue; once selection is
                                 \* made, what it skipped as cached
        todo : SUBSET Ref,       \* the running loop's remaining refs
        asked : Ref \cup {NoRef},
        failed : SUBSET Killmails,
        pkg : SUBSET Content,    \* evidencePackage.killmails, and of each
        first : [Killmails -> Content \cup {NoContent}], \* killmail the first
        origin : [Killmails -> Scopes \cup {NoScope}]]

Idle == [phase |-> "idle", scope |-> NoScope, chosen |-> {}, known |-> {},
         todo |-> {}, asked |-> NoRef, failed |-> {}, pkg |-> {},
         first |-> [k \in Killmails |-> NoContent],
         origin |-> [k \in Killmails |-> NoScope]]

hasKillmail(k) == killmails[k] # NoContent

TypeOK ==
    /\ refs \in [Ref -> Statuses]
    /\ killmails \in [Killmails -> Content \cup {NoContent}]
    /\ events \in [Killmails -> Content \cup {NoContent}]
    /\ run \in [Runs -> Run]

Init ==
    /\ refs = [c \in Ref |-> "none"]
    /\ killmails = [k \in Killmails |-> NoContent]
    /\ events = [k \in Killmails |-> NoContent]
    /\ run = [r \in Runs |-> Idle]

-----------------------------------------------------------------------------
(* The thread, the queue and the selection.                                *)

\* r may run: no other run is between two awaits.
Thread(r, phase) ==
    /\ run[r].phase = phase
    /\ \A q \in Runs \ {r} : run[q].phase \notin Statements

Open == {c \in Ref : refs[c] \in {"pending", "failed"}}

(***************************************************************************)
(* ORDER BY status = 'failed', priority ... LIMIT maxExpansions, for every *)
(* order the priorities and times may give.                                *)
(***************************************************************************)
Capped(S, n) ==
    {C \in SUBSET S : Cardinality(C) = (IF Cardinality(S) < n
                                        THEN Cardinality(S) ELSE n)}

FirstOpen(S) ==
    {C \in Capped(S, MaxExpansions) :
        (\E c \in C : refs[c] = "failed") =>
            \A c \in S : refs[c] = "pending" => c \in C}

pendingDiscoveryRefs(scope) == {c \in Open : c.scope = scope}

(***************************************************************************)
(* selectExpansionCandidates: stored killmails are skipped as cached, the  *)
(* rest selected up to the cap in queue order.  The expansion loop follows *)
(* in the same stretch.                                                    *)
(***************************************************************************)
Selected(r, scope, queue, chosen) ==
    /\ chosen \in Capped({c \in queue : ~hasKillmail(c.killmail)}, MaxExpansions)
    /\ run' = [run EXCEPT ![r] = [Idle EXCEPT
                  !.phase = "requesting", !.scope = scope, !.todo = chosen,
                  !.chosen = chosen,
                  !.known = {c \in queue : hasKillmail(c.killmail)}]]

-----------------------------------------------------------------------------
(* Starting a run and discovery.                                           *)

Search(r, scope) == run' = [run EXCEPT ![r] = [Idle EXCEPT
                               !.phase = "searching", !.scope = scope]]

Begin(r) == /\ Thread(r, "idle")
            /\ UNCHANGED <<refs, killmails, events>>

\* Open refs of the scope are drained; zKill is asked only when there are none.
StartWatch(r, scope) ==
    /\ scope \in (IF r \in ActorRuns THEN ActorScopes ELSE RadiusScopes)
    /\ Begin(r)
    /\ IF pendingDiscoveryRefs(scope) = {}
       THEN Search(r, scope)
       ELSE \E queue \in FirstOpen(pendingDiscoveryRefs(scope)) :
               \E chosen \in SUBSET queue : Selected(r, scope, queue, chosen)

StartDiscovery(r, scope) ==
    /\ Begin(r)
    /\ Search(r, scope)

(***************************************************************************)
(* manualExpansionCandidates: open refs of one scope or of any, for some   *)
(* killmails or all.  There is no selection: every candidate is selected.  *)
(***************************************************************************)
StartExpansion(r, scopes, kms) ==
    /\ Begin(r)
    /\ \E chosen \in FirstOpen({c \in Open : /\ c.scope \in scopes
                                             /\ c.killmail \in kms}) :
          run' = [run EXCEPT ![r] = [Idle EXCEPT !.phase = "requesting",
                                        !.chosen = chosen, !.todo = chosen]]

\* zKill lists refs, malformed and repeated killmail ids removed; a listing
\* that fails is an empty one with a warning.
Listing(scope) ==
    {L \in SUBSET {c \in Ref : c.scope = scope} :
        \A c, d \in L : c.killmail = d.killmail => c = d}

Discovered(r) ==
    /\ Thread(r, "searching")
    /\ \E queue \in Listing(run[r].scope) :
          run' = [run EXCEPT ![r] = [@ EXCEPT !.phase = "upserting",
                                        !.known = queue, !.todo = queue]]
    /\ UNCHANGED <<refs, killmails, events>>

\* Mutant: only a failed row keeps its status.
UpsertedReopened(c) == IF refs[c] = "failed" THEN refs[c]
                       ELSE IF hasKillmail(c.killmail) THEN "cached" ELSE "pending"

Upserted(c) ==
    IF refs[c] \in {"expanded", "cached", "failed"} THEN refs[c]
    ELSE IF hasKillmail(c.killmail) THEN "cached" ELSE "pending"

upsertDiscoveredKillmailRef(r, c) ==
    /\ Thread(r, "upserting")
    /\ c \in run[r].todo
    /\ refs' = [refs EXCEPT ![c] = Upserted(c)]
    /\ run' = [run EXCEPT ![r] = [@ EXCEPT !.todo = run[r].todo \ {c}]]
    /\ UNCHANGED <<killmails, events>>

SelectDiscovered(r) ==
    /\ r \in WatchRuns
    /\ Thread(r, "upserting")
    /\ run[r].todo = {}
    /\ \E chosen \in SUBSET run[r].known :
          Selected(r, run[r].scope, run[r].known, chosen)
    /\ UNCHANGED <<refs, killmails, events>>

-----------------------------------------------------------------------------
(* The expansion loop: buildEvidencePackageFromRefs.                       *)

(***************************************************************************)
(* The next ref whose killmail is not stored by now is asked for.  origin  *)
(* is the scope of a killmail's first candidate (scopeForKillmail).        *)
(***************************************************************************)
expandKillmail(r, c) ==
    /\ Thread(r, "requesting")
    /\ c \in run[r].todo
    /\ ~hasKillmail(c.killmail)
    /\ run' = [run EXCEPT ![r] = [@ EXCEPT
          !.phase = "awaiting", !.asked = c, !.todo = run[r].todo \ {c},
          !.origin = [run[r].origin EXCEPT
                         ![c.killmail] = IF @ = NoScope THEN c.scope ELSE @]]]
    /\ UNCHANGED <<refs, killmails, events>>

FirstWith(first, content) ==
    [k \in Killmails |->
        IF first[k] = NoContent /\ \E p \in content : p.killmail = k
        THEN CHOOSE p \in content : p.killmail = k ELSE first[k]]

Answered(r, failed, content) ==
    /\ Thread(r, "awaiting")
    /\ run' = [run EXCEPT ![r] = [@ EXCEPT
          !.phase = "requesting", !.asked = NoRef,
          !.failed = run[r].failed \cup failed,
          !.pkg = run[r].pkg \cup content,
          !.first = FirstWith(run[r].first, content)]]
    /\ UNCHANGED <<refs, killmails, events>>

EsiExpands(r) ==
    \E body \in Bodies :
        Answered(r, {}, {[killmail |-> run[r].asked.killmail,
                          hash |-> run[r].asked.hash, body |-> body]})

\* An error answer.
EsiFails(r) == Answered(r, {run[r].asked.killmail}, {})

\* provider_capacity_deferred: the ref is left as it was.
EsiDefers(r) == Answered(r, {}, {})

Finalize(r) == run' = [run EXCEPT ![r] = Idle]

\* Cancelled: the run fails, its package is lost.
RunAborts(r) ==
    /\ Thread(r, "awaiting")
    /\ Finalize(r)
    /\ UNCHANGED <<refs, killmails, events>>

\* isFatalTransportError: a timeout ends an actor run and fails a ref elsewhere.
EsiTimesOut(r) == IF r \in ActorRuns THEN RunAborts(r) ELSE EsiFails(r)

PackageBuilt(r) ==
    /\ Thread(r, "requesting")
    /\ \A c \in run[r].todo : hasKillmail(c.killmail)
    /\ run' = [run EXCEPT ![r] = [@ EXCEPT !.phase = "built", !.todo = {}]]
    /\ UNCHANGED <<refs, killmails, events>>

-----------------------------------------------------------------------------
(* Settling: failed refs, the evidence transaction, expanded and cached    *)
(* refs, the end of the run.                                               *)

\* markFailedExpansionCandidates: by killmail, among the selected.
Settle(r) ==
    /\ Thread(r, "built")
    /\ run' = [run EXCEPT ![r] = [@ EXCEPT !.phase = "failing",
          !.todo = {c \in run[r].chosen : c.killmail \in run[r].failed}]]
    /\ UNCHANGED <<refs, killmails, events>>

\* Mutant: the legacy statement, by killmail in every scope.
FailedEverywhere(c) ==
    [d \in Ref |-> IF d.killmail = c.killmail /\ refs[d] # "none"
                   THEN "failed" ELSE refs[d]]

Failed(c) == [refs EXCEPT ![c] = IF @ = "none" THEN @ ELSE "failed"]

markDiscoveryRefsFailed(r, c) ==
    /\ Thread(r, "failing")
    /\ c \in run[r].todo
    /\ refs' = Failed(c)
    /\ run' = [run EXCEPT ![r] = [@ EXCEPT !.todo = run[r].todo \ {c}]]
    /\ UNCHANGED <<killmails, events>>

PackagedOf(r, k) == {p \in run[r].pkg : p.killmail = k}

\* Mutant: the upsert replaces the evidence columns.
LandedLatest(r) ==
    [k \in Killmails |-> IF run[r].first[k] = NoContent
                         THEN killmails[k] ELSE run[r].first[k]]

\* upsertKillmail: the first content is kept for good.
Landed(r) ==
    [k \in Killmails |-> IF hasKillmail(k) THEN killmails[k] ELSE run[r].first[k]]

(***************************************************************************)
(* insertKillmailConflictWarnings: killmails of which some content differs *)
(* from what is stored by the time it is its turn.                         *)
(***************************************************************************)
Conflicts(r) ==
    {k \in Killmails : \E p \in PackagedOf(r, k) : p # Landed(r)[k]}

\* Mutant: events of the differing content are written.
DerivedAlways(r) ==
    [k \in Killmails |->
        IF k \in Conflicts(r) /\ events[k] = NoContent
        THEN CHOOSE p \in PackagedOf(r, k) : p # Landed(r)[k]
        ELSE IF PackagedOf(r, k) = {} \/ events[k] # NoContent THEN events[k]
        ELSE Landed(r)[k]]

\* All events of a conflicting killmail are suppressed, those of the content
\* the package itself landed included.
Derived(r) ==
    [k \in Killmails |->
        IF \/ PackagedOf(r, k) = {}
           \/ k \in Conflicts(r)
           \/ events[k] # NoContent
        THEN events[k] ELSE Landed(r)[k]]

\* Mutant: manual runs mark without a scope.
MarkedInRunScope(r) ==
    {[killmail |-> p.killmail, hash |-> p.hash, scope |-> run[r].scope] :
        p \in run[r].pkg}

\* The scope is that of the killmail's first candidate.
Marked(r) ==
    {[killmail |-> p.killmail, hash |-> p.hash,
      scope |-> run[r].origin[p.killmail]] : p \in run[r].pkg}

\* Mutant: killmails and events are committed one after the other.
persistEvidencePackageInParts(r) ==
    /\ Thread(r, "failing")
    /\ run[r].todo = {}
    /\ UNCHANGED refs
    /\ \/ /\ Landed(r) # killmails
          /\ killmails' = Landed(r)
          /\ UNCHANGED <<events, run>>
       \/ /\ Landed(r) = killmails
          /\ events' = Derived(r)
          /\ run' = [run EXCEPT ![r] = [@ EXCEPT !.phase = "expanding",
                                                 !.todo = Marked(r)]]
          /\ UNCHANGED killmails

persistEvidencePackage(r) ==
    /\ Thread(r, "failing")
    /\ run[r].todo = {}
    /\ killmails' = Landed(r)
    /\ events' = Derived(r)
    /\ run' = [run EXCEPT ![r] = [@ EXCEPT !.phase = "expanding",
                                           !.todo = Marked(r)]]
    /\ UNCHANGED refs

Expanded(c) == [refs EXCEPT ![c] = IF @ = "none" THEN @ ELSE "expanded"]

markDiscoveryRefsExpanded(r, c) ==
    /\ Thread(r, "expanding")
    /\ c \in run[r].todo
    /\ refs' = Expanded(c)
    /\ run' = [run EXCEPT ![r] = [@ EXCEPT !.todo = run[r].todo \ {c}]]
    /\ UNCHANGED <<killmails, events>>

\* Mutants: every selected ref is closed; watches close none.
CachedAll(r) == run[r].chosen

CachedManualOnly(r) == IF r \in ExpandRuns
                       THEN {c \in run[r].chosen : hasKillmail(c.killmail)}
                       ELSE {}

\* Watches close what selection found stored; manual expansion every candidate
\* that is stored by now.
Cached(r) == IF r \in ExpandRuns
             THEN {c \in run[r].chosen : hasKillmail(c.killmail)}
             ELSE run[r].known

StartCaching(r) ==
    /\ Thread(r, "expanding")
    /\ run[r].todo = {}
    /\ run' = [run EXCEPT ![r] = [@ EXCEPT !.phase = "caching",
                                           !.todo = Cached(r)]]
    /\ UNCHANGED <<refs, killmails, events>>

\* Mutant: a ref that failed before is left failed.
MarkedCachedPending(c) == [refs EXCEPT ![c] = IF @ = "pending" THEN "cached" ELSE @]

MarkedCached(c) ==
    [refs EXCEPT ![c] = IF @ \in {"none", "expanded"} THEN @ ELSE "cached"]

markDiscoveryRefsCached(r, c) ==
    /\ Thread(r, "caching")
    /\ c \in run[r].todo
    /\ refs' = MarkedCached(c)
    /\ run' = [run EXCEPT ![r] = [@ EXCEPT !.todo = run[r].todo \ {c}]]
    /\ UNCHANGED <<killmails, events>>

RunSucceeds(r) ==
    /\ \/ Thread(r, "caching")
       \/ Thread(r, "upserting") /\ r \in DiscoverRuns
    /\ run[r].todo = {}
    /\ Finalize(r)
    /\ UNCHANGED <<refs, killmails, events>>

-----------------------------------------------------------------------------
(* Failures.                                                               *)

\* A statement throws: an open transaction is rolled back, the run fails.
StatementFails(r) ==
    /\ \E phase \in Statements : Thread(r, phase)
    /\ Finalize(r)
    /\ UNCHANGED <<refs, killmails, events>>

\* The process dies and starts again: the fetch_runs rows keep "running".
Crash ==
    /\ \E r \in Runs : run[r] # Idle
    /\ run' = [r \in Runs |-> Idle]
    /\ UNCHANGED <<refs, killmails, events>>

-----------------------------------------------------------------------------
Start(r) ==
    \/ \E scope \in Scopes : r \in WatchRuns /\ StartWatch(r, scope)
    \/ \E scope \in ManualScopes : r \in DiscoverRuns /\ StartDiscovery(r, scope)
    \/ \E scopes \in {Scopes} \cup {{s} : s \in Scopes}, kms \in SUBSET Killmails :
          r \in ExpandRuns /\ StartExpansion(r, scopes, kms)

Step(r) ==
    \/ Discovered(r) \/ SelectDiscovered(r) \/ EsiExpands(r) \/ PackageBuilt(r)
    \/ Settle(r) \/ persistEvidencePackage(r) \/ StartCaching(r) \/ RunSucceeds(r)
    \/ \E c \in Ref : \/ upsertDiscoveredKillmailRef(r, c) \/ expandKillmail(r, c)
                      \/ markDiscoveryRefsFailed(r, c)
                      \/ markDiscoveryRefsExpanded(r, c)
                      \/ markDiscoveryRefsCached(r, c)

Fault == Crash \/ \E r \in Runs : \/ EsiFails(r) \/ EsiDefers(r) \/ EsiTimesOut(r)
                                  \/ RunAborts(r) \/ StatementFails(r)

Work == \E r \in Runs : Start(r) \/ Step(r)

Next == Work \/ Fault

Spec == Init /\ [][Next]_vars

-----------------------------------------------------------------------------
(* Properties.                                                             *)

EvidenceLedgerView == INSTANCE EvidenceLedger
                          WITH evidence <- killmails, status <- refs

Closed(c) == refs[c] \in {"expanded", "cached"}

(***************************************************************************)
(* A ref is closed as expanded or cached only when its killmail is stored, *)
(* also after a crash between the transaction and the marks, and whatever  *)
(* another run of the same scope does meanwhile.                           *)
(***************************************************************************)
ClosedRefHasEvidence == \A c \in Ref : Closed(c) => hasKillmail(c.killmail)

(***************************************************************************)
(* The stored events of a killmail derive from the stored content of it,   *)
(* even when runs land different answers for it (docs/failures/            *)
(* failure-0002-raw-killmail-upsert-mutation.md).                          *)
(***************************************************************************)
EventsMatchEvidence ==
    \A k \in Killmails : events[k] # NoContent => events[k] = killmails[k]

(***************************************************************************)
(* A stored killmail is never replaced and its events never change.        *)
(***************************************************************************)
EvidencePreserved ==
    [][\A k \in Killmails :
          /\ hasKillmail(k) => killmails'[k] = killmails[k]
          /\ events[k] # NoContent => events'[k] = events[k]]_vars

(***************************************************************************)
(* A routine watch touches refs of its own queue scope only, and so never  *)
(* drains the manual queues (docs/contracts/discovery-queue-contract.md:   *)
(* 42); a manual discovery touches only the scope it was asked for.        *)
(***************************************************************************)
ScopesIsolated ==
    [][\A r \in Runs \ ExpandRuns, c \in Ref :
          run[r] # run'[r] /\ Cardinality({q \in Runs : run[q] # run'[q]}) = 1
          /\ refs[c] # refs'[c] => c.scope = run[r].scope]_vars

(***************************************************************************)
(* A run that is recorded as a success has closed every ref whose answer   *)
(* it landed, under one scope or another, even if the same killmail also   *)
(* failed in this run.                                                     *)
(***************************************************************************)
SuccessClosesItsRefs ==
    [][\A r \in Runs, c \in Ref :
          /\ RunSucceeds(r)
          /\ c \in run[r].chosen
          /\ \E p \in run[r].pkg : p.killmail = c.killmail
                                              /\ p.hash = c.hash
          => Closed(c)]_vars

(***************************************************************************)
(* Where ESI never changes its answer, a stored killmail has its events:   *)
(* no crash or race leaves one half written.                               *)
(***************************************************************************)
EvidenceWhole == \A k \in Killmails : hasKillmail(k) => events[k] # NoContent

(***************************************************************************)
(* Collection implements the evidence ledger.                              *)
(***************************************************************************)
ImplementsLedger == EvidenceLedgerView!Spec

(***************************************************************************)
(* docs/contracts/expansion-selection-contract.md:43, "Failed expansion    *)
(* records warnings and does not abort the whole run": what was expanded   *)
(* before a timeout is kept.                                               *)
(***************************************************************************)
FailedExpansionKeepsPackage ==
    [][\A r \in Runs : EsiTimesOut(r) => run'[r].pkg = run[r].pkg]_vars
=============================================================================
