-------------------------- MODULE CollectionProofs --------------------------
(***************************************************************************)
(* Theorems about Collection for every choice of its constants.            *)
(***************************************************************************)
EXTENDS CollectionLiveness, FiniteSetTheorems, TLAPS

(***************************************************************************)
(* What a run in memory relies on: the answer it waits for and those it    *)
(* has belong to candidates, the refs it is about to close are of killmails*)
(* stored in kms, and so are those its selection skipped.                  *)
(***************************************************************************)
Settling == {"expanding", "caching"}

Sound(rec, kms) ==
    /\ rec.phase = "awaiting" =>
          /\ rec.asked \in Ref
          /\ rec.origin[rec.asked.killmail] # NoScope
    /\ \A p \in rec.pkg : /\ rec.origin[p.killmail] # NoScope
                          /\ rec.first[p.killmail] # NoContent
    /\ \A k \in Killmails :
          rec.first[k] # NoContent => rec.first[k].killmail = k
    /\ rec.phase \notin {"searching", "upserting"} =>
          \A c \in rec.known : kms[c.killmail] # NoContent
    /\ rec.phase \in Settling => \A c \in rec.todo : kms[c.killmail] # NoContent

AllSound == \A r \in Runs : Sound(run[r], killmails)

\* A killmail is stored under its own id.
StoredById ==
    \A k \in Killmails : hasKillmail(k) => killmails[k].killmail = k

IInv ==
    /\ TypeOK
    /\ ClosedRefHasEvidence
    /\ EventsMatchEvidence
    /\ StoredById
    /\ AllSound

-----------------------------------------------------------------------------
LEMMA IdleIsSound ==
    ASSUME NEW kms
    PROVE  Idle \in Run /\ Sound(Idle, kms) /\ Idle.todo = {}
  BY DEF Idle, Run, Sound, Settling

(***************************************************************************)
(* Storing more leaves a run sound.                                        *)
(***************************************************************************)
LEMMA SoundIsMonotone ==
    ASSUME NEW rec \in Run, NEW kms, NEW more, Sound(rec, kms),
           \A k \in Killmails : kms[k] # NoContent => more[k] # NoContent
    PROVE  Sound(rec, more)
  BY DEF Sound, Run, Ref

(***************************************************************************)
(* A step of one run that stores no less and leaves its own record sound   *)
(* leaves all of them sound.                                               *)
(***************************************************************************)
LEMMA RunStep ==
    ASSUME TypeOK, AllSound, NEW r \in Runs, NEW new \in Run,
           run' = [run EXCEPT ![r] = new], Sound(new, killmails'),
           \A k \in Killmails : hasKillmail(k) => killmails'[k] # NoContent
    PROVE  run' \in [Runs -> Run] /\ AllSound'
<1>1. ASSUME NEW q \in Runs, q # r
      PROVE  Sound(run[q], killmails')
  <2>1. run[q] \in Run /\ Sound(run[q], killmails)
    BY DEF TypeOK, AllSound
  <2> QED
    BY <2>1, SoundIsMonotone DEF hasKillmail
<1>2. run' \in [Runs -> Run]
  BY DEF TypeOK
<1>3. \A q \in Runs : run'[q] = IF q = r THEN new ELSE run[q]
  BY DEF TypeOK
<1> QED
  BY <1>1, <1>2, <1>3 DEF AllSound

(***************************************************************************)
(* The same for a step that writes no evidence.                            *)
(***************************************************************************)
LEMMA QueueStep ==
    ASSUME IInv, NEW r \in Runs, NEW new \in Run,
           run' = [run EXCEPT ![r] = new], Sound(new, killmails),
           UNCHANGED <<killmails, events>>,
           refs' \in [Ref -> Statuses],
           \A c \in Ref : Closed(c)' => Closed(c) \/ hasKillmail(c.killmail)
    PROVE  IInv'
<1>1. run' \in [Runs -> Run] /\ AllSound'
  <2>1. Sound(new, killmails')
    BY Zenon
  <2>2. \A k \in Killmails : hasKillmail(k) => killmails'[k] # NoContent
    BY DEF hasKillmail
  <2> QED
    BY <2>1, <2>2, RunStep DEF IInv
<1>2. TypeOK'
  BY <1>1 DEF IInv, TypeOK
<1>3. ClosedRefHasEvidence'
  <2> SUFFICES ASSUME NEW c \in Ref, Closed(c)'
               PROVE  hasKillmail(c.killmail)'
    BY DEF ClosedRefHasEvidence
  <2>1. hasKillmail(c.killmail)
    BY DEF IInv, ClosedRefHasEvidence
  <2> QED
    BY <2>1 DEF hasKillmail
<1>4. EventsMatchEvidence' /\ StoredById'
  BY DEF IInv, EventsMatchEvidence, StoredById, hasKillmail
<1> QED
  BY <1>1, <1>2, <1>3, <1>4 DEF IInv

(***************************************************************************)
(* A run that ends, or that starts over, leaves nothing behind.            *)
(***************************************************************************)
LEMMA FinalizeKeeps ==
    ASSUME IInv, NEW r \in Runs, Finalize(r),
           UNCHANGED <<refs, killmails, events>>
    PROVE  IInv'
<1>1. refs' \in [Ref -> Statuses] /\ \A c \in Ref : Closed(c)' => Closed(c)
  BY DEF IInv, TypeOK, Closed
<1> QED
  BY <1>1, IdleIsSound, QueueStep DEF Finalize

LEMMA SearchKeeps ==
    ASSUME IInv, NEW r \in Runs, NEW scope \in Scopes, Search(r, scope),
           UNCHANGED <<refs, killmails, events>>
    PROVE  IInv'
<1> DEFINE new == [Idle EXCEPT !.phase = "searching", !.scope = scope]
<1>1. run' = [run EXCEPT ![r] = new]
  BY DEF Search
<1>2. new \in Run /\ Sound(new, killmails)
  BY DEF Idle, Run, Sound, Settling, Waits
<1>3. refs' \in [Ref -> Statuses] /\ \A c \in Ref : Closed(c)' => Closed(c)
  BY DEF IInv, TypeOK, Closed
<1> HIDE DEF new
<1> QED
  BY <1>1, <1>2, <1>3, QueueStep

LEMMA SelectedKeeps ==
    ASSUME IInv, NEW r \in Runs, NEW scope \in Scopes \cup {NoScope},
           NEW queue \in SUBSET Ref, NEW chosen \in SUBSET Ref,
           Selected(r, scope, queue, chosen),
           UNCHANGED <<refs, killmails, events>>
    PROVE  IInv'
<1> DEFINE new == [Idle EXCEPT
                      !.phase = "requesting", !.scope = scope, !.todo = chosen,
                      !.chosen = chosen,
                      !.known = {c \in queue : hasKillmail(c.killmail)}]
<1>1. run' = [run EXCEPT ![r] = new]
  BY DEF Selected
<1>2. new \in Run /\ Sound(new, killmails)
  BY DEF Idle, Run, Sound, Settling, Statements, hasKillmail
<1>3. refs' \in [Ref -> Statuses] /\ \A c \in Ref : Closed(c)' => Closed(c)
  BY DEF IInv, TypeOK, Closed
<1> HIDE DEF new
<1> QED
  BY <1>1, <1>2, <1>3, QueueStep

LEMMA StartKeeps ==
    ASSUME IInv, NEW r \in Runs, Start(r)
    PROVE  IInv'
<1>1. \A S : FirstOpen(S) \subseteq SUBSET S
  BY DEF FirstOpen, Capped
<1>2. Open \subseteq Ref
  BY DEF Open
<1>3. ASSUME NEW scope \in Scopes, StartWatch(r, scope)
      PROVE  IInv'
  <2>1. UNCHANGED <<refs, killmails, events>>
    BY <1>3 DEF StartWatch, Begin
  <2>2. CASE Search(r, scope)
    BY <2>1, <2>2, SearchKeeps
  <2>3. CASE \E queue \in FirstOpen(pendingDiscoveryRefs(scope)) :
                \E chosen \in SUBSET queue : Selected(r, scope, queue, chosen)
    <3>1. PICK queue \in FirstOpen(pendingDiscoveryRefs(scope)) :
                \E chosen \in SUBSET queue : Selected(r, scope, queue, chosen)
      BY <2>3
    <3>2. queue \in SUBSET Ref
      BY <3>1, <1>1, <1>2 DEF pendingDiscoveryRefs
    <3>3. PICK chosen \in SUBSET queue : Selected(r, scope, queue, chosen)
      BY <3>1
    <3> QED
      BY <2>1, <3>2, <3>3, SelectedKeeps
  <2> QED
    BY <1>3, <2>2, <2>3 DEF StartWatch
<1>4. ASSUME NEW scope \in ManualScopes, StartDiscovery(r, scope)
      PROVE  IInv'
  BY <1>4, SearchKeeps DEF StartDiscovery, Begin, Scopes
<1>5. ASSUME NEW scopes, NEW kms, StartExpansion(r, scopes, kms)
      PROVE  IInv'
  <2> DEFINE candidates == {c \in Open : c.scope \in scopes /\ c.killmail \in kms}
  <2>1. PICK chosen \in FirstOpen(candidates) :
            run' = [run EXCEPT ![r] = [Idle EXCEPT !.phase = "requesting",
                                          !.chosen = chosen, !.todo = chosen]]
    BY <1>5 DEF StartExpansion
  <2>2. chosen \in SUBSET Ref
    BY <1>1, <1>2
  <2> DEFINE new == [Idle EXCEPT !.phase = "requesting",
                                 !.chosen = chosen, !.todo = chosen]
  <2>3. run' = [run EXCEPT ![r] = new] /\ UNCHANGED <<refs, killmails, events>>
    BY <2>1, <1>5 DEF StartExpansion, Begin
  <2>4. new \in Run /\ Sound(new, killmails)
    BY <2>2 DEF Idle, Run, Sound, Settling, Statements
  <2>5. refs' \in [Ref -> Statuses] /\ \A c \in Ref : Closed(c)' => Closed(c)
    BY <2>3 DEF IInv, TypeOK, Closed
  <2> HIDE DEF new
  <2> QED
    BY <2>3, <2>4, <2>5, QueueStep
<1> QED
  BY <1>3, <1>4, <1>5 DEF Start

-----------------------------------------------------------------------------
(***************************************************************************)
(* Steps that change the record of their run only.                         *)
(***************************************************************************)
LEMMA RecordStep ==
    ASSUME IInv, NEW r \in Runs, NEW new \in Run,
           run' = [run EXCEPT ![r] = new], Sound(new, killmails),
           UNCHANGED <<refs, killmails, events>>
    PROVE  IInv'
<1>1. refs' \in [Ref -> Statuses] /\ \A c \in Ref : Closed(c)' => Closed(c)
  BY DEF IInv, TypeOK, Closed
<1> QED
  BY <1>1, QueueStep

LEMMA DiscoveredKeeps ==
    ASSUME IInv, NEW r \in Runs, Discovered(r)
    PROVE  IInv'
<1>1. PICK queue \in Listing(run[r].scope) :
          run' = [run EXCEPT ![r] = [@ EXCEPT !.phase = "upserting",
                                        !.known = queue, !.todo = queue]]
  BY DEF Discovered
<1>2. queue \in SUBSET Ref
  BY <1>1 DEF Listing
<1> DEFINE new == [run[r] EXCEPT !.phase = "upserting",
                                 !.known = queue, !.todo = queue]
<1>3. run' = [run EXCEPT ![r] = new] /\ UNCHANGED <<refs, killmails, events>>
  BY <1>1 DEF Discovered
<1>4. run[r] \in Run /\ Sound(run[r], killmails)
  BY DEF IInv, TypeOK, AllSound
<1>5. new \in Run /\ Sound(new, killmails)
  BY <1>2, <1>4 DEF Run, Sound, Settling, Statements
<1> HIDE DEF new
<1> QED
  BY <1>3, <1>5, RecordStep

LEMMA SelectDiscoveredKeeps ==
    ASSUME IInv, NEW r \in Runs, SelectDiscovered(r)
    PROVE  IInv'
<1>1. PICK chosen \in SUBSET run[r].known :
          Selected(r, run[r].scope, run[r].known, chosen)
  BY DEF SelectDiscovered
<1>2. /\ run[r].known \in SUBSET Ref
      /\ run[r].scope \in Scopes \cup {NoScope}
  BY DEF IInv, TypeOK, Run
<1>3. UNCHANGED <<refs, killmails, events>>
  BY DEF SelectDiscovered
<1> QED
  BY <1>1, <1>2, <1>3, SelectedKeeps

LEMMA expandKillmailKeeps ==
    ASSUME IInv, NEW r \in Runs, NEW c \in Ref, expandKillmail(r, c)
    PROVE  IInv'
<1> DEFINE origin == [run[r].origin EXCEPT ![c.killmail] =
                         IF @ = NoScope THEN c.scope ELSE @]
           new == [run[r] EXCEPT !.phase = "awaiting", !.asked = c,
                                 !.todo = @ \ {c}, !.origin = origin]
<1>1. run[r] \in Run /\ Sound(run[r], killmails) /\ run[r].phase = "requesting"
  BY DEF IInv, TypeOK, AllSound, expandKillmail, Thread
<1>2. run' = [run EXCEPT ![r] = new] /\ UNCHANGED <<refs, killmails, events>>
  BY <1>1 DEF expandKillmail, Run
<1>3. c.killmail \in Killmails /\ c.scope \in Scopes /\ c.scope # NoScope
  BY CollectionAssumption DEF Ref
<1>4. /\ origin \in [Killmails -> Scopes \cup {NoScope}]
      /\ origin[c.killmail] # NoScope
      /\ \A k \in Killmails : run[r].origin[k] # NoScope => origin[k] # NoScope
  BY <1>1, <1>3 DEF Run
<1> HIDE DEF origin
<1>5. new \in Run
  BY <1>1, <1>4 DEF Run, Waits
<1>6. Sound(new, killmails)
  BY <1>1, <1>4 DEF Run, Sound, Settling, Content
<1> HIDE DEF new
<1> QED
  BY <1>2, <1>5, <1>6, RecordStep

(***************************************************************************)
(* An answer: at most one content, of the killmail that was asked for.     *)
(***************************************************************************)
LEMMA AnsweredKeeps ==
    ASSUME IInv, NEW r \in Runs, NEW failed \in SUBSET Killmails,
           NEW content \in SUBSET Content, Answered(r, failed, content),
           \A p \in content : p.killmail = run[r].asked.killmail
    PROVE  IInv'
<1> DEFINE first == FirstWith(run[r].first, content)
           new == [run[r] EXCEPT !.phase = "requesting", !.asked = NoRef,
                                 !.failed = @ \cup failed,
                                 !.pkg = @ \cup content, !.first = first]
<1>1. run[r] \in Run /\ Sound(run[r], killmails) /\ run[r].phase = "awaiting"
  BY DEF IInv, TypeOK, AllSound, Answered, Thread
<1>2. run' = [run EXCEPT ![r] = new] /\ UNCHANGED <<refs, killmails, events>>
  BY <1>1 DEF Answered, Run
<1>3. \A k \in Killmails : (\E p \in content : p.killmail = k) =>
          /\ (CHOOSE p \in content : p.killmail = k) \in content
          /\ (CHOOSE p \in content : p.killmail = k).killmail = k
  OBVIOUS
<1>4. first \in [Killmails -> Content \cup {NoContent}]
  BY <1>1, <1>3 DEF Run, FirstWith
<1>5. \A k \in Killmails : first[k] # NoContent => first[k].killmail = k
  BY <1>1, <1>3 DEF Sound, FirstWith
<1>6. \A p \in run[r].pkg \cup content : first[p.killmail] # NoContent
  <2> SUFFICES ASSUME NEW p \in run[r].pkg \cup content
               PROVE  first[p.killmail] # NoContent
    OBVIOUS
  <2>1. p.killmail \in Killmails /\ NoContent \notin content
    BY <1>1, CollectionAssumption DEF Run, Content
  <2> QED
    BY <1>1, <1>3, <2>1 DEF Sound, FirstWith
<1> HIDE DEF first
<1>7. new \in Run
  BY <1>1, <1>4 DEF Run, Statements
<1>8. Sound(new, killmails)
  BY <1>1, <1>5, <1>6 DEF Run, Sound, Settling
<1> HIDE DEF new
<1> QED
  BY <1>2, <1>7, <1>8, RecordStep

LEMMA EsiKeeps ==
    ASSUME IInv, NEW r \in Runs,
           EsiExpands(r) \/ EsiFails(r) \/ EsiDefers(r) \/ EsiTimesOut(r)
    PROVE  IInv'
<1>1. run[r].phase = "awaiting" => run[r].asked \in Ref
  BY DEF IInv, AllSound, Sound
<1>2. CASE EsiExpands(r)
  <2>1. PICK body \in Bodies :
            Answered(r, {}, {[killmail |-> run[r].asked.killmail,
                              hash |-> run[r].asked.hash, body |-> body]})
    BY <1>2 DEF EsiExpands
  <2> DEFINE p == [killmail |-> run[r].asked.killmail,
                   hash |-> run[r].asked.hash, body |-> body]
  <2>2. p \in Content
    BY <1>1, <2>1 DEF Answered, Thread, Ref, Content
  <2>3. \A q \in {p} : q.killmail = run[r].asked.killmail
    OBVIOUS
  <2> HIDE DEF p
  <2> QED
    BY <2>1, <2>2, <2>3, AnsweredKeeps DEF p
<1>3. CASE EsiFails(r)
  <2>1. run[r].asked.killmail \in Killmails
    BY <1>1, <1>3 DEF EsiFails, Answered, Thread, Ref
  <2> QED
    BY <1>3, <2>1, AnsweredKeeps DEF EsiFails
<1>4. CASE EsiDefers(r)
  BY <1>4, AnsweredKeeps DEF EsiDefers
<1>5. CASE RunAborts(r)
  BY <1>5, FinalizeKeeps DEF RunAborts
<1> QED
  BY <1>2, <1>3, <1>4, <1>5 DEF EsiTimesOut

LEMMA PackageBuiltKeeps ==
    ASSUME IInv, NEW r \in Runs, PackageBuilt(r)
    PROVE  IInv'
<1> DEFINE new == [run[r] EXCEPT !.phase = "built", !.todo = {}]
<1>1. run' = [run EXCEPT ![r] = new] /\ UNCHANGED <<refs, killmails, events>>
  BY DEF PackageBuilt
<1>2. /\ run[r] \in Run /\ Sound(run[r], killmails)
      /\ run[r].phase = "requesting"
  BY DEF IInv, TypeOK, AllSound, PackageBuilt, Thread
<1>3. new \in Run /\ Sound(new, killmails)
  BY <1>2 DEF Run, Sound, Settling, Waits
<1> HIDE DEF new
<1> QED
  BY <1>1, <1>3, RecordStep

LEMMA SettleKeeps ==
    ASSUME IInv, NEW r \in Runs, Settle(r)
    PROVE  IInv'
<1> DEFINE new == [run[r] EXCEPT !.phase = "failing",
              !.todo = {c \in run[r].chosen : c.killmail \in run[r].failed}]
<1>1. run' = [run EXCEPT ![r] = new] /\ UNCHANGED <<refs, killmails, events>>
  BY DEF Settle
<1>2. run[r] \in Run /\ Sound(run[r], killmails) /\ run[r].phase = "built"
  BY DEF IInv, TypeOK, AllSound, Settle, Thread
<1>3. new \in Run /\ Sound(new, killmails)
  BY <1>2 DEF Run, Sound, Settling, Statements
<1> HIDE DEF new
<1> QED
  BY <1>1, <1>3, RecordStep

(***************************************************************************)
(* markDiscoveryRefsCached may close whatever StartCaching found stored.   *)
(***************************************************************************)
LEMMA StartCachingKeeps ==
    ASSUME IInv, NEW r \in Runs, StartCaching(r)
    PROVE  IInv'
<1> DEFINE new == [run[r] EXCEPT !.phase = "caching", !.todo = Cached(r)]
<1>1. run' = [run EXCEPT ![r] = new] /\ UNCHANGED <<refs, killmails, events>>
  BY DEF StartCaching
<1>2. run[r] \in Run /\ Sound(run[r], killmails) /\ run[r].phase = "expanding"
  BY DEF IInv, TypeOK, AllSound, StartCaching, Thread
<1>3. /\ Cached(r) \in SUBSET Ref
      /\ \A c \in Cached(r) : killmails[c.killmail] # NoContent
  BY <1>2 DEF Cached, Run, Sound, hasKillmail
<1>4. new \in Run /\ Sound(new, killmails)
  BY <1>2, <1>3 DEF Run, Sound, Settling, Statements
<1> HIDE DEF new
<1> QED
  BY <1>1, <1>4, RecordStep

-----------------------------------------------------------------------------
(***************************************************************************)
(* The statements on queue rows: each leaves one ref of the run's loop.    *)
(***************************************************************************)
LEMMA StatementKeeps ==
    ASSUME IInv, NEW r \in Runs, NEW c \in Ref,
           run' = [run EXCEPT ![r] = [@ EXCEPT !.todo = run[r].todo \ {c}]],
           UNCHANGED <<killmails, events>>,
           refs' \in [Ref -> Statuses],
           \A d \in Ref : Closed(d)' => Closed(d) \/ hasKillmail(d.killmail)
    PROVE  IInv'
<1> DEFINE new == [run[r] EXCEPT !.todo = run[r].todo \ {c}]
<1>1. run' = [run EXCEPT ![r] = new]
  OBVIOUS
<1>2. run[r] \in Run /\ Sound(run[r], killmails)
  BY DEF IInv, TypeOK, AllSound
<1>3. new \in Run /\ Sound(new, killmails)
  BY <1>2 DEF Run, Sound, Settling
<1> HIDE DEF new
<1> QED
  BY <1>1, <1>3, QueueStep

LEMMA upsertKeeps ==
    ASSUME IInv, NEW r \in Runs, NEW c \in Ref,
           upsertDiscoveredKillmailRef(r, c)
    PROVE  IInv'
<1>1. Upserted(c) \in Statuses
      /\ (Upserted(c) \in {"expanded", "cached"}
             => Closed(c) \/ hasKillmail(c.killmail))
  BY DEF IInv, TypeOK, Upserted, Statuses, Closed
<1>2. refs' = [refs EXCEPT ![c] = Upserted(c)]
  BY DEF upsertDiscoveredKillmailRef
<1> HIDE DEF Upserted
<1>3. /\ refs' \in [Ref -> Statuses]
      /\ \A d \in Ref : Closed(d)' => Closed(d) \/ hasKillmail(d.killmail)
  BY <1>1, <1>2 DEF IInv, TypeOK, Closed
<1> QED
  BY <1>3, StatementKeeps DEF upsertDiscoveredKillmailRef

LEMMA markFailedKeeps ==
    ASSUME IInv, NEW r \in Runs, NEW c \in Ref, markDiscoveryRefsFailed(r, c)
    PROVE  IInv'
<1>1. refs' = Failed(c)
  BY DEF markDiscoveryRefsFailed
<1>2. /\ refs' \in [Ref -> Statuses]
      /\ \A d \in Ref : Closed(d)' => Closed(d)
  BY <1>1 DEF IInv, TypeOK, Failed, Statuses, Closed
<1> QED
  BY <1>2, StatementKeeps DEF markDiscoveryRefsFailed

LEMMA markExpandedKeeps ==
    ASSUME IInv, NEW r \in Runs, NEW c \in Ref, markDiscoveryRefsExpanded(r, c)
    PROVE  IInv' /\ hasKillmail(c.killmail)
<1>1. hasKillmail(c.killmail)
  BY DEF IInv, AllSound, Sound, Settling, markDiscoveryRefsExpanded, Thread,
         hasKillmail
<1>2. refs' = Expanded(c)
  BY DEF markDiscoveryRefsExpanded
<1>3. /\ refs' \in [Ref -> Statuses]
      /\ \A d \in Ref : Closed(d)' => Closed(d) \/ hasKillmail(d.killmail)
  BY <1>1, <1>2 DEF IInv, TypeOK, Expanded, Statuses, Closed
<1> QED
  BY <1>1, <1>3, StatementKeeps DEF markDiscoveryRefsExpanded

LEMMA markCachedKeeps ==
    ASSUME IInv, NEW r \in Runs, NEW c \in Ref, markDiscoveryRefsCached(r, c)
    PROVE  IInv' /\ hasKillmail(c.killmail)
<1>1. hasKillmail(c.killmail)
  BY DEF IInv, AllSound, Sound, Settling, markDiscoveryRefsCached, Thread,
         hasKillmail
<1>2. refs' = MarkedCached(c)
  BY DEF markDiscoveryRefsCached
<1>3. /\ refs' \in [Ref -> Statuses]
      /\ \A d \in Ref : Closed(d)' => Closed(d) \/ hasKillmail(d.killmail)
  BY <1>1, <1>2 DEF IInv, TypeOK, MarkedCached, Statuses, Closed
<1> QED
  BY <1>1, <1>3, StatementKeeps DEF markDiscoveryRefsCached

-----------------------------------------------------------------------------
(***************************************************************************)
(* The evidence transaction.                                               *)
(***************************************************************************)
LEMMA PersistLands ==
    ASSUME IInv, NEW r \in Runs, persistEvidencePackage(r)
    PROVE  /\ killmails' \in [Killmails -> Content \cup {NoContent}]
           /\ events' \in [Killmails -> Content \cup {NoContent}]
           /\ \A k \in Killmails :
                 /\ hasKillmail(k) => killmails'[k] = killmails[k]
                 /\ killmails'[k] # NoContent => killmails'[k].killmail = k
                 /\ events[k] # NoContent => events'[k] = events[k]
                 /\ events'[k] # NoContent => events'[k] = killmails'[k]
           /\ \A p \in run[r].pkg : killmails'[p.killmail] # NoContent
<1>1. run[r] \in Run /\ Sound(run[r], killmails)
  BY DEF IInv, TypeOK, AllSound
<1>2. killmails' = Landed(r) /\ events' = Derived(r)
  BY DEF persistEvidencePackage
<1>3. Landed(r) \in [Killmails -> Content \cup {NoContent}]
  BY <1>1 DEF IInv, TypeOK, Run, Landed
<1>4. \A k \in Killmails :
         Landed(r)[k] = IF hasKillmail(k) THEN killmails[k] ELSE run[r].first[k]
  BY DEF Landed
<1>5. \A k \in Killmails : Derived(r)[k] \in {events[k], Landed(r)[k]}
  BY DEF Derived
<1>6. \A k \in Killmails : events[k] # NoContent => Derived(r)[k] = events[k]
  BY DEF Derived
<1>7. Derived(r) \in [Killmails -> Content \cup {NoContent}]
  <2>1. Derived(r) = [k \in Killmails |-> Derived(r)[k]]
    BY DEF Derived
  <2> QED
    BY <1>3, <1>5, <2>1 DEF IInv, TypeOK
<1>8. ASSUME NEW k \in Killmails
      PROVE  /\ hasKillmail(k) => Landed(r)[k] = killmails[k]
             /\ Landed(r)[k] # NoContent => Landed(r)[k].killmail = k
             /\ Derived(r)[k] # NoContent => Derived(r)[k] = Landed(r)[k]
  <2>1. events[k] # NoContent => hasKillmail(k) /\ events[k] = killmails[k]
    BY DEF IInv, EventsMatchEvidence, hasKillmail
  <2>2. run[r].first[k] # NoContent => run[r].first[k].killmail = k
    BY <1>1 DEF Sound
  <2> QED
    BY <1>4, <1>5, <2>1, <2>2 DEF IInv, StoredById
<1>9. ASSUME NEW p \in run[r].pkg
      PROVE  Landed(r)[p.killmail] # NoContent
  BY <1>1, <1>4 DEF Run, Content, Sound, hasKillmail
<1> HIDE DEF Landed, Derived
<1> QED
  BY <1>2, <1>3, <1>6, <1>7, <1>8, <1>9

LEMMA PersistKeeps ==
    ASSUME IInv, NEW r \in Runs, persistEvidencePackage(r)
    PROVE  IInv'
<1> DEFINE new == [run[r] EXCEPT !.phase = "expanding", !.todo = Marked(r)]
<1>1. run' = [run EXCEPT ![r] = new] /\ refs' = refs
  BY DEF persistEvidencePackage
<1>2. run[r] \in Run /\ Sound(run[r], killmails) /\ run[r].phase = "failing"
  BY DEF IInv, TypeOK, AllSound, persistEvidencePackage, Thread
<1>3. Marked(r) \in SUBSET Ref
  BY <1>2 DEF Marked, Run, Content, Ref, Sound
<1>4. \A c \in Marked(r) : killmails'[c.killmail] # NoContent
  BY PersistLands DEF Marked
<1>5. \A k \in Killmails : hasKillmail(k) => killmails'[k] # NoContent
  BY PersistLands DEF hasKillmail
<1>6. new \in Run
  BY <1>2, <1>3 DEF Run, Statements
<1>7. Sound(new, killmails')
  <2>1. \A c \in run[r].known : killmails'[c.killmail] # NoContent
    BY <1>2, <1>5 DEF Run, Ref, Sound, hasKillmail
  <2> QED
    BY <1>2, <1>4, <2>1 DEF Run, Sound, Settling
<1> HIDE DEF new
<1>8. run' \in [Runs -> Run] /\ AllSound'
  BY <1>1, <1>5, <1>6, <1>7, RunStep DEF IInv
<1>9. TypeOK'
  BY <1>1, <1>8, PersistLands DEF IInv, TypeOK
<1>10. ClosedRefHasEvidence'
  BY <1>1, <1>5 DEF IInv, ClosedRefHasEvidence, Closed, hasKillmail, Ref
<1>11. EventsMatchEvidence' /\ StoredById'
  BY PersistLands DEF EventsMatchEvidence, StoredById, hasKillmail
<1> QED
  BY <1>8, <1>9, <1>10, <1>11 DEF IInv

LEMMA CrashKeeps ==
    ASSUME IInv, Crash
    PROVE  IInv'
<1>1. run' = [r \in Runs |-> Idle] /\ UNCHANGED <<refs, killmails, events>>
  BY DEF Crash
<1>2. TypeOK'
  BY <1>1, IdleIsSound DEF IInv, TypeOK
<1>3. AllSound'
  BY <1>1, IdleIsSound DEF AllSound
<1> QED
  BY <1>1, <1>2, <1>3 DEF IInv, ClosedRefHasEvidence, Closed, EventsMatchEvidence,
                          StoredById, hasKillmail

-----------------------------------------------------------------------------
(***************************************************************************)
(* The inductive invariant.                                                *)
(***************************************************************************)
LEMMA InitEstablishes == Init => IInv
  BY IdleIsSound DEF Init, IInv, TypeOK, Statuses, ClosedRefHasEvidence, Closed,
     EventsMatchEvidence, StoredById, hasKillmail, AllSound

LEMMA WorkKeeps ==
    ASSUME IInv, NEW r \in Runs, Step(r)
    PROVE  IInv'
<1>1. CASE Discovered(r)
  BY <1>1, DiscoveredKeeps
<1>2. CASE SelectDiscovered(r)
  BY <1>2, SelectDiscoveredKeeps
<1>3. CASE EsiExpands(r)
  BY <1>3, EsiKeeps
<1>4. CASE PackageBuilt(r)
  BY <1>4, PackageBuiltKeeps
<1>5. CASE Settle(r)
  BY <1>5, SettleKeeps
<1>6. CASE persistEvidencePackage(r)
  BY <1>6, PersistKeeps
<1>7. CASE StartCaching(r)
  BY <1>7, StartCachingKeeps
<1>8. CASE RunSucceeds(r)
  BY <1>8, FinalizeKeeps DEF RunSucceeds
<1>9. ASSUME NEW c \in Ref,
             \/ upsertDiscoveredKillmailRef(r, c) \/ expandKillmail(r, c)
             \/ markDiscoveryRefsFailed(r, c)
             \/ markDiscoveryRefsExpanded(r, c)
             \/ markDiscoveryRefsCached(r, c)
      PROVE  IInv'
  BY <1>9, upsertKeeps, expandKillmailKeeps, markFailedKeeps, markExpandedKeeps,
     markCachedKeeps
<1> QED
  BY <1>1, <1>2, <1>3, <1>4, <1>5, <1>6, <1>7, <1>8, <1>9 DEF Step

LEMMA NextKeeps ==
    ASSUME IInv, [Next]_vars
    PROVE  IInv'
<1>1. CASE Work
  <2>1. PICK r \in Runs : Start(r) \/ Step(r)
    BY <1>1 DEF Work
  <2> QED
    BY <2>1, StartKeeps, WorkKeeps
<1>2. CASE Crash
  BY <1>2, CrashKeeps
<1>3. ASSUME NEW r \in Runs,
             \/ EsiFails(r) \/ EsiDefers(r) \/ EsiTimesOut(r)
             \/ RunAborts(r) \/ StatementFails(r)
      PROVE  IInv'
  BY <1>3, EsiKeeps, FinalizeKeeps DEF RunAborts, StatementFails
<1>4. CASE UNCHANGED vars
  BY <1>4 DEF vars, IInv, TypeOK, ClosedRefHasEvidence, Closed,
     EventsMatchEvidence, StoredById, hasKillmail, AllSound
<1> QED
  BY <1>1, <1>2, <1>3, <1>4 DEF Next, Fault

LEMMA Inductive == Spec => []IInv
<1>1. IInv /\ [Next]_vars => IInv'
  BY NextKeeps
<1> QED
  BY InitEstablishes, <1>1, PTL DEF Spec

-----------------------------------------------------------------------------
(***************************************************************************)
(* The queue, the evidence and the runs in memory keep their types.        *)
(***************************************************************************)
THEOREM TypeCorrect == Spec => []TypeOK
<1>1. IInv => TypeOK
  BY DEF IInv
<1> QED
  BY Inductive, <1>1, PTL

(***************************************************************************)
(* No ref is expanded or cached without its killmail being stored, for any *)
(* number of runs, scopes and killmails.                                   *)
(***************************************************************************)
THEOREM ClosedRefsHaveEvidence == Spec => []ClosedRefHasEvidence
<1>1. IInv => ClosedRefHasEvidence
  BY DEF IInv
<1> QED
  BY Inductive, <1>1, PTL

(***************************************************************************)
(* Stored events derive from the stored content of their killmail.         *)
(***************************************************************************)
THEOREM EventsDeriveFromEvidence == Spec => []EventsMatchEvidence
<1>1. IInv => EventsMatchEvidence
  BY DEF IInv
<1> QED
  BY Inductive, <1>1, PTL

-----------------------------------------------------------------------------
(***************************************************************************)
(* Steps and the ledger: one transaction writes evidence, one statement    *)
(* changes one ref.                                                        *)
(***************************************************************************)
Ledger(c) ==
    \/ EvidenceLedgerView!Discover(c)
    \/ EvidenceLedgerView!Close(c)
    \/ EvidenceLedgerView!Fail(c)

LEMMA RowsFollowLedger ==
    ASSUME IInv, NEW r \in Runs, NEW c \in Ref,
           \/ upsertDiscoveredKillmailRef(r, c)
           \/ markDiscoveryRefsFailed(r, c)
           \/ markDiscoveryRefsExpanded(r, c)
           \/ markDiscoveryRefsCached(r, c)
    PROVE  UNCHANGED <<killmails, events>> /\ (UNCHANGED refs \/ Ledger(c))
<1> USE DEF Ledger, EvidenceLedgerView!Becomes, EvidenceLedgerView!Written
<1>1. CASE upsertDiscoveredKillmailRef(r, c)
  <2>1. refs' = [refs EXCEPT ![c] = Upserted(c)] /\ UNCHANGED <<killmails, events>>
    BY <1>1 DEF upsertDiscoveredKillmailRef
  <2>2. refs[c] \in Statuses /\ refs = [d \in Ref |-> refs[d]]
    BY DEF IInv, TypeOK
  <2>3. CASE refs[c] \in {"expanded", "cached", "failed"}
    <3>1. Upserted(c) = refs[c]
      BY <2>3 DEF Upserted
    <3> QED
      BY <2>1, <2>2, <3>1
  <2>4. CASE refs[c] \in {"none", "pending"} /\ hasKillmail(c.killmail)
    <3>1. Upserted(c) = "cached"
      BY <2>4 DEF Upserted
    <3> QED
      BY <2>1, <2>4, <3>1 DEF EvidenceLedgerView!Close, hasKillmail
  <2>5. CASE refs[c] = "none" /\ ~hasKillmail(c.killmail)
    <3>1. Upserted(c) = "pending"
      BY <2>5 DEF Upserted
    <3> QED
      BY <2>1, <2>5, <3>1 DEF EvidenceLedgerView!Discover
  <2>6. CASE refs[c] = "pending" /\ ~hasKillmail(c.killmail)
    <3>1. Upserted(c) = refs[c]
      BY <2>6 DEF Upserted
    <3> QED
      BY <2>1, <2>2, <3>1
  <2> QED
    BY <2>2, <2>3, <2>4, <2>5, <2>6 DEF Statuses
<1>2. CASE markDiscoveryRefsFailed(r, c)
  BY <1>2 DEF markDiscoveryRefsFailed, Failed, IInv, TypeOK,
              EvidenceLedgerView!Fail
<1>3. CASE markDiscoveryRefsExpanded(r, c)
  BY <1>3, markExpandedKeeps DEF markDiscoveryRefsExpanded, Expanded, IInv,
     TypeOK, hasKillmail, EvidenceLedgerView!Close
<1>4. CASE markDiscoveryRefsCached(r, c)
  BY <1>4, markCachedKeeps DEF markDiscoveryRefsCached, MarkedCached, IInv,
     TypeOK, hasKillmail, EvidenceLedgerView!Close
<1> QED
  BY <1>1, <1>2, <1>3, <1>4

(***************************************************************************)
(* What a step may do to the database.                                     *)
(***************************************************************************)
LEMMA StepCases ==
    ASSUME IInv, [Next]_vars
    PROVE  \/ UNCHANGED <<refs, killmails, events>>
           \/ \E r \in Runs : persistEvidencePackage(r) /\ UNCHANGED refs
           \/ UNCHANGED <<killmails, events>> /\ \E c \in Ref : Ledger(c)
<1>1. CASE Work
  <2>1. PICK r \in Runs : Start(r) \/ Step(r)
    BY <1>1 DEF Work
  <2>2. CASE Start(r)
    BY <2>2 DEF Start, StartWatch, StartDiscovery, StartExpansion, Begin
  <2>3. CASE persistEvidencePackage(r)
    BY <2>3 DEF persistEvidencePackage
  <2>4. ASSUME NEW c \in Ref,
               \/ upsertDiscoveredKillmailRef(r, c)
               \/ markDiscoveryRefsFailed(r, c)
               \/ markDiscoveryRefsExpanded(r, c)
               \/ markDiscoveryRefsCached(r, c)
        PROVE  \/ UNCHANGED <<refs, killmails, events>>
               \/ UNCHANGED <<killmails, events>> /\ \E d \in Ref : Ledger(d)
    BY <2>4, RowsFollowLedger
  <2>5. ASSUME NEW c \in Ref, expandKillmail(r, c)
        PROVE  UNCHANGED <<refs, killmails, events>>
    BY <2>5 DEF expandKillmail
  <2>6. CASE \/ Discovered(r) \/ SelectDiscovered(r) \/ EsiExpands(r)
             \/ PackageBuilt(r) \/ Settle(r) \/ StartCaching(r) \/ RunSucceeds(r)
    BY <2>6 DEF Discovered, SelectDiscovered, EsiExpands, Answered, PackageBuilt,
                Settle, StartCaching, RunSucceeds
  <2> QED
    BY <2>1, <2>2, <2>3, <2>4, <2>5, <2>6 DEF Step
<1>2. CASE Fault
  BY <1>2 DEF Fault, Crash, EsiFails, EsiDefers, EsiTimesOut, RunAborts, Answered,
              StatementFails
<1>3. CASE UNCHANGED vars
  BY <1>3 DEF vars
<1> QED
  BY <1>1, <1>2, <1>3 DEF Next

(***************************************************************************)
(* A stored killmail is never replaced and its events never change.        *)
(***************************************************************************)
THEOREM EvidenceIsPreserved == Spec => EvidencePreserved
<1>1. IInv /\ [Next]_vars =>
        [\A k \in Killmails :
            /\ hasKillmail(k) => killmails'[k] = killmails[k]
            /\ events[k] # NoContent => events'[k] = events[k]]_vars
  <2> SUFFICES ASSUME IInv, [Next]_vars, NEW k \in Killmails
               PROVE  /\ hasKillmail(k) => killmails'[k] = killmails[k]
                      /\ events[k] # NoContent => events'[k] = events[k]
    OBVIOUS
  <2>1. CASE UNCHANGED <<killmails, events>>
    BY <2>1
  <2>2. CASE \E r \in Runs : persistEvidencePackage(r)
    BY <2>2, PersistLands
  <2> QED
    BY <2>1, <2>2, StepCases
<1> QED
  BY Inductive, <1>1, PTL DEF Spec, EvidencePreserved

(***************************************************************************)
(* Collection refines the evidence ledger.                                 *)
(***************************************************************************)
THEOREM CollectionImplementsLedger == Spec => ImplementsLedger
<1>1. Init => EvidenceLedgerView!Init
  BY DEF Init, EvidenceLedgerView!Init, EvidenceLedgerView!Ref, Ref
<1>2. IInv /\ [Next]_vars =>
        [EvidenceLedgerView!Next]_(EvidenceLedgerView!ledgerVars)
  <2> SUFFICES ASSUME IInv, [Next]_vars
               PROVE  [EvidenceLedgerView!Next]_(EvidenceLedgerView!ledgerVars)
    OBVIOUS
  <2>1. CASE UNCHANGED <<refs, killmails, events>>
    BY <2>1 DEF EvidenceLedgerView!ledgerVars
  <2>2. ASSUME NEW r \in Runs, persistEvidencePackage(r), UNCHANGED refs
        PROVE  EvidenceLedgerView!Land
    BY <2>2, PersistLands DEF EvidenceLedgerView!Land, EvidenceLedgerView!Written,
       EvidenceLedgerView!Content, Content, hasKillmail
  <2>3. CASE \E c \in Ref : Ledger(c)
    BY <2>3 DEF Ledger, EvidenceLedgerView!Next, EvidenceLedgerView!Ref, Ref
  <2> QED
    BY <2>1, <2>2, <2>3, StepCases DEF EvidenceLedgerView!Next
<1> QED
  BY Inductive, <1>1, <1>2, PTL DEF Spec, ImplementsLedger, EvidenceLedgerView!Spec

-----------------------------------------------------------------------------
(***************************************************************************)
(* What a run knows about the queue while it works.  A run that is not a   *)
(* manual expansion has refs of its own scope only.                        *)
(***************************************************************************)
OwnScope(r, rec) == r \notin ExpandRuns =>
    /\ \A c \in rec.chosen \cup rec.known \cup rec.todo : c.scope = rec.scope
    /\ \A k \in Killmails : rec.origin[k] \in {NoScope, rec.scope}

\* What it selected has a row, and so has what it has upserted so far.
HasRows(rec, queue) ==
    /\ \A c \in rec.chosen : queue[c] # "none"
    /\ rec.phase = "upserting" =>
          \A c \in rec.known \ rec.todo : queue[c] # "none"

\* The first content of a killmail is one of those in the package, which is
\* filled by expanding only.
Packaged(rec) ==
    /\ \A k \in Killmails : rec.first[k] # NoContent => rec.first[k] \in rec.pkg
    /\ rec.phase \in {"idle", "searching", "upserting"} => rec.pkg = {}

Answers(rec, c) ==
    \E p \in rec.pkg : p.killmail = c.killmail /\ p.hash = c.hash

(***************************************************************************)
(* Once its package is stored, a selected ref whose answer it holds is     *)
(* closed or about to be: by the expanded loop of a watch, and for a manual*)
(* expansion, which may land it under another scope, by the cached loop.   *)
(***************************************************************************)
Closing(r, rec, queue, kms) ==
    /\ rec.phase \in Settling => \A p \in rec.pkg : kms[p.killmail] # NoContent
    /\ \/ rec.phase = "caching"
       \/ rec.phase = "expanding" /\ r \notin ExpandRuns
       => \A c \in rec.chosen :
             Answers(rec, c) => \/ c \in rec.todo
                               \/ queue[c] \in {"expanded", "cached"}

Tracks(r, rec, queue, kms) ==
    /\ OwnScope(r, rec)
    /\ HasRows(rec, queue)
    /\ Packaged(rec)
    /\ Closing(r, rec, queue, kms)

AllTrack == \A r \in Runs : Tracks(r, run[r], refs, killmails)

LEMMA IdleTracks ==
    ASSUME NEW r, NEW queue, NEW kms
    PROVE  Tracks(r, Idle, queue, kms)
  BY DEF Idle, Tracks, OwnScope, HasRows, Packaged, Closing, Settling

\* Rows are never taken back.
RowsStay == \A c \in Ref : refs[c] # "none" => refs'[c] # "none"

(***************************************************************************)
(* A step of one run leaves all others in order: they wait, rows stay, and *)
(* a run that waits is not settling, so no row it has closed is reopened.  *)
(***************************************************************************)
LEMMA TracksStep ==
    ASSUME TypeOK, AllTrack, NEW r \in Runs, NEW new \in Run,
           run' = [run EXCEPT ![r] = new],
           \A q \in Runs \ {r} : run[q].phase \notin Statements,
           RowsStay, Tracks(r, new, refs', killmails')
    PROVE  AllTrack'
<1>1. ASSUME NEW q \in Runs, q # r
      PROVE  Tracks(q, run[q], refs', killmails')
  <2>1. run[q] \in Run /\ Tracks(q, run[q], refs, killmails)
    BY DEF TypeOK, AllTrack
  <2>2. run[q].phase \notin {"upserting", "expanding", "caching"}
    BY <1>1 DEF Statements
  <2>3. HasRows(run[q], refs')
    BY <2>1, <2>2 DEF Tracks, HasRows, RowsStay, Run
  <2>4. Closing(q, run[q], refs', killmails')
    BY <2>2 DEF Closing, Settling
  <2> QED
    BY <2>1, <2>3, <2>4 DEF Tracks
<1>2. \A q \in Runs : run'[q] = IF q = r THEN new ELSE run[q]
  BY DEF TypeOK
<1> QED
  BY <1>1, <1>2 DEF AllTrack

(***************************************************************************)
(* The same for a step that changes no row and stores nothing.             *)
(***************************************************************************)
LEMMA TracksRecord ==
    ASSUME TypeOK, AllTrack, NEW r \in Runs, NEW new \in Run,
           run' = [run EXCEPT ![r] = new],
           \A q \in Runs \ {r} : run[q].phase \notin Statements,
           UNCHANGED <<refs, killmails, events>>,
           Tracks(r, new, refs, killmails)
    PROVE  AllTrack'
<1>1. RowsStay /\ Tracks(r, new, refs', killmails')
  BY DEF RowsStay
<1> QED
  BY <1>1, TracksStep

LEMMA FinalizeTracks ==
    ASSUME TypeOK, AllTrack, NEW r \in Runs, Finalize(r),
           \A q \in Runs \ {r} : run[q].phase \notin Statements,
           UNCHANGED <<refs, killmails, events>>
    PROVE  AllTrack'
  BY IdleIsSound, IdleTracks, TracksRecord DEF Finalize

LEMMA SearchTracks ==
    ASSUME TypeOK, AllTrack, NEW r \in Runs, NEW scope \in Scopes,
           Search(r, scope),
           \A q \in Runs \ {r} : run[q].phase \notin Statements,
           UNCHANGED <<refs, killmails, events>>
    PROVE  AllTrack'
<1> DEFINE new == [Idle EXCEPT !.phase = "searching", !.scope = scope]
<1>1. run' = [run EXCEPT ![r] = new]
  BY DEF Search
<1>2. new \in Run
  BY DEF Idle, Run, Waits
<1>3. Tracks(r, new, refs, killmails)
  BY DEF Idle, Tracks, OwnScope, HasRows, Packaged, Closing, Settling
<1> HIDE DEF new
<1> QED
  BY <1>1, <1>2, <1>3, TracksRecord

LEMMA SelectedTracks ==
    ASSUME TypeOK, AllTrack, NEW r \in Runs, NEW scope \in Scopes \cup {NoScope},
           NEW queue \in SUBSET Ref, NEW chosen \in SUBSET queue,
           Selected(r, scope, queue, chosen),
           r \notin ExpandRuns => \A c \in queue : c.scope = scope,
           \A c \in queue : refs[c] # "none",
           \A q \in Runs \ {r} : run[q].phase \notin Statements,
           UNCHANGED <<refs, killmails, events>>
    PROVE  AllTrack'
<1> DEFINE new == [Idle EXCEPT
                      !.phase = "requesting", !.scope = scope, !.todo = chosen,
                      !.chosen = chosen,
                      !.known = {c \in queue : hasKillmail(c.killmail)}]
<1>1. run' = [run EXCEPT ![r] = new]
  BY DEF Selected
<1>2. new \in Run
  BY DEF Idle, Run, Statements
<1>3. Tracks(r, new, refs, killmails)
  BY DEF Idle, Tracks, OwnScope, HasRows, Packaged, Closing, Settling
<1> HIDE DEF new
<1> QED
  BY <1>1, <1>2, <1>3, TracksRecord

LEMMA StartTracks ==
    ASSUME TypeOK, AllTrack, NEW r \in Runs, Start(r)
    PROVE  AllTrack'
<1>1. \A S : FirstOpen(S) \subseteq SUBSET S
  BY DEF FirstOpen, Capped
<1>2. Open \subseteq Ref /\ \A c \in Open : refs[c] # "none"
  BY DEF Open
<1>3. /\ UNCHANGED <<refs, killmails, events>>
      /\ \A q \in Runs \ {r} : run[q].phase \notin Statements
  BY DEF Start, StartWatch, StartDiscovery, StartExpansion, Begin, Thread
<1>4. ASSUME NEW scope \in Scopes, StartWatch(r, scope)
      PROVE  AllTrack'
  <2>1. CASE Search(r, scope)
    BY <1>3, <2>1, SearchTracks
  <2>2. CASE \E queue \in FirstOpen(pendingDiscoveryRefs(scope)) :
                \E chosen \in SUBSET queue : Selected(r, scope, queue, chosen)
    <3>1. PICK queue \in FirstOpen(pendingDiscoveryRefs(scope)) :
                \E chosen \in SUBSET queue : Selected(r, scope, queue, chosen)
      BY <2>2
    <3>2. queue \in SUBSET Ref /\ \A c \in queue : c.scope = scope /\ refs[c] # "none"
      BY <3>1, <1>1, <1>2 DEF pendingDiscoveryRefs
    <3>3. PICK chosen \in SUBSET queue : Selected(r, scope, queue, chosen)
      BY <3>1
    <3> QED
      BY <1>3, <3>2, <3>3, SelectedTracks
  <2> QED
    BY <1>4, <2>1, <2>2 DEF StartWatch
<1>5. ASSUME NEW scope \in ManualScopes, StartDiscovery(r, scope)
      PROVE  AllTrack'
  BY <1>3, <1>5, SearchTracks DEF StartDiscovery, Scopes
<1>6. ASSUME NEW scopes, NEW kms, r \in ExpandRuns, StartExpansion(r, scopes, kms)
      PROVE  AllTrack'
  <2> DEFINE candidates == {c \in Open : c.scope \in scopes /\ c.killmail \in kms}
  <2>1. PICK chosen \in FirstOpen(candidates) :
            run' = [run EXCEPT ![r] = [Idle EXCEPT !.phase = "requesting",
                                          !.chosen = chosen, !.todo = chosen]]
    BY <1>6 DEF StartExpansion
  <2>2. chosen \in SUBSET Ref /\ \A c \in chosen : refs[c] # "none"
    BY <1>1, <1>2
  <2> DEFINE new == [Idle EXCEPT !.phase = "requesting",
                                 !.chosen = chosen, !.todo = chosen]
  <2>3. new \in Run
    BY <2>2 DEF Idle, Run, Statements
  <2>4. Tracks(r, new, refs, killmails)
    BY <1>6, <2>2 DEF Idle, Tracks, OwnScope, HasRows, Packaged, Closing, Settling
  <2> HIDE DEF new
  <2> QED
    BY <1>3, <2>1, <2>3, <2>4, TracksRecord DEF new
<1> QED
  BY <1>4, <1>5, <1>6 DEF Start

LEMMA DiscoveredTracks ==
    ASSUME TypeOK, AllTrack, NEW r \in Runs, Discovered(r)
    PROVE  AllTrack'
<1>1. PICK queue \in Listing(run[r].scope) :
          run' = [run EXCEPT ![r] = [@ EXCEPT !.phase = "upserting",
                                        !.known = queue, !.todo = queue]]
  BY DEF Discovered
<1>2. queue \in SUBSET Ref /\ \A c \in queue : c.scope = run[r].scope
  BY <1>1 DEF Listing
<1> DEFINE new == [run[r] EXCEPT !.phase = "upserting",
                                 !.known = queue, !.todo = queue]
<1>3. /\ run[r] \in Run /\ Tracks(r, run[r], refs, killmails)
      /\ run[r].phase = "searching"
      /\ \A q \in Runs \ {r} : run[q].phase \notin Statements
      /\ UNCHANGED <<refs, killmails, events>>
  BY DEF TypeOK, AllTrack, Discovered, Thread
<1>4. new \in Run
  BY <1>2, <1>3 DEF Run, Statements
<1>5. Tracks(r, new, refs, killmails)
  BY <1>2, <1>3 DEF Run, Tracks, OwnScope, HasRows, Packaged, Closing, Settling
<1>6. run' = [run EXCEPT ![r] = new]
  BY <1>1
<1> HIDE DEF new
<1> QED
  BY <1>3, <1>4, <1>5, <1>6, TracksRecord

LEMMA SelectDiscoveredTracks ==
    ASSUME TypeOK, AllTrack, NEW r \in Runs, SelectDiscovered(r)
    PROVE  AllTrack'
<1>1. PICK chosen \in SUBSET run[r].known :
          Selected(r, run[r].scope, run[r].known, chosen)
  BY DEF SelectDiscovered
<1>2. /\ run[r] \in Run /\ Tracks(r, run[r], refs, killmails)
      /\ run[r].phase = "upserting" /\ run[r].todo = {}
      /\ \A q \in Runs \ {r} : run[q].phase \notin Statements
      /\ UNCHANGED <<refs, killmails, events>>
  BY DEF TypeOK, AllTrack, SelectDiscovered, Thread
<1>3. /\ run[r].known \in SUBSET Ref
      /\ run[r].scope \in Scopes \cup {NoScope}
  BY <1>2 DEF Run
<1>4. r \notin ExpandRuns => \A c \in run[r].known : c.scope = run[r].scope
  BY <1>2 DEF Tracks, OwnScope
<1>5. \A c \in run[r].known : refs[c] # "none"
  BY <1>2 DEF Tracks, HasRows
<1> QED
  BY <1>1, <1>2, <1>3, <1>4, <1>5, SelectedTracks

LEMMA expandKillmailTracks ==
    ASSUME TypeOK, AllTrack, NEW r \in Runs, NEW c \in Ref, expandKillmail(r, c)
    PROVE  AllTrack'
<1> DEFINE origin == [run[r].origin EXCEPT ![c.killmail] =
                         IF @ = NoScope THEN c.scope ELSE @]
           new == [run[r] EXCEPT !.phase = "awaiting", !.asked = c,
                                 !.todo = @ \ {c}, !.origin = origin]
<1>1. /\ run[r] \in Run /\ Tracks(r, run[r], refs, killmails)
      /\ run[r].phase = "requesting" /\ c \in run[r].todo
      /\ \A q \in Runs \ {r} : run[q].phase \notin Statements
  BY DEF TypeOK, AllTrack, expandKillmail, Thread
<1>2. run' = [run EXCEPT ![r] = new] /\ UNCHANGED <<refs, killmails, events>>
  BY <1>1 DEF expandKillmail, Run
<1>3. c.killmail \in Killmails /\ c.scope \in Scopes
  BY DEF Ref
<1>4. /\ origin \in [Killmails -> Scopes \cup {NoScope}]
      /\ \A k \in Killmails : origin[k] \in {run[r].origin[k], c.scope}
  BY <1>1, <1>3 DEF Run
<1> HIDE DEF origin
<1>5. new \in Run
  BY <1>1, <1>4 DEF Run, Waits
<1>6. OwnScope(r, new)
  <2>1. r \notin ExpandRuns => c.scope = run[r].scope
    BY <1>1 DEF Tracks, OwnScope
  <2> QED
    BY <1>1, <1>4, <2>1 DEF Run, Tracks, OwnScope
<1>7. Tracks(r, new, refs, killmails)
  BY <1>1, <1>6 DEF Run, Tracks, HasRows, Packaged, Closing, Settling
<1> HIDE DEF new
<1> QED
  BY <1>1, <1>2, <1>5, <1>7, TracksRecord

LEMMA AnsweredTracks ==
    ASSUME TypeOK, AllTrack, NEW r \in Runs, NEW failed \in SUBSET Killmails,
           NEW content \in SUBSET Content, Answered(r, failed, content)
    PROVE  AllTrack'
<1> DEFINE first == FirstWith(run[r].first, content)
           new == [run[r] EXCEPT !.phase = "requesting", !.asked = NoRef,
                                 !.failed = @ \cup failed,
                                 !.pkg = @ \cup content, !.first = first]
<1>1. /\ run[r] \in Run /\ Tracks(r, run[r], refs, killmails)
      /\ run[r].phase = "awaiting"
      /\ \A q \in Runs \ {r} : run[q].phase \notin Statements
  BY DEF TypeOK, AllTrack, Answered, Thread
<1>2. run' = [run EXCEPT ![r] = new] /\ UNCHANGED <<refs, killmails, events>>
  BY <1>1 DEF Answered, Run
<1>3. \A k \in Killmails : (\E p \in content : p.killmail = k) =>
          (CHOOSE p \in content : p.killmail = k) \in content
  OBVIOUS
<1>4. /\ first \in [Killmails -> Content \cup {NoContent}]
      /\ \A k \in Killmails :
            first[k] # NoContent => first[k] \in run[r].pkg \cup content
  BY <1>1, <1>3 DEF Run, FirstWith, Tracks, Packaged
<1> HIDE DEF first
<1>5. new \in Run
  BY <1>1, <1>4 DEF Run, Statements
<1>6. Tracks(r, new, refs, killmails)
  BY <1>1, <1>4 DEF Run, Tracks, OwnScope, HasRows, Packaged, Closing, Settling
<1> HIDE DEF new
<1> QED
  BY <1>1, <1>2, <1>5, <1>6, TracksRecord

LEMMA EsiTracks ==
    ASSUME IInv, AllTrack, NEW r \in Runs,
           EsiExpands(r) \/ EsiFails(r) \/ EsiDefers(r) \/ EsiTimesOut(r)
    PROVE  AllTrack'
<1>1. TypeOK /\ (run[r].phase = "awaiting" => run[r].asked \in Ref)
  BY DEF IInv, AllSound, Sound
<1>2. CASE EsiExpands(r)
  <2>1. PICK body \in Bodies :
            Answered(r, {}, {[killmail |-> run[r].asked.killmail,
                              hash |-> run[r].asked.hash, body |-> body]})
    BY <1>2 DEF EsiExpands
  <2> DEFINE p == [killmail |-> run[r].asked.killmail,
                   hash |-> run[r].asked.hash, body |-> body]
  <2>2. p \in Content
    BY <1>1, <2>1 DEF Answered, Thread, Ref, Content
  <2> HIDE DEF p
  <2> QED
    BY <1>1, <2>1, <2>2, AnsweredTracks DEF p
<1>3. CASE EsiFails(r)
  <2>1. run[r].asked.killmail \in Killmails
    BY <1>1, <1>3 DEF EsiFails, Answered, Thread, Ref
  <2> QED
    BY <1>1, <1>3, <2>1, AnsweredTracks DEF EsiFails
<1>4. CASE EsiDefers(r)
  BY <1>1, <1>4, AnsweredTracks DEF EsiDefers
<1>5. CASE RunAborts(r)
  BY <1>1, <1>5, FinalizeTracks DEF RunAborts, Thread
<1> QED
  BY <1>2, <1>3, <1>4, <1>5 DEF EsiTimesOut

LEMMA PackageBuiltTracks ==
    ASSUME TypeOK, AllTrack, NEW r \in Runs, PackageBuilt(r)
    PROVE  AllTrack'
<1> DEFINE new == [run[r] EXCEPT !.phase = "built", !.todo = {}]
<1>1. run' = [run EXCEPT ![r] = new] /\ UNCHANGED <<refs, killmails, events>>
  BY DEF PackageBuilt
<1>2. /\ run[r] \in Run /\ Tracks(r, run[r], refs, killmails)
      /\ run[r].phase = "requesting"
      /\ \A q \in Runs \ {r} : run[q].phase \notin Statements
  BY DEF TypeOK, AllTrack, PackageBuilt, Thread
<1>3. new \in Run
  BY <1>2 DEF Run, Waits
<1>4. Tracks(r, new, refs, killmails)
  BY <1>2 DEF Run, Tracks, OwnScope, HasRows, Packaged, Closing, Settling
<1> HIDE DEF new
<1> QED
  BY <1>1, <1>2, <1>3, <1>4, TracksRecord

LEMMA SettleTracks ==
    ASSUME TypeOK, AllTrack, NEW r \in Runs, Settle(r)
    PROVE  AllTrack'
<1> DEFINE new == [run[r] EXCEPT !.phase = "failing",
              !.todo = {c \in run[r].chosen : c.killmail \in run[r].failed}]
<1>1. run' = [run EXCEPT ![r] = new] /\ UNCHANGED <<refs, killmails, events>>
  BY DEF Settle
<1>2. /\ run[r] \in Run /\ Tracks(r, run[r], refs, killmails)
      /\ run[r].phase = "built"
      /\ \A q \in Runs \ {r} : run[q].phase \notin Statements
  BY DEF TypeOK, AllTrack, Settle, Thread
<1>3. new \in Run
  BY <1>2 DEF Run, Statements
<1>4. Tracks(r, new, refs, killmails)
  BY <1>2 DEF Run, Tracks, OwnScope, HasRows, Packaged, Closing, Settling
<1> HIDE DEF new
<1> QED
  BY <1>1, <1>2, <1>3, <1>4, TracksRecord

(***************************************************************************)
(* The refs persistEvidencePackage leaves to close are those of the run's  *)
(* own scope it has answers for, when the run keeps to one scope.          *)
(***************************************************************************)
LEMMA MarkedAnswers ==
    ASSUME NEW r \in Runs, r \notin ExpandRuns, run[r] \in Run,
           Sound(run[r], killmails), OwnScope(r, run[r])
    PROVE  /\ \A c \in Marked(r) : c.scope = run[r].scope
           /\ \A c \in run[r].chosen : Answers(run[r], c) => c \in Marked(r)
<1>1. \A p \in run[r].pkg : run[r].origin[p.killmail] = run[r].scope
  BY DEF Run, Content, Sound, OwnScope
<1>2. ASSUME NEW c \in run[r].chosen, Answers(run[r], c)
      PROVE  c \in Marked(r)
  <2>1. PICK p \in run[r].pkg : p.killmail = c.killmail /\ p.hash = c.hash
    BY <1>2 DEF Answers
  <2>2. c = [killmail |-> p.killmail, hash |-> p.hash,
             scope |-> run[r].origin[p.killmail]]
    BY <1>1, <2>1 DEF OwnScope, Run, Ref
  <2> QED
    BY <2>1, <2>2 DEF Marked
<1> QED
  BY <1>1, <1>2 DEF Marked

LEMMA PersistTracks ==
    ASSUME IInv, AllTrack, NEW r \in Runs, persistEvidencePackage(r)
    PROVE  AllTrack'
<1> DEFINE new == [run[r] EXCEPT !.phase = "expanding", !.todo = Marked(r)]
<1>1. /\ run' = [run EXCEPT ![r] = new]
      /\ refs' = refs
      /\ \A q \in Runs \ {r} : run[q].phase \notin Statements
  BY DEF persistEvidencePackage, Thread
<1>2. /\ TypeOK /\ run[r] \in Run
      /\ Sound(run[r], killmails) /\ Tracks(r, run[r], refs, killmails)
  BY DEF IInv, TypeOK, AllSound, AllTrack
<1>3. Marked(r) \in SUBSET Ref
  BY <1>2 DEF Marked, Run, Content, Ref, Sound
<1>4. new \in Run
  BY <1>2, <1>3 DEF Run, Statements
<1>5. OwnScope(r, new)
  BY <1>2, MarkedAnswers DEF Run, Tracks, OwnScope
<1>6. Closing(r, new, refs', killmails')
  <2>1. \A p \in run[r].pkg : killmails'[p.killmail] # NoContent
    BY PersistLands
  <2>2. ASSUME r \notin ExpandRuns, NEW c \in run[r].chosen, Answers(run[r], c)
        PROVE  c \in Marked(r)
    BY <1>2, <2>2, MarkedAnswers DEF Tracks
  <2> QED
    BY <1>2, <2>1, <2>2 DEF Run, Closing, Answers
<1>7. HasRows(new, refs') /\ Packaged(new)
  BY <1>1, <1>2 DEF Run, Tracks, HasRows, Packaged
<1>8. Tracks(r, new, refs', killmails') /\ RowsStay
  BY <1>1, <1>5, <1>6, <1>7 DEF Tracks, RowsStay
<1> HIDE DEF new
<1> QED
  BY <1>1, <1>2, <1>4, <1>8, TracksStep

LEMMA StartCachingTracks ==
    ASSUME TypeOK, AllTrack, NEW r \in Runs, StartCaching(r)
    PROVE  AllTrack'
<1> DEFINE new == [run[r] EXCEPT !.phase = "caching", !.todo = Cached(r)]
<1>1. run' = [run EXCEPT ![r] = new] /\ UNCHANGED <<refs, killmails, events>>
  BY DEF StartCaching
<1>2. /\ run[r] \in Run /\ Tracks(r, run[r], refs, killmails)
      /\ run[r].phase = "expanding" /\ run[r].todo = {}
      /\ \A q \in Runs \ {r} : run[q].phase \notin Statements
  BY DEF TypeOK, AllTrack, StartCaching, Thread
<1>3. Cached(r) \in SUBSET Ref
  BY <1>2 DEF Cached, Run
<1>4. new \in Run
  BY <1>2, <1>3 DEF Run, Statements
<1>5. OwnScope(r, new)
  BY <1>2 DEF Run, Tracks, OwnScope, Cached
<1>6. Closing(r, new, refs, killmails)
  <2>1. \A p \in run[r].pkg : hasKillmail(p.killmail)
    BY <1>2 DEF Tracks, Closing, Settling, hasKillmail
  <2>2. ASSUME NEW c \in run[r].chosen, Answers(run[r], c)
        PROVE  c \in Cached(r) \/ refs[c] \in {"expanded", "cached"}
    <3>1. CASE r \in ExpandRuns
      BY <2>1, <2>2, <3>1 DEF Answers, Cached
    <3>2. CASE r \notin ExpandRuns
      BY <1>2, <2>2, <3>2 DEF Tracks, Closing
    <3> QED
      BY <3>1, <3>2
  <2> QED
    BY <1>2, <2>1, <2>2 DEF Run, Closing, Answers, hasKillmail
<1>7. Tracks(r, new, refs, killmails)
  BY <1>2, <1>5, <1>6 DEF Run, Tracks, HasRows, Packaged
<1> HIDE DEF new
<1> QED
  BY <1>1, <1>2, <1>4, <1>7, TracksRecord

(***************************************************************************)
(* The statements on queue rows: c gets or keeps a row, and is closed when *)
(* the loop is one that closes.                                            *)
(***************************************************************************)
LEMMA StatementTracks ==
    ASSUME TypeOK, AllTrack, NEW r \in Runs, NEW c \in Ref,
           run' = [run EXCEPT ![r] = [@ EXCEPT !.todo = run[r].todo \ {c}]],
           \A q \in Runs \ {r} : run[q].phase \notin Statements,
           killmails' = killmails,
           \A d \in Ref : \/ refs'[d] = refs[d]
                          \/ refs[d] # "none" /\ refs'[d] # "none" /\ d = c
                          \/ run[r].phase = "upserting" /\ d = c /\ refs'[d] # "none",
           run[r].phase = "upserting" => refs'[c] # "none",
           run[r].phase \in Settling =>
              /\ \A d \in Ref : Closed(d) => Closed(d)'
              /\ refs[c] # "none" => Closed(c)'
    PROVE  AllTrack'
<1> DEFINE new == [run[r] EXCEPT !.todo = run[r].todo \ {c}]
<1>1. run' = [run EXCEPT ![r] = new]
  OBVIOUS
<1>2. run[r] \in Run /\ Tracks(r, run[r], refs, killmails)
  BY DEF TypeOK, AllTrack
<1>3. new \in Run /\ OwnScope(r, new) /\ Packaged(new)
  BY <1>2 DEF Run, Tracks, OwnScope, Packaged
<1>4. RowsStay
  BY DEF RowsStay
<1>5. HasRows(new, refs')
  BY <1>2, <1>4 DEF Run, Tracks, HasRows, RowsStay
<1>6. Closing(r, new, refs', killmails')
  <2>1. run[r].chosen \subseteq Ref /\ \A d \in run[r].chosen : refs[d] # "none"
    BY <1>2 DEF Run, Tracks, HasRows
  <2>2. /\ new.phase = run[r].phase /\ new.pkg = run[r].pkg
        /\ new.chosen = run[r].chosen /\ new.todo = run[r].todo \ {c}
    BY <1>2 DEF Run
  <2> HIDE DEF new
  <2>3. Closing(r, run[r], refs, killmails)
    BY <1>2 DEF Tracks
  <2> QED
    BY <2>1, <2>2, <2>3 DEF Closing, Answers, Closed, Settling
<1>7. Tracks(r, new, refs', killmails')
  BY <1>3, <1>5, <1>6 DEF Tracks
<1> HIDE DEF new
<1> QED
  BY <1>1, <1>3, <1>4, <1>7, TracksStep

LEMMA RowsTrack ==
    ASSUME TypeOK, AllTrack, NEW r \in Runs, NEW c \in Ref,
           \/ upsertDiscoveredKillmailRef(r, c)
           \/ markDiscoveryRefsFailed(r, c)
           \/ markDiscoveryRefsExpanded(r, c)
           \/ markDiscoveryRefsCached(r, c)
    PROVE  AllTrack'
<1>1. CASE upsertDiscoveredKillmailRef(r, c)
  <2>1. Upserted(c) # "none"
    BY DEF Upserted
  <2>2. refs' = [refs EXCEPT ![c] = Upserted(c)] /\ run[r].phase = "upserting"
    BY <1>1 DEF upsertDiscoveredKillmailRef, Thread
  <2>3. /\ \A d \in Ref : refs'[d] = refs[d] \/ (d = c /\ refs'[d] # "none")
        /\ refs'[c] # "none"
    BY <2>1, <2>2 DEF TypeOK
  <2> QED
    BY <1>1, <2>2, <2>3, StatementTracks
       DEF upsertDiscoveredKillmailRef, Thread, Settling
<1>2. CASE markDiscoveryRefsFailed(r, c)
  <2>1. run[r].phase = "failing" /\ refs' = Failed(c)
    BY <1>2 DEF markDiscoveryRefsFailed, Thread
  <2>2. \A d \in Ref : \/ refs'[d] = refs[d]
                       \/ refs[d] # "none" /\ refs'[d] # "none" /\ d = c
    BY <2>1 DEF Failed, TypeOK
  <2> QED
    BY <1>2, <2>1, <2>2, StatementTracks DEF markDiscoveryRefsFailed, Thread, Settling
<1>3. CASE markDiscoveryRefsExpanded(r, c)
  <2>1. run[r].phase = "expanding" /\ refs' = Expanded(c)
    BY <1>3 DEF markDiscoveryRefsExpanded, Thread
  <2>2. /\ \A d \in Ref : \/ refs'[d] = refs[d]
                          \/ refs[d] # "none" /\ refs'[d] # "none" /\ d = c
        /\ \A d \in Ref : Closed(d) => Closed(d)'
        /\ refs[c] # "none" => Closed(c)'
    BY <2>1 DEF Expanded, TypeOK, Closed
  <2> QED
    BY <1>3, <2>1, <2>2, StatementTracks DEF markDiscoveryRefsExpanded, Thread
<1>4. CASE markDiscoveryRefsCached(r, c)
  <2>1. run[r].phase = "caching" /\ refs' = MarkedCached(c)
    BY <1>4 DEF markDiscoveryRefsCached, Thread
  <2>2. /\ \A d \in Ref : \/ refs'[d] = refs[d]
                          \/ refs[d] # "none" /\ refs'[d] # "none" /\ d = c
        /\ \A d \in Ref : Closed(d) => Closed(d)'
        /\ refs[c] # "none" => Closed(c)'
    BY <2>1 DEF MarkedCached, TypeOK, Closed
  <2> QED
    BY <1>4, <2>1, <2>2, StatementTracks DEF markDiscoveryRefsCached, Thread
<1> QED
  BY <1>1, <1>2, <1>3, <1>4

LEMMA StepTracks ==
    ASSUME IInv, AllTrack, NEW r \in Runs, Step(r)
    PROVE  AllTrack'
<1> TypeOK
  BY DEF IInv
<1>1. CASE Discovered(r)
  BY <1>1, DiscoveredTracks
<1>2. CASE SelectDiscovered(r)
  BY <1>2, SelectDiscoveredTracks
<1>3. CASE EsiExpands(r)
  BY <1>3, EsiTracks
<1>4. CASE PackageBuilt(r)
  BY <1>4, PackageBuiltTracks
<1>5. CASE Settle(r)
  BY <1>5, SettleTracks
<1>6. CASE persistEvidencePackage(r)
  BY <1>6, PersistTracks
<1>7. CASE StartCaching(r)
  BY <1>7, StartCachingTracks
<1>8. CASE RunSucceeds(r)
  BY <1>8, FinalizeTracks DEF RunSucceeds, Thread
<1>9. ASSUME NEW c \in Ref, expandKillmail(r, c)
      PROVE  AllTrack'
  BY <1>9, expandKillmailTracks
<1>10. ASSUME NEW c \in Ref,
              \/ upsertDiscoveredKillmailRef(r, c)
              \/ markDiscoveryRefsFailed(r, c)
              \/ markDiscoveryRefsExpanded(r, c)
              \/ markDiscoveryRefsCached(r, c)
       PROVE  AllTrack'
  BY <1>10, RowsTrack
<1> QED
  BY <1>1, <1>2, <1>3, <1>4, <1>5, <1>6, <1>7, <1>8, <1>9, <1>10 DEF Step

LEMMA NextTracks ==
    ASSUME IInv, AllTrack, [Next]_vars
    PROVE  AllTrack'
<1> TypeOK
  BY DEF IInv
<1>1. CASE Work
  <2>1. PICK r \in Runs : Start(r) \/ Step(r)
    BY <1>1 DEF Work
  <2> QED
    BY <2>1, StartTracks, StepTracks
<1>2. CASE Crash
  BY <1>2, IdleTracks DEF Crash, AllTrack
<1>3. ASSUME NEW r \in Runs,
             \/ EsiFails(r) \/ EsiDefers(r) \/ EsiTimesOut(r)
             \/ RunAborts(r) \/ StatementFails(r)
      PROVE  AllTrack'
  BY <1>3, EsiTracks, FinalizeTracks DEF RunAborts, StatementFails, Thread
<1>4. CASE UNCHANGED vars
  BY <1>4 DEF vars, AllTrack
<1> QED
  BY <1>1, <1>2, <1>3, <1>4 DEF Next, Fault

(***************************************************************************)
(* Every run keeps to its refs and closes what it lands, in every state.   *)
(***************************************************************************)
LEMMA InductiveTracks == Spec => [](IInv /\ AllTrack)
<1>1. Init => AllTrack
  BY IdleTracks DEF Init, AllTrack
<1>2. IInv /\ AllTrack /\ [Next]_vars => AllTrack'
  BY NextTracks
<1> QED
  BY Inductive, <1>1, <1>2, PTL DEF Spec

-----------------------------------------------------------------------------
(***************************************************************************)
(* A run that is recorded as a success has closed every selected ref whose *)
(* answer it landed: for any cap, any other runs, and whether or not the   *)
(* killmail also failed in it.                                             *)
(***************************************************************************)
THEOREM SuccessClosesRefs == Spec => SuccessClosesItsRefs
<1>1. IInv /\ AllTrack =>
        \A r \in Runs, c \in Ref :
           /\ RunSucceeds(r)
           /\ c \in run[r].chosen
           /\ \E p \in run[r].pkg : p.killmail = c.killmail /\ p.hash = c.hash
           => Closed(c)
  <2> SUFFICES ASSUME AllTrack, NEW r \in Runs, NEW c \in Ref, RunSucceeds(r),
                      c \in run[r].chosen, Answers(run[r], c)
               PROVE  Closed(c)
    BY DEF Answers
  <2>1. run[r].todo = {} /\ run[r].phase \in {"caching", "upserting"}
    BY DEF RunSucceeds, Thread
  <2>2. Packaged(run[r]) /\ Closing(r, run[r], refs, killmails)
    BY DEF AllTrack, Tracks
  <2>3. run[r].phase # "upserting"
    BY <2>2 DEF Packaged, Answers
  <2> QED
    BY <2>1, <2>2, <2>3 DEF Closing, Closed
<1> QED
  BY InductiveTracks, <1>1, PTL DEF SuccessClosesItsRefs

(***************************************************************************)
(* A row changes only by a statement of the run in whose loop it is, and   *)
(* of all runs in memory that statement changes this one only.             *)
(***************************************************************************)
LEMMA RowsAreOfTheirRun ==
    ASSUME TypeOK, [Next]_vars, NEW c \in Ref, refs'[c] # refs[c]
    PROVE  \E q \in Runs : /\ c \in run[q].todo
                           /\ \A r \in Runs : run'[r] # run[r] => r = q
<1>1. ASSUME NEW q \in Runs, NEW d \in Ref,
             \/ upsertDiscoveredKillmailRef(q, d)
             \/ markDiscoveryRefsFailed(q, d)
             \/ markDiscoveryRefsExpanded(q, d)
             \/ markDiscoveryRefsCached(q, d)
      PROVE  c \in run[q].todo /\ \A r \in Runs : run'[r] # run[r] => r = q
  <2>1. /\ d \in run[q].todo
        /\ run' = [run EXCEPT ![q] = [@ EXCEPT !.todo = run[q].todo \ {d}]]
        /\ \/ refs' = [refs EXCEPT ![d] = Upserted(d)] \/ refs' = Failed(d)
           \/ refs' = Expanded(d) \/ refs' = MarkedCached(d)
    BY <1>1 DEF upsertDiscoveredKillmailRef, markDiscoveryRefsFailed,
                markDiscoveryRefsExpanded, markDiscoveryRefsCached
  <2>2. c = d
    BY <2>1 DEF TypeOK, Failed, Expanded, MarkedCached
  <2> QED
    BY <2>1, <2>2 DEF TypeOK
<1>2. CASE Work
  <2>1. PICK q \in Runs : Start(q) \/ Step(q)
    BY <1>2 DEF Work
  <2>2. ~Start(q)
    BY DEF Start, StartWatch, StartDiscovery, StartExpansion, Begin
  <2>3. ~(\/ Discovered(q) \/ SelectDiscovered(q) \/ EsiExpands(q)
          \/ PackageBuilt(q) \/ Settle(q) \/ persistEvidencePackage(q)
          \/ StartCaching(q) \/ RunSucceeds(q)
          \/ \E d \in Ref : expandKillmail(q, d))
    BY DEF Discovered, SelectDiscovered, EsiExpands, Answered, PackageBuilt, Settle,
           persistEvidencePackage, StartCaching, RunSucceeds, expandKillmail
  <2>4. PICK d \in Ref : \/ upsertDiscoveredKillmailRef(q, d)
                         \/ markDiscoveryRefsFailed(q, d)
                         \/ markDiscoveryRefsExpanded(q, d)
                         \/ markDiscoveryRefsCached(q, d)
    BY <2>1, <2>2, <2>3 DEF Step
  <2> QED
    BY <1>1, <2>4
<1>3. ~Fault
  BY DEF Fault, Crash, EsiFails, EsiDefers, EsiTimesOut, RunAborts, Answered,
         StatementFails
<1>4. ~UNCHANGED vars
  BY DEF vars
<1> QED
  BY <1>2, <1>3, <1>4 DEF Next

(***************************************************************************)
(* A run that is not a manual expansion changes refs of its own queue scope*)
(* only.                                                                   *)
(***************************************************************************)
THEOREM ScopesAreIsolated == Spec => ScopesIsolated
<1> DEFINE Isolated == \A r \in Runs \ ExpandRuns, c \in Ref :
              run[r] # run'[r] /\ Cardinality({q \in Runs : run[q] # run'[q]}) = 1
              /\ refs[c] # refs'[c] => c.scope = run[r].scope
<1>1. IInv /\ AllTrack /\ [Next]_vars => Isolated
  <2> SUFFICES ASSUME IInv, AllTrack, [Next]_vars,
                      NEW r \in Runs \ ExpandRuns, NEW c \in Ref,
                      run[r] # run'[r], refs[c] # refs'[c]
               PROVE  c.scope = run[r].scope
    OBVIOUS
  <2>1. c \in run[r].todo
    BY RowsAreOfTheirRun DEF IInv
  <2> QED
    BY <2>1 DEF AllTrack, Tracks, OwnScope
<1>2. IInv /\ AllTrack /\ [Next]_vars => [Isolated]_vars
  BY <1>1
<1> HIDE DEF Isolated
<1>3. Spec => [][Isolated]_vars
  BY InductiveTracks, <1>2, PTL DEF Spec
<1> QED
  BY <1>3 DEF Isolated, ScopesIsolated

-----------------------------------------------------------------------------
(***************************************************************************)
(* A transaction that stores a killmail leaves it without events only if   *)
(* its package holds two different answers for it.                         *)
(***************************************************************************)
TwoAnswers(r, k) ==
    \E p, q \in run[r].pkg : p # q /\ p.killmail = k /\ q.killmail = k

LEMMA PersistDerives ==
    ASSUME IInv, AllTrack, NEW r \in Runs, persistEvidencePackage(r),
           NEW k \in Killmails, ~hasKillmail(k), killmails'[k] # NoContent
    PROVE  events'[k] # NoContent \/ TwoAnswers(r, k)
<1>1. killmails' = Landed(r) /\ events' = Derived(r)
  BY DEF persistEvidencePackage
<1>2. Landed(r)[k] = run[r].first[k] /\ run[r].first[k] # NoContent
  BY <1>1 DEF Landed
<1>3. run[r].first[k] \in run[r].pkg /\ run[r].first[k].killmail = k
  BY <1>2 DEF IInv, AllSound, Sound, AllTrack, Tracks, Packaged
<1>4. PackagedOf(r, k) # {}
  BY <1>3 DEF PackagedOf
<1>5. CASE k \in Conflicts(r)
  <2>1. PICK p \in PackagedOf(r, k) : p # Landed(r)[k]
    BY <1>5 DEF Conflicts
  <2> QED
    BY <1>2, <1>3, <2>1 DEF PackagedOf, TwoAnswers
<1>6. CASE k \notin Conflicts(r)
  BY <1>1, <1>2, <1>4, <1>6 DEF Derived
<1> QED
  BY <1>5, <1>6

(***************************************************************************)
(* A killmail is only stored by a run that persists its package, and its   *)
(* events with it, unless that run holds two different answers for it.     *)
(***************************************************************************)
StoredWithEvents ==
    [][\A k \in Killmails :
          ~hasKillmail(k) /\ killmails'[k] # NoContent =>
             \E r \in Runs : /\ persistEvidencePackage(r)
                             /\ events'[k] # NoContent \/ TwoAnswers(r, k)]_vars

THEOREM EvidenceLandsWhole == Spec => StoredWithEvents
<1>1. IInv /\ AllTrack /\ [Next]_vars =>
        [\A k \in Killmails :
            ~hasKillmail(k) /\ killmails'[k] # NoContent =>
               \E r \in Runs : /\ persistEvidencePackage(r)
                               /\ events'[k] # NoContent \/ TwoAnswers(r, k)]_vars
  <2> SUFFICES ASSUME IInv, AllTrack, [Next]_vars, NEW k \in Killmails,
                      ~hasKillmail(k), killmails'[k] # NoContent
               PROVE  \E r \in Runs : /\ persistEvidencePackage(r)
                                      /\ events'[k] # NoContent \/ TwoAnswers(r, k)
    OBVIOUS
  <2>1. \E r \in Runs : persistEvidencePackage(r)
    BY StepCases DEF hasKillmail
  <2> QED
    BY <2>1, PersistDerives
<1> QED
  BY InductiveTracks, <1>1, PTL DEF Spec, StoredWithEvents

(***************************************************************************)
(* ESI answers for a killmail are all the same: the provider never changes *)
(* a killmail or its hash.  Killmails, scopes and runs stay arbitrary.     *)
(***************************************************************************)
SteadyAnswers == \A p, q \in Content : p.killmail = q.killmail => p = q

(***************************************************************************)
(* Where ESI never changes its answer, every stored killmail has its       *)
(* events, after any failure, race or crash.                               *)
(***************************************************************************)
THEOREM EvidenceIsWhole ==
    ASSUME SteadyAnswers
    PROVE  Spec => []EvidenceWhole
<1>1. Init => EvidenceWhole
  BY DEF Init, EvidenceWhole, hasKillmail
<1>2. IInv /\ AllTrack /\ EvidenceWhole /\ [Next]_vars => EvidenceWhole'
  <2> SUFFICES ASSUME IInv, AllTrack, EvidenceWhole, [Next]_vars,
                      NEW k \in Killmails, killmails'[k] # NoContent
               PROVE  events'[k] # NoContent
    BY DEF EvidenceWhole, hasKillmail
  <2>1. CASE UNCHANGED <<killmails, events>>
    BY <2>1 DEF EvidenceWhole, hasKillmail
  <2>2. ASSUME NEW r \in Runs, persistEvidencePackage(r)
        PROVE  events'[k] # NoContent
    <3>1. CASE hasKillmail(k)
      BY <2>2, <3>1, PersistLands DEF EvidenceWhole
    <3>2. CASE ~hasKillmail(k)
      <4>1. run[r].pkg \subseteq Content
        BY DEF IInv, TypeOK, Run
      <4>2. ~TwoAnswers(r, k)
        BY <4>1 DEF TwoAnswers, SteadyAnswers
      <4> QED
        BY <2>2, <3>2, <4>2, PersistDerives
    <3> QED
      BY <3>1, <3>2
  <2> QED
    BY <2>1, <2>2, StepCases
<1> QED
  BY InductiveTracks, <1>1, <1>2, PTL DEF Spec

(***************************************************************************)
(* CollectionLiveness restricts Collection: every theorem of this module   *)
(* holds where faults stop, whole evidence among them.                     *)
(***************************************************************************)
LEMMA CalmKeepsSpec == CalmSpec => Spec
<1>1. [CalmNext]_<<vars, calm>> => [Next]_vars
  BY DEF CalmNext, Next
<1> QED
  BY <1>1, PTL DEF CalmSpec, Spec

COROLLARY CalmEvidenceIsWhole ==
    ASSUME SteadyAnswers
    PROVE  CalmSpec => []EvidenceWhole
BY CalmKeepsSpec, EvidenceIsWhole, PTL

-----------------------------------------------------------------------------
(***************************************************************************)
(* What any step may do to the record of one run.                          *)
(***************************************************************************)
Stages == {<<"searching", "upserting">>, <<"requesting", "built">>,
           <<"built", "failing">>, <<"failing", "expanding">>,
           <<"expanding", "caching">>}

Loops == {"upserting", "failing", "expanding", "caching"}

Chooses(new) ==
    /\ new.phase = "requesting"
    /\ new.todo = new.chosen
    /\ \E S \in SUBSET Ref : new.chosen \in Capped(S, MaxExpansions)

Moves(old, new) ==
    \/ new = Idle
    \/ old.phase = "idle" /\ new.phase = "searching" /\ new.chosen = {}
    \/ old.phase \in {"idle", "upserting"} /\ Chooses(new)
    \/ new.chosen = old.chosen /\ <<old.phase, new.phase>> \in Stages
    \/ /\ new.chosen = old.chosen
       /\ old.phase = "requesting" /\ new.phase = "awaiting"
       /\ new.asked \in old.todo /\ new.todo = old.todo \ {new.asked}
    \/ /\ new.chosen = old.chosen
       /\ old.phase = "awaiting" /\ new.phase = "requesting"
       /\ new.todo = old.todo
    \/ /\ new.chosen = old.chosen
       /\ new.phase = old.phase /\ old.phase \in Loops
       /\ \E c \in old.todo : new.todo = old.todo \ {c}

\* A step that gives r the record new moves r, and no other run.
LEMMA MovesOne ==
    ASSUME TypeOK, NEW q \in Runs, NEW new, run' = [run EXCEPT ![q] = new],
           Moves(run[q], new), NEW r \in Runs, run'[r] # run[r]
    PROVE  Moves(run[r], run'[r])
<1>1. run'[q] = new /\ (r # q => run'[r] = run[r])
  BY DEF TypeOK
<1> QED
  BY <1>1

LEMMA SelectedMoves ==
    ASSUME TypeOK, NEW q \in Runs, NEW scope, NEW queue \in SUBSET Ref,
           NEW chosen, Selected(q, scope, queue, chosen),
           run[q].phase \in {"idle", "upserting"},
           NEW r \in Runs, run'[r] # run[r]
    PROVE  Moves(run[r], run'[r])
<1> DEFINE S == {c \in queue : ~hasKillmail(c.killmail)}
           new == [Idle EXCEPT
                      !.phase = "requesting", !.scope = scope, !.todo = chosen,
                      !.chosen = chosen,
                      !.known = {c \in queue : hasKillmail(c.killmail)}]
<1>1. run' = [run EXCEPT ![q] = new] /\ chosen \in Capped(S, MaxExpansions)
  BY DEF Selected
<1>2. new.phase = "requesting" /\ new.todo = chosen /\ new.chosen = chosen
  BY DEF Idle
<1>3. S \in SUBSET Ref
  OBVIOUS
<1> HIDE DEF S, new
<1>4. Moves(run[q], new)
  BY <1>1, <1>2, <1>3 DEF Moves, Chooses
<1> QED
  BY <1>1, <1>4, MovesOne

LEMMA StartMoves ==
    ASSUME TypeOK, NEW q \in Runs, Start(q), NEW r \in Runs, run'[r] # run[r]
    PROVE  Moves(run[r], run'[r])
<1>1. /\ \A S : FirstOpen(S) \subseteq Capped(S, MaxExpansions)
      /\ \A S : FirstOpen(S) \subseteq SUBSET S
      /\ Open \subseteq Ref
  BY DEF FirstOpen, Capped, Open
<1>2. run[q].phase = "idle"
  BY DEF Start, StartWatch, StartDiscovery, StartExpansion, Begin, Thread
<1>3. ASSUME NEW scope, Search(q, scope)
      PROVE  Moves(run[r], run'[r])
  <2> DEFINE new == [Idle EXCEPT !.phase = "searching", !.scope = scope]
  <2>1. run' = [run EXCEPT ![q] = new]
    BY <1>3 DEF Search
  <2>2. new.phase = "searching" /\ new.chosen = {}
    BY DEF Idle
  <2> HIDE DEF new
  <2>3. Moves(run[q], new)
    BY <1>2, <2>2 DEF Moves
  <2> QED
    BY <2>1, <2>3, MovesOne
<1>4. ASSUME NEW scope, StartWatch(q, scope), ~Search(q, scope)
      PROVE  Moves(run[r], run'[r])
  <2>1. PICK queue \in FirstOpen(pendingDiscoveryRefs(scope)) :
              \E chosen \in SUBSET queue : Selected(q, scope, queue, chosen)
    BY <1>4 DEF StartWatch
  <2>2. queue \in SUBSET Ref
    BY <1>1, <2>1 DEF pendingDiscoveryRefs
  <2> QED
    BY <1>2, <2>1, <2>2, SelectedMoves
<1>5. ASSUME NEW scopes, NEW kms, StartExpansion(q, scopes, kms)
      PROVE  Moves(run[r], run'[r])
  <2> DEFINE S == {c \in Open : c.scope \in scopes /\ c.killmail \in kms}
  <2>1. PICK chosen \in FirstOpen(S) :
            run' = [run EXCEPT ![q] = [Idle EXCEPT !.phase = "requesting",
                                          !.chosen = chosen, !.todo = chosen]]
    BY <1>5 DEF StartExpansion
  <2> DEFINE new == [Idle EXCEPT !.phase = "requesting",
                                 !.chosen = chosen, !.todo = chosen]
  <2>2. new.phase = "requesting" /\ new.todo = chosen /\ new.chosen = chosen
    BY DEF Idle
  <2>3. S \in SUBSET Ref
    BY <1>1
  <2> HIDE DEF S, new
  <2>4. Moves(run[q], new)
    BY <1>1, <1>2, <2>1, <2>2, <2>3 DEF Moves, Chooses
  <2> QED
    BY <2>1, <2>4, MovesOne DEF new
<1> QED
  BY <1>3, <1>4, <1>5 DEF Start, StartDiscovery

LEMMA IdleMoves ==
    ASSUME TypeOK, NEW q \in Runs, Finalize(q), NEW r \in Runs, run'[r] # run[r]
    PROVE  Moves(run[r], run'[r])
<1>1. Moves(run[q], Idle)
  BY DEF Moves
<1> QED
  BY <1>1, MovesOne DEF Finalize

LEMMA AnsweredMoves ==
    ASSUME TypeOK, NEW q \in Runs, NEW failed, NEW content,
           Answered(q, failed, content), NEW r \in Runs, run'[r] # run[r]
    PROVE  Moves(run[r], run'[r])
<1> DEFINE new == [run[q] EXCEPT !.phase = "requesting", !.asked = NoRef,
                      !.failed = run[q].failed \cup failed,
                      !.pkg = run[q].pkg \cup content,
                      !.first = FirstWith(run[q].first, content)]
<1>1. run' = [run EXCEPT ![q] = new] /\ run[q].phase = "awaiting" /\ run[q] \in Run
  BY DEF Answered, Thread, TypeOK
<1>2. /\ new.phase = "requesting" /\ new.todo = run[q].todo
      /\ new.chosen = run[q].chosen
  BY <1>1 DEF Run
<1> HIDE DEF new
<1>3. Moves(run[q], new)
  BY <1>1, <1>2 DEF Moves
<1> QED
  BY <1>1, <1>3, MovesOne

\* The run goes on to its next stage.
LEMMA StageMoves ==
    ASSUME TypeOK, NEW q \in Runs, NEW phase, NEW todo,
           run' = [run EXCEPT ![q] = [@ EXCEPT !.phase = phase, !.todo = todo]],
           <<run[q].phase, phase>> \in Stages, NEW r \in Runs, run'[r] # run[r]
    PROVE  Moves(run[r], run'[r])
<1> DEFINE new == [run[q] EXCEPT !.phase = phase, !.todo = todo]
<1>1. run' = [run EXCEPT ![q] = new] /\ run[q] \in Run
  BY DEF TypeOK
<1>2. new.phase = phase /\ new.chosen = run[q].chosen
  BY <1>1 DEF Run
<1> HIDE DEF new
<1>3. Moves(run[q], new)
  BY <1>2 DEF Moves
<1> QED
  BY <1>1, <1>3, MovesOne

\* The run serves one ref of its loop.
LEMMA LoopMoves ==
    ASSUME TypeOK, NEW q \in Runs, NEW c \in run[q].todo,
           run' = [run EXCEPT ![q] = [@ EXCEPT !.todo = run[q].todo \ {c}]],
           run[q].phase \in Loops, NEW r \in Runs, run'[r] # run[r]
    PROVE  Moves(run[r], run'[r])
<1> DEFINE new == [run[q] EXCEPT !.todo = run[q].todo \ {c}]
<1>1. run' = [run EXCEPT ![q] = new] /\ run[q] \in Run
  BY DEF TypeOK
<1>2. /\ new.phase = run[q].phase /\ new.chosen = run[q].chosen
      /\ new.todo = run[q].todo \ {c}
  BY <1>1 DEF Run
<1> HIDE DEF new
<1>3. Moves(run[q], new)
  BY <1>2 DEF Moves
<1> QED
  BY <1>1, <1>3, MovesOne

LEMMA StepMoves ==
    ASSUME TypeOK, NEW q \in Runs, Step(q), NEW r \in Runs, run'[r] # run[r]
    PROVE  Moves(run[r], run'[r])
<1>1. CASE Discovered(q)
  <2>1. PICK queue \in Listing(run[q].scope) :
            run' = [run EXCEPT ![q] = [@ EXCEPT !.phase = "upserting",
                                          !.known = queue, !.todo = queue]]
    BY <1>1 DEF Discovered
  <2> DEFINE new == [run[q] EXCEPT !.phase = "upserting",
                                   !.known = queue, !.todo = queue]
  <2>2. run' = [run EXCEPT ![q] = new] /\ run[q].phase = "searching"
    BY <1>1, <2>1 DEF Discovered, Thread
  <2>3. new.phase = "upserting" /\ new.chosen = run[q].chosen
    BY DEF TypeOK, Run
  <2> HIDE DEF new
  <2>4. Moves(run[q], new)
    BY <2>2, <2>3 DEF Moves, Stages
  <2> QED
    BY <2>2, <2>4, MovesOne
<1>2. CASE SelectDiscovered(q)
  BY <1>2, SelectedMoves DEF SelectDiscovered, Thread, TypeOK, Run
<1>3. CASE EsiExpands(q)
  BY <1>3, AnsweredMoves DEF EsiExpands
<1>4. CASE PackageBuilt(q) \/ Settle(q) \/ persistEvidencePackage(q) \/ StartCaching(q)
  BY <1>4, StageMoves
     DEF PackageBuilt, Settle, persistEvidencePackage, StartCaching, Thread, Stages
<1>5. CASE RunSucceeds(q)
  BY <1>5, IdleMoves DEF RunSucceeds
<1>6. ASSUME NEW c \in Ref, expandKillmail(q, c)
      PROVE  Moves(run[r], run'[r])
  <2> DEFINE new == [run[q] EXCEPT
          !.phase = "awaiting", !.asked = c, !.todo = run[q].todo \ {c},
          !.origin = [run[q].origin EXCEPT
                         ![c.killmail] = IF @ = NoScope THEN c.scope ELSE @]]
  <2>1. /\ run' = [run EXCEPT ![q] = new]
        /\ run[q].phase = "requesting" /\ c \in run[q].todo
    BY <1>6 DEF expandKillmail, Thread
  <2>2. /\ new.phase = "awaiting" /\ new.chosen = run[q].chosen
        /\ new.asked = c /\ new.todo = run[q].todo \ {c}
    BY DEF TypeOK, Run
  <2> HIDE DEF new
  <2>3. Moves(run[q], new)
    BY <2>1, <2>2 DEF Moves
  <2> QED
    BY <2>1, <2>3, MovesOne
<1>7. ASSUME NEW c \in Ref,
             \/ upsertDiscoveredKillmailRef(q, c) \/ markDiscoveryRefsFailed(q, c)
             \/ markDiscoveryRefsExpanded(q, c) \/ markDiscoveryRefsCached(q, c)
      PROVE  Moves(run[r], run'[r])
  BY <1>7, LoopMoves
     DEF upsertDiscoveredKillmailRef, markDiscoveryRefsFailed,
         markDiscoveryRefsExpanded, markDiscoveryRefsCached, Thread, Loops
<1> QED
  BY <1>1, <1>2, <1>3, <1>4, <1>5, <1>6, <1>7 DEF Step

LEMMA RunMoves ==
    ASSUME TypeOK, [Next]_vars, NEW r \in Runs, run'[r] # run[r]
    PROVE  Moves(run[r], run'[r])
<1>1. CASE Work
  BY <1>1, StartMoves, StepMoves DEF Work
<1>2. CASE Crash
  BY <1>2 DEF Crash, Moves
<1>3. ASSUME NEW q \in Runs,
             \/ EsiFails(q) \/ EsiDefers(q) \/ EsiTimesOut(q)
             \/ RunAborts(q) \/ StatementFails(q)
      PROVE  Moves(run[r], run'[r])
  BY <1>3, AnsweredMoves, IdleMoves
     DEF EsiFails, EsiDefers, EsiTimesOut, RunAborts, StatementFails
<1>4. ~UNCHANGED vars
  BY DEF vars
<1> QED
  BY <1>1, <1>2, <1>3, <1>4 DEF Next, Fault

-----------------------------------------------------------------------------
(***************************************************************************)
(* How far a run is from its end: the stages left, in each of them the refs*)
(* its loop has left, and while it expands an answer that is still to come.*)
(***************************************************************************)
StageOf == [searching |-> 6, upserting |-> 5, requesting |-> 4, awaiting |-> 4,
            built |-> 3, failing |-> 2, expanding |-> 1, caching |-> 0]

Nearer(new, old) ==
    \/ new.phase = "idle"
    \/ StageOf[new.phase] < StageOf[old.phase]
    \/ /\ StageOf[new.phase] = StageOf[old.phase]
       /\ \/ new.todo \subseteq old.todo /\ new.todo # old.todo
          \/ /\ new.todo = old.todo
             /\ old.phase = "awaiting" /\ new.phase = "requesting"

(***************************************************************************)
(* Every step of a run, those of its failures included, brings it nearer to*)
(* its end, and no step of another run sets it back: no sequence of answers*)
(* and errors makes it go round, so a run with finitely many refs ends when*)
(* its steps are taken.                                                    *)
(***************************************************************************)
RunsComeToAnEnd ==
    [][\A r \in Runs :
          run[r].phase # "idle" /\ run'[r] # run[r]
             => Nearer(run'[r], run[r])]_vars

THEOREM RunsEnd == Spec => RunsComeToAnEnd
<1>1. IInv /\ [Next]_vars =>
        [\A r \in Runs : run[r].phase # "idle" /\ run'[r] # run[r]
                            => Nearer(run'[r], run[r])]_vars
  <2> SUFFICES ASSUME IInv, [Next]_vars, NEW r \in Runs,
                      run[r].phase # "idle", run'[r] # run[r]
               PROVE  Nearer(run'[r], run[r])
    OBVIOUS
  <2>1. Moves(run[r], run'[r])
    BY RunMoves DEF IInv
  <2>2. Idle.phase = "idle"
    BY DEF Idle
  <2>3. \A old, new : Moves(old, new) /\ old.phase # "idle" => Nearer(new, old)
    BY <2>2 DEF Moves, Nearer, StageOf, Stages, Loops, Chooses
  <2> QED
    BY <2>1, <2>3
<1> QED
  BY Inductive, <1>1, PTL DEF Spec, RunsComeToAnEnd

(***************************************************************************)
(* A run selects at most maxExpansions refs and asks ESI for selected refs *)
(* only, for none of them twice: what it asked for has left its loop, which*)
(* is never filled again.                                                  *)
(***************************************************************************)
Capping(rec) ==
    /\ Cardinality(rec.chosen) <= MaxExpansions
    /\ rec.phase \in {"requesting", "awaiting"} => rec.todo \subseteq rec.chosen
    /\ rec.phase = "awaiting" => rec.asked \in rec.chosen \ rec.todo

AsksWithinCap == \A r \in Runs : Capping(run[r])

LEMMA IdleIsCapped == Capping(Idle)
  BY FS_EmptySet, CollectionAssumption DEF Capping, Idle

LEMMA MovesCap ==
    ASSUME IsFiniteSet(Ref), NEW old, NEW new, Capping(old), Moves(old, new)
    PROVE  Capping(new)
<1>1. CASE new = Idle
  BY <1>1, IdleIsCapped
<1>2. CASE old.phase = "idle" /\ new.phase = "searching" /\ new.chosen = {}
  BY <1>2, FS_EmptySet, CollectionAssumption DEF Capping
<1>3. CASE Chooses(new)
  <2>1. PICK S \in SUBSET Ref : new.chosen \in Capped(S, MaxExpansions)
    BY <1>3 DEF Chooses
  <2>2. Cardinality(S) \in Nat
    BY <2>1, FS_Subset, FS_CardinalityType
  <2>3. Cardinality(new.chosen) <= MaxExpansions
    BY <2>1, <2>2, CollectionAssumption DEF Capped
  <2> QED
    BY <1>3, <2>3 DEF Capping, Chooses
<1>4. CASE new.chosen = old.chosen
  BY <1>4 DEF Capping, Moves, Stages, Loops, Chooses, Idle
<1> QED
  BY <1>1, <1>2, <1>3, <1>4 DEF Moves

THEOREM AsksAreCapped ==
    ASSUME IsFiniteSet(Ref)
    PROVE  Spec => []AsksWithinCap
<1>1. Init => AsksWithinCap
  BY IdleIsCapped DEF Init, AsksWithinCap
<1>2. IInv /\ AsksWithinCap /\ [Next]_vars => AsksWithinCap'
  <2> SUFFICES ASSUME IInv, AsksWithinCap, [Next]_vars, NEW r \in Runs
               PROVE  Capping(run'[r])
    BY DEF AsksWithinCap, Capping
  <2>1. CASE run'[r] = run[r]
    BY <2>1 DEF AsksWithinCap
  <2>2. CASE run'[r] # run[r]
    BY <2>2, RunMoves, MovesCap DEF AsksWithinCap, IInv
  <2> QED
    BY <2>1, <2>2
<1> QED
  BY Inductive, <1>1, <1>2, PTL DEF Spec
=============================================================================
