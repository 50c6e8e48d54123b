----------------------------- MODULE Hydration -----------------------------
(***************************************************************************)
(* Names for IDs: metadata/reportHydrator.js, the repair of one selected   *)
(* ID and resolution/actorResolver.js.  All of them read what is unknown,  *)
(* ask ESI, and write to entities and to the name columns of               *)
(* activity_events after the answer; they run beside each other and beside *)
(* collections, which add events without names.                            *)
(*                                                                         *)
(* A name column of an event is a cell; it belongs to one ID.  The rows of *)
(* metadata_runs are the phases of the runs.                               *)
(***************************************************************************)
EXTENDS Naturals, FiniteSets

CONSTANTS Ids, Names, NoName,
          Cells, IdOf(_),
          ChunkSize,      \* IDs per request
          Runs            \* bound: runs at a time

ASSUME HydrationAssumption ==
    /\ Ids \subseteq Nat
    /\ NoName \notin Names
    /\ \A c \in Cells : IdOf(c) \in Ids
    /\ ChunkSize \in Nat \ {0}

VARIABLES names,    \* entity_name in entities, NoName without a row
          events,   \* cells of the events stored
          labels,   \* their contents
          runs

vars == <<names, events, labels, runs>>

Name == Names \cup {NoName}

Run == [kind : {"hydration", "repair", "resolve"},
        phase : {"idle", "asking", "success", "partial", "failed"},
        ids : SUBSET Ids,       \* to be asked for
        got : [Ids -> Name],    \* answered so far
        typed : Name]           \* what the operator typed

Unnamed == [i \in Ids |-> NoName]
Idle == [kind |-> "hydration", phase |-> "idle", ids |-> {}, got |-> Unnamed,
         typed |-> NoName]

Asking(r, kind) == runs[r].phase = "asking" /\ runs[r].kind = kind
Free(r) == runs[r].phase # "asking"

TypeOK ==
    /\ names \in [Ids -> Name]
    /\ events \subseteq Cells
    /\ labels \in [Cells -> Name]
    /\ runs \in [Runs -> Run]
    \* Only stored events have labels.
    /\ \A c \in Cells : labels[c] # NoName => c \in events
    \* What is answered is not asked for again.
    /\ \A r \in Runs : \A i \in runs[r].ids : runs[r].got[i] = NoName

Init ==
    /\ names = Unnamed
    /\ events = {}
    /\ labels = [c \in Cells |-> NoName]
    /\ runs = [r \in Runs |-> Idle]

-----------------------------------------------------------------------------
\* countKnown.
Known(ids) == {i \in ids : names[i] # NoName}

\* localLabelState of the repair.
Readable(i) ==
    \/ names[i] # NoName
    \/ \E c \in events : IdOf(c) = i /\ labels[c] # NoName

\* Mutant: names that are there already are written again.
PatchedAll(ids, by) ==
    [c \in Cells |-> IF c \in events /\ IdOf(c) \in ids THEN by[IdOf(c)]
                     ELSE labels[c]]

\* patchEntityEvents: labels that are NULL, of some IDs.
Patched(ids, by) ==
    [c \in Cells |-> IF c \in events /\ labels[c] = NoName /\ IdOf(c) \in ids
                     THEN by[IdOf(c)] ELSE labels[c]]

\* applyResolvedNames, one transaction.
ApplyResolved(got) ==
    LET answered == {i \in Ids : got[i] # NoName}
    IN  /\ names' = [i \in Ids |-> IF i \in answered THEN got[i] ELSE names[i]]
        /\ labels' = Patched(answered, got)

\* The first chunk of what is left.
Chunk(ids) ==
    {i \in ids : Cardinality({j \in ids : j < i}) < ChunkSize}

Ends(r, how) == runs' = [runs EXCEPT ![r] = [Idle EXCEPT !.phase = how]]

Begins(r, kind, ids, typed) ==
    /\ Free(r)
    /\ runs' = [runs EXCEPT ![r] = [kind |-> kind, phase |-> "asking",
                    ids |-> ids, got |-> Unnamed, typed |-> typed]]

-----------------------------------------------------------------------------
(* Hydration of the IDs of a report.                                       *)

\* Mutant: what is known is only left out of the requests.
StartHydrationUnpatched(r, ids) ==
    /\ Begins(r, "hydration", ids \ Known(ids), NoName)
    /\ UNCHANGED <<names, events, labels>>

\* Known names are copied to events at once, the others are asked for.
StartHydration(r, ids) ==
    /\ Begins(r, "hydration", ids \ Known(ids), NoName)
    /\ labels' = Patched(Known(ids), names)
    /\ UNCHANGED <<names, events>>

\* Mutant: the next request starts at the same index.
AnswerAgain(r, answer) ==
    LET chunk == Chunk(runs[r].ids)
    IN  /\ Asking(r, "hydration")
        /\ chunk # {}
        /\ runs' = [runs EXCEPT ![r].got =
               [i \in Ids |-> IF i \in chunk THEN answer[i] ELSE @[i]]]
        /\ UNCHANGED <<names, events, labels>>

\* An answer names some IDs of the chunk that was asked for.
Answer(r, answer) ==
    LET chunk == Chunk(runs[r].ids)
    IN  /\ Asking(r, "hydration")
        /\ chunk # {}
        /\ runs' = [runs EXCEPT
               ![r].ids = @ \ chunk,
               ![r].got = [i \in Ids |-> IF i \in chunk THEN answer[i] ELSE @[i]]]
        /\ UNCHANGED <<names, events, labels>>

\* All chunks are answered.
Apply(r) ==
    /\ Asking(r, "hydration")
    /\ runs[r].ids = {}
    /\ ApplyResolved(runs[r].got)
    /\ Ends(r, "success")
    /\ UNCHANGED events

-----------------------------------------------------------------------------
(* Repair of one selected ID, which must be a fact of an event.            *)

StartRepair(r, i) ==
    /\ \E c \in events : IdOf(c) = i
    /\ ~Readable(i)
    /\ Begins(r, "repair", {i}, NoName)
    /\ UNCHANGED <<names, events, labels>>

\* Mutant: no second look at the local label.
RepairAnsweredUnchecked(r, i, n) ==
    /\ Asking(r, "repair")
    /\ i \in runs[r].ids
    /\ ApplyResolved([Unnamed EXCEPT ![i] = n])
    /\ Ends(r, "success")
    /\ UNCHANGED events

\* The label is looked for again after the answer.
RepairAnswered(r, i, n) ==
    /\ Asking(r, "repair")
    /\ i \in runs[r].ids
    /\ \/ Readable(i) /\ UNCHANGED <<names, labels>>
       \/ ~Readable(i) /\ ApplyResolved([Unnamed EXCEPT ![i] = n])
    /\ Ends(r, "success")
    /\ UNCHANGED events

\* ESI does not know the ID.
RepairUnresolved(r) ==
    /\ Asking(r, "repair")
    /\ Ends(r, "partial")
    /\ UNCHANGED <<names, events, labels>>

-----------------------------------------------------------------------------
(* Actors typed by the operator.                                           *)

\* resolveByEsiName, if no ID has the name locally.
StartResolve(r, n) ==
    /\ \A i \in Ids : names[i] # n
    /\ Begins(r, "resolve", {}, n)
    /\ UNCHANGED <<names, events, labels>>

ResolveAnswered(r, i) ==
    /\ Asking(r, "resolve")
    /\ names' = [names EXCEPT ![i] = runs[r].typed]
    /\ Ends(r, "success")
    /\ UNCHANGED <<events, labels>>

\* resolveById with a name: the operator's word is taken.
GiveName(i, n) ==
    /\ names' = [names EXCEPT ![i] = n]
    /\ UNCHANGED <<events, labels, runs>>

-----------------------------------------------------------------------------
\* A request fails or is cancelled, an answer is rejected, a typed name is
\* ambiguous, or a statement fails and its transaction is rolled back.
Fail(r) ==
    /\ ~Free(r)
    /\ Ends(r, "failed")
    /\ UNCHANGED <<names, events, labels>>

\* A collection stores an event; ESI killmails have no names.
Collect(c) ==
    /\ c \notin events
    /\ events' = events \cup {c}
    /\ UNCHANGED <<names, labels, runs>>

\* The process dies; its rows stay in status running.
Restart ==
    /\ runs' = [r \in Runs |-> Idle]
    /\ UNCHANGED <<names, events, labels>>

Starts(r) ==
    \/ \E ids \in SUBSET Ids : StartHydration(r, ids)
    \/ \E i \in Ids : StartRepair(r, i)
    \/ \E n \in Names : StartResolve(r, n)

\* A run goes on when its request is settled.
Settles(r) ==
    \/ \E answer \in [Chunk(runs[r].ids) -> Name] : Answer(r, answer)
    \/ Apply(r)
    \/ \E i \in Ids : \/ ResolveAnswered(r, i)
                      \/ \E n \in Names : RepairAnswered(r, i, n)
    \/ RepairUnresolved(r)
    \/ Fail(r)

Next ==
    \/ \E r \in Runs : Starts(r) \/ Settles(r)
    \/ \E i \in Ids, n \in Names : GiveName(i, n)
    \/ \E c \in Cells : Collect(c)
    \/ Restart

Spec == Init /\ [][Next]_vars

-----------------------------------------------------------------------------
(* Properties.                                                             *)

(***************************************************************************)
(* A repair never replaces a label: whatever was named while it waited for *)
(* its answer stays as it is.                                              *)
(***************************************************************************)
RepairNeverOverwrites ==
    [][\A r \in Runs : Asking(r, "repair") /\ runs'[r].phase = "success" =>
          \A i \in runs[r].ids :
             Readable(i) => names'[i] = names[i] /\ labels' = labels]_vars

(***************************************************************************)
(* Overlapping runs keep what Readability promises to reports.             *)
(***************************************************************************)
Register == INSTANCE Readability

ImplementsReadability == Register!Spec

(***************************************************************************)
(* Every request is settled (HttpClient), and operators ask for all IDs    *)
(* again and again.                                                        *)
(***************************************************************************)
FairSpec ==
    /\ Spec
    /\ \A r \in Runs :
          WF_vars(Settles(r)) /\ SF_vars(StartHydration(r, Ids))

\* In the end nothing fails and ESI knows every ID it is asked for.
Fault ==
    \/ \E r \in Runs : Fail(r) \/ RepairUnresolved(r)
    \/ \E r \in Runs : \E answer \in [Chunk(runs[r].ids) -> Name] :
          Answer(r, answer) /\ \E i \in DOMAIN answer : answer[i] = NoName
    \/ Restart

Calm == <>[][~Fault]_vars

(***************************************************************************)
(* Every event becomes readable: also one that is stored while a hydration *)
(* that takes its ID for known, or failed for it, is under way.            *)
(***************************************************************************)
EventsBecomeReadable ==
    Calm => \A c \in Cells : c \in events ~> labels[c] # NoName
=============================================================================
