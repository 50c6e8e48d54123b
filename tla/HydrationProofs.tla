--------------------------- MODULE HydrationProofs ---------------------------
(***************************************************************************)
(* Names for any IDs, events, chunk sizes and number of overlapping runs.  *)
(***************************************************************************)
EXTENDS Hydration, TLAPS

\* A typed name is one, and a repair is about one ID.
TypedIsName == \A r \in Runs : Asking(r, "resolve") => runs[r].typed \in Names
OneAtATime == \A r \in Runs : Asking(r, "repair") =>
                 \A i, j \in runs[r].ids : i = j

IInv == TypeOK /\ TypedIsName /\ OneAtATime

-----------------------------------------------------------------------------
(* What the parts of the actions keep.                                     *)

LEMMA ChunkIsAsked == ASSUME NEW ids PROVE Chunk(ids) \subseteq ids
BY DEF Chunk

LEMMA UnnamedType == Unnamed \in [Ids -> Name]
BY DEF Unnamed, Name

LEMMA IdleType == Idle \in Run /\ Idle.phase = "idle" /\ Idle.ids = {}
BY UnnamedType DEF Idle, Run, Name

\* Patching writes names to unlabelled cells of stored events only.
LEMMA PatchedFacts ==
    ASSUME TypeOK, NEW ids \in SUBSET Ids, NEW by \in [Ids -> Name]
    PROVE  /\ Patched(ids, by) \in [Cells -> Name]
           /\ \A c \in Cells : labels[c] # NoName => Patched(ids, by)[c] = labels[c]
           /\ \A c \in Cells : Patched(ids, by)[c] # labels[c] =>
                 c \in events /\ IdOf(c) \in ids /\ Patched(ids, by)[c] = by[IdOf(c)]
<1> USE HydrationAssumption
<1> QED BY DEF Patched, TypeOK

\* The transaction of applyResolvedNames keeps Readability's promises.
LEMMA AppliedFacts ==
    ASSUME TypeOK, NEW got \in [Ids -> Name], ApplyResolved(got),
           UNCHANGED events
    PROVE  Register!Next
<1> DEFINE answered == {i \in Ids : got[i] # NoName}
<1> USE HydrationAssumption
<1>1. names' = [i \in Ids |-> IF i \in answered THEN got[i] ELSE names[i]]
  BY DEF ApplyResolved
<1>2. labels' = Patched(answered, got)
  BY DEF ApplyResolved
<1>3. names' \in [Ids -> Names \cup {NoName}] /\ Register!KeepsNames
  BY <1>1 DEF TypeOK, Name, Register!KeepsNames
<1> HIDE DEF answered
<1>4. answered \in SUBSET Ids
  BY DEF answered
<1>5. labels' \in [Cells -> Names \cup {NoName}] /\ Register!KeepsLabels
  BY <1>2, <1>4, PatchedFacts DEF Name, Register!KeepsLabels
<1>6. Register!CopiesNames
  <2> SUFFICES ASSUME NEW c \in Cells, labels'[c] # labels[c]
               PROVE  c \in events /\ labels'[c] = names'[IdOf(c)]
    BY DEF Register!CopiesNames
  <2>1. c \in events /\ IdOf(c) \in answered /\ labels'[c] = got[IdOf(c)]
    BY <1>2, <1>4, PatchedFacts
  <2> QED BY <2>1, <1>1, <1>4
<1> QED BY <1>3, <1>5, <1>6 DEF Register!Next

\* So does a step that leaves names and labels alone.
LEMMA UnlabelledFacts ==
    ASSUME TypeOK, UNCHANGED <<names, labels>>, events \subseteq events'
    PROVE  Register!Next
BY DEF TypeOK, Name, Register!Next, Register!KeepsNames,
       Register!KeepsLabels, Register!CopiesNames

\* And one that names an ID.
LEMMA NamedFacts ==
    ASSUME TypeOK, NEW i \in Ids, NEW n \in Names,
           names' = [names EXCEPT ![i] = n], UNCHANGED <<events, labels>>
    PROVE  Register!Next
<1> USE HydrationAssumption
<1>1. names' \in [Ids -> Names \cup {NoName}] /\ Register!KeepsNames
  BY DEF TypeOK, Name, Register!KeepsNames
<1>2. labels' \in [Cells -> Names \cup {NoName}]
  BY DEF TypeOK, Name
<1> QED BY <1>1, <1>2 DEF Register!Next, Register!KeepsLabels, Register!CopiesNames

-----------------------------------------------------------------------------
(* Every step keeps Readability's promises.                                *)

LEMMA StepKeepsPromise ==
    ASSUME IInv, Next
    PROVE  Register!Next
<1> USE HydrationAssumption DEF IInv
<1>1. ASSUME NEW r \in Runs, NEW ids \in SUBSET Ids, StartHydration(r, ids)
      PROVE  Register!Next
  <2>1. /\ labels' = Patched(Known(ids), names)
        /\ UNCHANGED <<names, events>>
    BY <1>1 DEF StartHydration
  <2>2. Known(ids) \in SUBSET Ids /\ names \in [Ids -> Name]
    BY DEF Known, TypeOK
  <2>3. labels' \in [Cells -> Names \cup {NoName}] /\ Register!KeepsLabels
    BY <2>1, <2>2, PatchedFacts DEF Name, Register!KeepsLabels
  <2>4. Register!CopiesNames
    <3> SUFFICES ASSUME NEW c \in Cells, labels'[c] # labels[c]
                 PROVE  c \in events /\ labels'[c] = names'[IdOf(c)]
      BY DEF Register!CopiesNames
    <3> QED BY <2>1, <2>2, PatchedFacts
  <2>5. names' \in [Ids -> Names \cup {NoName}] /\ Register!KeepsNames
    BY <2>1, <2>2 DEF Name, Register!KeepsNames
  <2> QED BY <2>1, <2>3, <2>4, <2>5 DEF Register!Next
<1>2. ASSUME NEW r \in Runs, Apply(r)
      PROVE  Register!Next
  <2>1. runs[r].got \in [Ids -> Name]
    BY DEF TypeOK, Run
  <2> QED BY <1>2, <2>1, AppliedFacts DEF Apply
<1>3. ASSUME NEW r \in Runs, NEW i \in Ids, NEW n \in Names,
             RepairAnswered(r, i, n)
      PROVE  Register!Next
  <2>1. [Unnamed EXCEPT ![i] = n] \in [Ids -> Name]
    BY UnnamedType DEF Name
  <2> QED BY <1>3, <2>1, AppliedFacts, UnlabelledFacts DEF RepairAnswered
<1>4. ASSUME NEW r \in Runs, NEW i \in Ids, ResolveAnswered(r, i)
      PROVE  Register!Next
  <2>1. runs[r].typed \in Names
    BY <1>4 DEF ResolveAnswered, TypedIsName
  <2> QED BY <1>4, <2>1, NamedFacts DEF ResolveAnswered
<1>5. ASSUME NEW i \in Ids, NEW n \in Names, GiveName(i, n)
      PROVE  Register!Next
  BY <1>5, NamedFacts DEF GiveName
<1>6. ASSUME NEW r \in Runs,
             \/ \E answer \in [Chunk(runs[r].ids) -> Name] : Answer(r, answer)
             \/ \E i \in Ids : StartRepair(r, i)
             \/ \E n \in Names : StartResolve(r, n)
             \/ RepairUnresolved(r) \/ Fail(r)
      PROVE  Register!Next
  <2>1. UNCHANGED <<names, events, labels>>
    BY <1>6 DEF Answer, StartRepair, StartResolve, RepairUnresolved, Fail
  <2> QED BY <2>1, UnlabelledFacts
<1>7. ASSUME NEW c \in Cells, Collect(c)
      PROVE  Register!Next
  BY <1>7, UnlabelledFacts DEF Collect
<1>8. CASE Restart
  BY <1>8, UnlabelledFacts DEF Restart
<1> QED BY <1>1, <1>2, <1>3, <1>4, <1>5, <1>6, <1>7, <1>8
        DEF Next, Starts, Settles

-----------------------------------------------------------------------------
(* The runs stay well formed.                                              *)

RunsOK(rs) ==
    /\ rs \in [Runs -> Run]
    /\ \A r \in Runs : \A i \in rs[r].ids : rs[r].got[i] = NoName
    /\ \A r \in Runs : rs[r].phase = "asking" /\ rs[r].kind = "resolve"
                          => rs[r].typed \in Names
    /\ \A r \in Runs : rs[r].phase = "asking" /\ rs[r].kind = "repair"
                          => \A i, j \in rs[r].ids : i = j

LEMMA BegunRuns ==
    ASSUME IInv, NEW r \in Runs, NEW kind \in {"hydration", "repair", "resolve"},
           NEW ids \in SUBSET Ids, NEW typed \in Name,
           kind = "resolve" => typed \in Names,
           kind = "repair" => \A i, j \in ids : i = j,
           Begins(r, kind, ids, typed)
    PROVE  RunsOK(runs')
<1> DEFINE new == [kind |-> kind, phase |-> "asking", ids |-> ids,
                   got |-> Unnamed, typed |-> typed]
<1>1. runs \in [Runs -> Run] /\ runs' = [runs EXCEPT ![r] = new]
  BY DEF IInv, TypeOK, Begins
<1>2. new \in Run /\ new.ids = ids /\ new.got = Unnamed
      /\ new.kind = kind /\ new.typed = typed
  BY UnnamedType DEF Run
<1>3. \A i \in ids : Unnamed[i] = NoName
  BY DEF Unnamed
<1> HIDE DEF new
<1> QED BY <1>1, <1>2, <1>3 DEF RunsOK, IInv, TypeOK, TypedIsName, OneAtATime, Asking

LEMMA EndedRuns ==
    ASSUME IInv, NEW r \in Runs,
           NEW how \in {"success", "partial", "failed"}, Ends(r, how)
    PROVE  RunsOK(runs')
<1> DEFINE new == [Idle EXCEPT !.phase = how]
<1>1. runs \in [Runs -> Run] /\ runs' = [runs EXCEPT ![r] = new]
  BY DEF IInv, TypeOK, Ends
<1>2. new \in Run /\ new.ids = {} /\ new.phase # "asking"
  BY UnnamedType DEF Idle, Run, Name
<1> HIDE DEF new
<1> QED BY <1>1, <1>2 DEF RunsOK, IInv, TypeOK, TypedIsName, OneAtATime, Asking

LEMMA AnsweredRuns ==
    ASSUME IInv, NEW r \in Runs,
           NEW answer \in [Chunk(runs[r].ids) -> Name], Answer(r, answer)
    PROVE  RunsOK(runs')
<1> DEFINE chunk == Chunk(runs[r].ids)
           got == [i \in Ids |-> IF i \in chunk THEN answer[i] ELSE runs[r].got[i]]
           new == [runs[r] EXCEPT !.ids = runs[r].ids \ chunk, !.got = got]
<1>1. runs \in [Runs -> Run] /\ runs[r] \in Run
  BY DEF IInv, TypeOK
<1>2. runs' = [runs EXCEPT ![r] = new]
  BY <1>1 DEF Answer
<1>3. got \in [Ids -> Name]
  BY <1>1 DEF Run
<1>4. /\ new \in Run /\ new.ids = runs[r].ids \ chunk /\ new.got = got
      /\ new.kind = runs[r].kind
  BY <1>1, <1>3 DEF Run
<1>5. runs[r].ids \subseteq Ids /\ \A i \in runs[r].ids : runs[r].got[i] = NoName
  BY <1>1 DEF Run, IInv, TypeOK
<1>6. \A i \in new.ids : new.got[i] = NoName
  BY <1>4, <1>5
<1>7. new.kind = "hydration"
  BY <1>4 DEF Answer, Asking
<1> HIDE DEF new, chunk, got
<1> QED BY <1>1, <1>2, <1>4, <1>6, <1>7 DEF RunsOK, IInv, TypeOK, TypedIsName, OneAtATime, Asking

LEMMA RunsStayWell ==
    ASSUME IInv, Next
    PROVE  RunsOK(runs')
<1> USE HydrationAssumption
<1>1. ASSUME NEW r \in Runs, Starts(r)
      PROVE  RunsOK(runs')
  <2>1. ASSUME NEW ids \in SUBSET Ids, StartHydration(r, ids)
        PROVE  RunsOK(runs')
    <3>1. Begins(r, "hydration", ids \ Known(ids), NoName)
      BY <2>1 DEF StartHydration
    <3> QED BY <3>1, BegunRuns DEF Name
  <2>2. ASSUME NEW i \in Ids, StartRepair(r, i)
        PROVE  RunsOK(runs')
    BY <2>2, BegunRuns DEF StartRepair, Name
  <2>3. ASSUME NEW n \in Names, StartResolve(r, n)
        PROVE  RunsOK(runs')
    BY <2>3, BegunRuns DEF StartResolve, Name
  <2> QED BY <1>1, <2>1, <2>2, <2>3 DEF Starts
<1>2. ASSUME NEW r \in Runs, Settles(r)
      PROVE  RunsOK(runs')
  <2>1. ASSUME NEW answer \in [Chunk(runs[r].ids) -> Name], Answer(r, answer)
        PROVE  RunsOK(runs')
    BY <2>1, AnsweredRuns
  <2>2. CASE Apply(r) \/ \E i \in Ids : \/ ResolveAnswered(r, i)
                                        \/ \E n \in Names : RepairAnswered(r, i, n)
    BY <2>2, EndedRuns DEF Apply, ResolveAnswered, RepairAnswered
  <2>3. CASE RepairUnresolved(r) \/ Fail(r)
    BY <2>3, EndedRuns DEF RepairUnresolved, Fail
  <2> QED BY <1>2, <2>1, <2>2, <2>3 DEF Settles
<1>3. CASE UNCHANGED runs
  BY <1>3 DEF RunsOK, IInv, TypeOK, TypedIsName, OneAtATime, Asking
<1>4. CASE Restart
  BY <1>4, IdleType DEF Restart, RunsOK
<1> QED BY <1>1, <1>2, <1>3, <1>4 DEF Next, GiveName, Collect

-----------------------------------------------------------------------------
LEMMA InitInv == Init => IInv
<1> SUFFICES ASSUME Init PROVE IInv
  OBVIOUS
<1>1. runs \in [Runs -> Run]
  BY IdleType DEF Init
<1>2. \A r \in Runs : runs[r].ids = {} /\ runs[r].phase = "idle"
  BY IdleType DEF Init
<1> QED BY <1>1, <1>2, UnnamedType DEF Init, IInv, TypeOK, TypedIsName, OneAtATime, Name, Asking

\* Only stored events are labelled: from the promise and the events.
LEMMA NextInv == IInv /\ [Next]_vars => IInv'
<1> SUFFICES ASSUME IInv, [Next]_vars PROVE IInv'
  OBVIOUS
<1>1. CASE UNCHANGED vars
  BY <1>1 DEF vars, IInv, TypeOK, TypedIsName, OneAtATime, Asking
<1>2. CASE Next
  <2>1. Register!Next
    BY <1>2, StepKeepsPromise
  <2>2. RunsOK(runs')
    BY <1>2, RunsStayWell
  <2>3. events' \subseteq Cells
    BY <1>2 DEF IInv, TypeOK, Next, Starts, Settles, StartHydration, Answer,
                Apply, StartRepair, RepairAnswered, RepairUnresolved,
                StartResolve, ResolveAnswered, GiveName, Fail, Collect, Restart
  <2>4. \A c \in Cells : labels'[c] # NoName => c \in events'
    BY <2>1 DEF IInv, TypeOK, Register!Next, Register!CopiesNames
  <2>5. names' \in [Ids -> Name] /\ labels' \in [Cells -> Name]
    BY <2>1 DEF Register!Next, Name
  <2> QED BY <2>2, <2>3, <2>4, <2>5 DEF IInv, TypeOK, TypedIsName, OneAtATime, RunsOK, Asking
<1> QED BY <1>1, <1>2

LEMMA IInvHolds == Spec => []IInv
BY InitInv, NextInv, PTL DEF Spec

(***************************************************************************)
(* Names, labels and runs stay well formed; only stored events are         *)
(* labelled and no answered ID is asked for again (TypeOK).                *)
(***************************************************************************)
THEOREM NamesTypesCorrect == Spec => []TypeOK
<1>1. IInv => TypeOK
  BY DEF IInv
<1> QED BY <1>1, IInvHolds, PTL

(***************************************************************************)
(* A repair that is answered leaves an ID alone that was named while it    *)
(* waited, whatever named it (the second localLabelState).                 *)
(***************************************************************************)
THEOREM RepairsYield == Spec => RepairNeverOverwrites
<1> DEFINE Yields == \A r \in Runs :
        Asking(r, "repair") /\ runs'[r].phase = "success" =>
          \A i \in runs[r].ids :
             Readable(i) => names'[i] = names[i] /\ labels' = labels
<1>1. IInv /\ [Next]_vars => [Yields]_vars
  <2> SUFFICES ASSUME IInv, Next, NEW r \in Runs, Asking(r, "repair"),
                      runs'[r].phase = "success", NEW i \in runs[r].ids,
                      Readable(i)
               PROVE  names'[i] = names[i] /\ labels' = labels
    BY DEF vars
  <2> USE HydrationAssumption
  <2>1. runs \in [Runs -> Run] /\ i \in Ids /\ runs[r].phase = "asking"
        /\ runs[r].kind = "repair" /\ \A j \in runs[r].ids : j = i
    BY DEF IInv, TypeOK, Run, OneAtATime, Asking
  <2>2. ASSUME NEW q \in Runs, Starts(q)
        PROVE  FALSE
    <3>1. Free(q) /\ runs'[r] = IF q = r THEN runs'[r] ELSE runs[r]
      BY <2>1, <2>2 DEF Starts, StartHydration, StartRepair, StartResolve, Begins
    <3> QED BY <2>1, <3>1 DEF Free
  <2>3. ASSUME NEW q \in Runs, NEW how, Ends(q, how)
        PROVE  q = r /\ how = "success"
    BY <2>1, <2>3 DEF Ends, Idle
  <2>4. ASSUME NEW q \in Runs, Settles(q)
        PROVE  UNCHANGED <<names, labels>>
    <3>1. ASSUME NEW answer \in [Chunk(runs[q].ids) -> Name], Answer(q, answer)
          PROVE  UNCHANGED <<names, labels>>
      BY <3>1 DEF Answer
    <3>2. ASSUME Apply(q)
          PROVE  FALSE
      <4>1. q = r
        BY <3>2, <2>3 DEF Apply
      <4> QED BY <4>1, <3>2, <2>1 DEF Apply, Asking
    <3>3. ASSUME NEW j \in Ids, ResolveAnswered(q, j)
          PROVE  FALSE
      <4>1. q = r
        BY <3>3, <2>3 DEF ResolveAnswered
      <4> QED BY <4>1, <3>3, <2>1 DEF ResolveAnswered, Asking
    <3>4. ASSUME NEW j \in Ids, NEW n \in Names, RepairAnswered(q, j, n)
          PROVE  UNCHANGED <<names, labels>>
      <4>1. q = r
        BY <3>4, <2>3 DEF RepairAnswered
      <4>2. j = i
        BY <4>1, <3>4, <2>1 DEF RepairAnswered
      <4> QED BY <4>2, <3>4 DEF RepairAnswered
    <3>5. CASE RepairUnresolved(q) \/ Fail(q)
      BY <3>5 DEF RepairUnresolved, Fail
    <3> QED BY <2>4, <3>1, <3>2, <3>3, <3>4, <3>5 DEF Settles
  <2>5. CASE UNCHANGED runs
    BY <2>5, <2>1
  <2>6. CASE Restart
    BY <2>6, IdleType DEF Restart
  <2> QED BY <2>2, <2>4, <2>5, <2>6 DEF Next, GiveName, Collect
<1> QED BY <1>1, IInvHolds, PTL DEF Spec, RepairNeverOverwrites

(***************************************************************************)
(* Hydrations, repairs, resolutions and collections implement Readability, *)
(* however they overlap, fail or are cut off by a crash.                   *)
(***************************************************************************)
THEOREM NamesStayReadable == Spec => ImplementsReadability
<1>1. Init => Register!Init
  BY DEF Init, Register!Init, Unnamed
<1>2. IInv /\ [Next]_vars => [Register!Next]_(Register!vars)
  BY StepKeepsPromise DEF vars, Register!vars
<1> QED BY <1>1, <1>2, IInvHolds, PTL DEF Spec, ImplementsReadability, Register!Spec
=============================================================================
