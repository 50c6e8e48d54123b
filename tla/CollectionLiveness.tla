------------------------- MODULE CollectionLiveness -------------------------
(***************************************************************************)
(* Progress of evidence collection (Collection) once faults stop.          *)
(***************************************************************************)
EXTENDS Collection

VARIABLE calm   \* no more answers are lost and no process dies

CalmNext ==
    \/ Work /\ UNCHANGED calm
    \/ ~calm /\ Fault /\ UNCHANGED calm
    \/ calm' = TRUE /\ UNCHANGED vars

(***************************************************************************)
(* The event loop serves every run that can go on, ESI and zKill answer in *)
(* the end, and a watch is run again and again.                            *)
(***************************************************************************)
CalmSpec ==
    /\ Init /\ calm = FALSE
    /\ [][CalmNext]_<<vars, calm>>
    /\ \A r \in Runs : SF_vars(Step(r))
    /\ \A r \in WatchRuns, scope \in ActorScopes \cup RadiusScopes :
          SF_vars(StartWatch(r, scope))

(***************************************************************************)
(* Once faults stop, every ref in a watch's queue is closed by a later     *)
(* run: nothing that a crash, an error or a race leaves behind is stuck.   *)
(***************************************************************************)
OpenRefsAreClosed ==
    \A c \in Ref : c.scope \notin ManualScopes =>
        (calm /\ c \in Open) ~> Closed(c)
=============================================================================
