----------------------------- MODULE WatchOrder -----------------------------
(***************************************************************************)
(* The order and the spacing of the watch runs of WatchExecutor, with two  *)
(* history variables.                                                      *)
(***************************************************************************)
EXTENDS WatchExecutor

VARIABLES lastEnd,   \* watch -> when a run of it was last recorded
          overtook   \* watch -> the watches that started while it waited

orderVars == <<watchVars, lastEnd, overtook>>

Waiting(w) == sessionArmed /\ Due(w) /\ ~Running(w)

OrderInit ==
    /\ WatchInit
    /\ lastEnd = [w \in Watches |-> Never]
    /\ overtook = [w \in Watches |-> {}]

OrderNext ==
    /\ WatchNext
    /\ lastEnd' = [w \in Watches |->
                     IF \E i \in Ids : runs[i] = w /\ FinishRun(i)
                     THEN now ELSE lastEnd[w]]
    /\ overtook' = [w \in Watches |->
                      IF Waiting(w)'
                      THEN overtook[w] \cup {v \in Watches : Starts(v)}
                      ELSE {}]

OrderSpec == OrderInit /\ [][OrderNext]_orderVars

OrderFairSpec == OrderSpec /\ WatchFairness

(***************************************************************************)
(* While a watch waits in an armed session, no other watch starts twice:   *)
(* the order of selectDueWatch together with the poll time that every      *)
(* recorded result moves past the clock (recordWatchRunResult).            *)
(***************************************************************************)
NoSecondOvertaking ==
    [][\A v, w \in Watches :
          Waiting(w) /\ Starts(v) /\ ~Starts(w) => v \notin overtook[w]]_orderVars

(***************************************************************************)
(* Two runs of one watch are at least its interval or the backoff apart,   *)
(* across failures, cancellations, restarts, edits of the watch and        *)
(* results recorded by hand (recordWatchRunResult, scheduleRow).           *)
(***************************************************************************)
RunsSpaced ==
    [][\A w \in Watches : Starts(w) /\ lastEnd[w] # Never =>
          \/ now >= lastEnd[w] + PollInterval[w]
          \/ now >= lastEnd[w] + Backoff]_orderVars
=============================================================================
