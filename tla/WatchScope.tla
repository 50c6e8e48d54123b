----------------------------- MODULE WatchScope -----------------------------
(***************************************************************************)
(* addSystemRadiusWatch of watchlist/watchlistRepository.js while imports  *)
(* replace the topology.  A radius watch stores the systems it covers when *)
(* it is written, and later runs use what is stored.  The operator may     *)
(* send along the systems that an earlier preflight showed; what is stored *)
(* must be what the present topology says.                                 *)
(***************************************************************************)
EXTENDS SdeImport, RadiusSearch

CONSTANTS SystemsOf(_), GatesOf(_),   \* rows of a source
          Centers, Radii,             \* of the watches operators ask for
          MaxSystems,                 \* maxTopologySystems
          NoWatch

(***************************************************************************)
(* The ids of systems are integers and a table is finite; the service      *)
(* rejects a radius that is no natural number.                             *)
(***************************************************************************)
ASSUME WatchScopeAssumption ==
    /\ Radii \subseteq Nat /\ MaxSystems \in Nat
    /\ \A s \in Sources :
          /\ SystemsOf(s) \subseteq Int /\ IsFiniteSet(SystemsOf(s))
          /\ GatesOf(s) \subseteq Int \X Int /\ IsFiniteSet(GatesOf(s))

VARIABLE watch   \* a row of system_watches

scopeVars == <<vars, watch>>

\* The lookup tables as a reader sees them.
Gates == UNION {GatesOf(row[2]) :
                   row \in {r \in visible["topology"] : r[1] = "system_adjacency"}}
Systems == UNION {SystemsOf(row[2]) :
                     row \in {r \in visible["topology"] : r[1] = "solar_systems"}}

ScopeInit == Init /\ watch = NoWatch

\* Mutant: what the operator accepted is stored without another look.
StoredAsAccepted(found, accepted) == IF accepted = {} THEN found ELSE accepted

(***************************************************************************)
(* normalizeAcceptedSystemRadiusScope: systems that are not those of the   *)
(* present topology are rejected.  Without any, what was found is stored.  *)
(***************************************************************************)
Stored(found, accepted) == IF accepted = {} \/ accepted = found THEN found
                                                               ELSE Exceeds

Author(center, radius) ==
    /\ center \in Systems
    /\ LET found == Search(Gates, center, radius, {}, MaxSystems)
       IN  /\ found # Exceeds
           /\ \E accepted \in SUBSET Systems :
                 LET stored == Stored(found, accepted)
                 IN  /\ stored # Exceeds
                     /\ watch' = [center |-> center, radius |-> radius,
                                  included |-> stored]
    /\ UNCHANGED vars

ScopeNext ==
    \/ Next /\ UNCHANGED watch
    \/ \E center \in Centers, radius \in Radii : Author(center, radius)

ScopeSpec == ScopeInit /\ [][ScopeNext]_scopeVars

-----------------------------------------------------------------------------
(***************************************************************************)
(* The search is exact on every topology that is ever visible, for every   *)
(* radius, exclusion and limit: it neither loses systems that are reached  *)
(* on a second path nor trips its guard early.                             *)
(***************************************************************************)
SearchIsExact ==
    [][visible'["topology"] # visible["topology"] =>
          \A center \in Systems', radius \in Radii, excluded \in SUBSET Systems',
             limit \in 1..Cardinality(Systems') :
                SearchIsRight(Gates', center, radius, excluded, limit)]_scopeVars

(***************************************************************************)
(* A stored scope is the neighbourhood of its center in one build of the   *)
(* static data, whenever it was written: no import in progress, failed or  *)
(* overtaken, and no old preflight shows in it.                            *)
(***************************************************************************)
ScopeIsOfOneBuild ==
    watch # NoWatch =>
        \E s \in Sources :
            /\ Complete(s, "topology")
            /\ watch.included = Within(GatesOf(s), watch.center, watch.radius, {})
=============================================================================
