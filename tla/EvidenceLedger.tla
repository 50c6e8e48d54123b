--------------------------- MODULE EvidenceLedger ---------------------------
(***************************************************************************)
(* What evidence collection promises, whatever runs, retries, crashes or   *)
(* failures make of it: expanded killmails are written once and kept, and  *)
(* a queue ref is closed only for a killmail that is written.              *)
(* Collection implements it.                                               *)
(***************************************************************************)
CONSTANTS Killmails, Hashes, Bodies, Scopes, NoContent

Ref == [killmail : Killmails, hash : Hashes, scope : Scopes]
Content == [killmail : Killmails, hash : Hashes, body : Bodies]

VARIABLES evidence,   \* killmail -> what is stored of it
          status      \* queue ref -> its status

ledgerVars == <<evidence, status>>

Written(k) == evidence[k] # NoContent

Init ==
    /\ evidence = [k \in Killmails |-> NoContent]
    /\ status = [ref \in Ref |-> "none"]

(***************************************************************************)
(* Any number of killmails that were not written are, at once.             *)
(***************************************************************************)
Land ==
    /\ evidence' \in [Killmails -> Content \cup {NoContent}]
    /\ \A k \in Killmails :
          /\ Written(k) => evidence'[k] = evidence[k]
          /\ evidence'[k] # NoContent => evidence'[k].killmail = k
    /\ UNCHANGED status

Becomes(ref, new) ==
    /\ status' = [status EXCEPT ![ref] = new]
    /\ UNCHANGED evidence

Discover(ref) == status[ref] = "none" /\ Becomes(ref, "pending")

Close(ref) ==
    /\ Written(ref.killmail)
    /\ \/ Becomes(ref, "cached") /\ status[ref] # "expanded"
       \/ Becomes(ref, "expanded") /\ status[ref] # "none"

Fail(ref) == status[ref] # "none" /\ Becomes(ref, "failed")

Next == Land \/ \E ref \in Ref : Discover(ref) \/ Close(ref) \/ Fail(ref)

Spec == Init /\ [][Next]_ledgerVars
=============================================================================
