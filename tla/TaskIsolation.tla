--------------------------- MODULE TaskIsolation ---------------------------
(***************************************************************************)
(* What the task runner promises its callers: work is admitted under a set *)
(* of lock keys and, while it is inside, no other work holds one of its    *)
(* keys; work that holds the exclusive key is inside alone.                *)
(***************************************************************************)

CONSTANTS Workers,       \* identities of admitted pieces of work
          KeySets,       \* the sets of keys that work can ask for
          SoleKey        \* the key that excludes every other holder

VARIABLE inside          \* inside[w]: the keys w holds, {} when w is outside

Init == inside = [w \in Workers |-> {}]

(***************************************************************************)
(* Holding ks is compatible with what v holds.                             *)
(***************************************************************************)
Compatible(ks, v) ==
    inside[v] # {} => /\ SoleKey \notin ks \cup inside[v]
                      /\ ks \cap inside[v] = {}

Admit(w, ks) ==
    /\ inside[w] = {}
    /\ \A v \in Workers : Compatible(ks, v)
    /\ inside' = [inside EXCEPT ![w] = ks]

Leave(w) ==
    /\ inside[w] # {}
    /\ inside' = [inside EXCEPT ![w] = {}]

Next ==
    \E w \in Workers : \/ \E ks \in KeySets : Admit(w, ks)
                       \/ Leave(w)

Spec == Init /\ [][Next]_inside
=============================================================================
