---------------------------- MODULE SdeSnapshot ----------------------------
(***************************************************************************)
(* What readers of the SDE lookup tables may rely on: of either kind of    *)
(* table they always see all rows of one complete source, the one that     *)
(* the latest manifest row names, or the empty tables of a new database.   *)
(***************************************************************************)
CONSTANTS Sources, Kinds,
          Complete(_, _),   \* this source has rows for every table of a kind
          Nothing           \* the source of empty tables

VARIABLE shown

Init == shown = [k \in Kinds |-> Nothing]

Replace(k, s) ==
    /\ Complete(s, k)
    /\ shown' = [shown EXCEPT ![k] = s]

Next == \E k \in Kinds, s \in Sources : Replace(k, s)

Spec == Init /\ [][Next]_shown
=============================================================================
