---------------------------- MODULE Readability ----------------------------
(***************************************************************************)
(* What the rest of the program may rely on while names are filled in:     *)
(* a name that is known stays known, though it may be replaced by a newer  *)
(* one; the label of a stored event is written once, and what is written   *)
(* is the name its ID has in the same moment.                              *)
(***************************************************************************)
CONSTANTS Ids, Names, NoName,
          Cells,     \* name columns of activity events
          IdOf(_)    \* the ID a column is the name of

VARIABLES names, events, labels

vars == <<names, events, labels>>

Init ==
    /\ names = [i \in Ids |-> NoName]
    /\ events = {}
    /\ labels = [c \in Cells |-> NoName]

KeepsNames == \A i \in Ids : names[i] # NoName => names'[i] # NoName
KeepsLabels == \A c \in Cells : labels[c] # NoName => labels'[c] = labels[c]
CopiesNames ==
    \A c \in Cells : labels'[c] # labels[c] =>
        c \in events /\ labels'[c] = names'[IdOf(c)]

Next ==
    /\ names' \in [Ids -> Names \cup {NoName}]
    /\ labels' \in [Cells -> Names \cup {NoName}]
    /\ events \subseteq events'
    /\ KeepsNames /\ KeepsLabels /\ CopiesNames

Spec == Init /\ [][Next]_vars
=============================================================================
