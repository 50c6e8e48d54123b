---------------------------- MODULE PacedAccess ----------------------------
(***************************************************************************)
(* What a pacing gate promises, per target and within one process.         *)
(*                                                                         *)
(* A contact of a client that enters the gate is made only when the wait   *)
(* of its target is over, and starts a full new wait.  For some targets    *)
(* the gate also lets clients pass that only ask: they are let through     *)
(* only when the wait is over, but they may contact their target later,    *)
(* whatever the wait is by then, and start no wait.  A wait shrinks with   *)
(* time only, and a target that has to wait may be made to wait longer.    *)
(***************************************************************************)
EXTENDS Integers

CONSTANTS Clients,    \* those who contact the provider
          Targets,
          OpenTargets,\* those that may be contacted without entering
          NoTarget,   \* a client that contacts nobody
          Pace,       \* Pace[t]: the wait a contact of t starts
          Penalty     \* the least wait of a penalised target

VARIABLES wait,       \* wait[t]: time until t may be contacted again
          pass,       \* pass[c]: the target c was let through to
          at          \* at[c]: the target c is in contact with

vars == <<wait, pass, at>>

Init ==
    /\ wait = [t \in Targets |-> 0]
    /\ pass = [c \in Clients |-> NoTarget]
    /\ at = [c \in Clients |-> NoTarget]

Free(c) == pass[c] = NoTarget /\ at[c] = NoTarget

Contact(c, t) ==
    /\ Free(c)
    /\ wait[t] = 0
    /\ at' = [at EXCEPT ![c] = t]
    /\ wait' = [wait EXCEPT ![t] = Pace[t]]
    /\ UNCHANGED pass

LetThrough(c, t) ==
    /\ Free(c)
    /\ wait[t] = 0
    /\ pass' = [pass EXCEPT ![c] = t]
    /\ UNCHANGED <<wait, at>>

UsePass(c) ==
    /\ pass[c] # NoTarget
    /\ at' = [at EXCEPT ![c] = pass[c]]
    /\ pass' = [pass EXCEPT ![c] = NoTarget]
    /\ UNCHANGED wait

Leave(c) ==
    /\ ~Free(c)
    /\ at' = [at EXCEPT ![c] = NoTarget]
    /\ pass' = [pass EXCEPT ![c] = NoTarget]
    /\ UNCHANGED wait

Penalise(t) ==
    /\ wait[t] > 0
    /\ wait' = [wait EXCEPT ![t] = IF @ < Penalty THEN Penalty ELSE @]
    /\ UNCHANGED <<pass, at>>

TimePasses ==
    /\ wait' = [t \in Targets |-> IF wait[t] = 0 THEN 0 ELSE wait[t] - 1]
    /\ UNCHANGED <<pass, at>>

\* The waits are kept in memory only.
Restart ==
    /\ wait' = [t \in Targets |-> 0]
    /\ pass' = [c \in Clients |-> NoTarget]
    /\ at' = [c \in Clients |-> NoTarget]

Next ==
    \/ \E c \in Clients, t \in Targets : Contact(c, t)
    \/ \E c \in Clients, t \in OpenTargets : LetThrough(c, t)
    \/ \E c \in Clients : UsePass(c) \/ Leave(c)
    \/ \E t \in Targets : Penalise(t)
    \/ TimePasses
    \/ Restart

Spec == Init /\ [][Next]_vars
=============================================================================
