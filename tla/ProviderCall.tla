---------------------------- MODULE ProviderCall ----------------------------
(***************************************************************************)
(* What a caller of the HTTP client is promised: a call that is opened is  *)
(* settled once; until then the provider is contacted at most MaxAttempts  *)
(* times, and never after the caller asked to stop.                        *)
(***************************************************************************)
EXTENDS Naturals

CONSTANT MaxAttempts

VARIABLES status,     \* of the latest call: none, open or settled
          contacts,   \* requests sent to the provider for it
          stopped     \* the caller asked to stop

vars == <<status, contacts, stopped>>

Init ==
    /\ status = "none"
    /\ contacts = 0
    /\ stopped = FALSE

Open ==
    /\ status # "open" /\ ~stopped
    /\ status' = "open"
    /\ contacts' = 1
    /\ UNCHANGED stopped

\* A call that begins after the stop is settled without a contact.
Refuse ==
    /\ status # "open" /\ stopped
    /\ status' = "settled"
    /\ contacts' = 0
    /\ UNCHANGED stopped

Contact ==
    /\ status = "open" /\ ~stopped
    /\ contacts < MaxAttempts
    /\ contacts' = contacts + 1
    /\ UNCHANGED <<status, stopped>>

Settle ==
    /\ status = "open"
    /\ status' = "settled"
    /\ UNCHANGED <<contacts, stopped>>

Stop ==
    /\ stopped' = TRUE
    /\ status' = IF status = "open" THEN "settled" ELSE status
    /\ UNCHANGED contacts

Next == Open \/ Refuse \/ Contact \/ Settle \/ Stop

Spec == Init /\ [][Next]_vars
=============================================================================
