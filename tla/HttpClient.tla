----------------------------- MODULE HttpClient -----------------------------
(***************************************************************************)
(* api/httpClient.js: the client of one command.  It serves one request    *)
(* after the other; each is a loop of attempts, and every attempt has an   *)
(* abort controller of its own that listens to the signal of the task and  *)
(* to a timer.  The timer goes on while the client waits before the next   *)
(* attempt.                                                                *)
(*                                                                         *)
(* The event loop serves a timer when it is due: time does not pass beyond *)
(* it.  What follows a settled promise (catch, finally, the next turn of   *)
(* the loop) runs before anything else and is part of the action.          *)
(***************************************************************************)
EXTENDS Integers

CONSTANTS MaxAttempts,   \* maxAttempts
          TimeLimit,     \* timeoutMs
          RetryBase, RetryCap,   \* of retryDelay without Retry-After
          ErrorBase,     \* of the wait after a network error
          RetryAfters    \* values of Retry-After; 0: none, or not a number

ASSUME HttpClientAssumption ==
    /\ MaxAttempts \in Nat \ {0}
    /\ TimeLimit \in Nat \ {0}
    /\ RetryBase \in Nat /\ RetryCap \in Nat /\ ErrorBase \in Nat
    /\ RetryAfters \subseteq Nat

VARIABLES phase,      \* where json() is
          attempt,    \* its loop variable
          timer,      \* time until the attempt's time limit
          wait,       \* time until the delay before the next attempt ends
          aborted,    \* the signal of the task
          listeners,  \* abort listeners the client has on that signal
          outcome,    \* how the latest request was settled
          logs,       \* rows of api_request_logs for it
          contacts,   \* calls of fetch that reached the provider
          spent       \* time since json() was called

vars == <<phase, attempt, timer, wait, aborted, listeners, outcome, logs,
          contacts, spent>>

\* "retrying" is the delay inside the try block, "recovering" the one in
\* its catch clause.
Contacting == {"fetching", "reading"}
Waiting    == {"retrying", "recovering"}
Open       == Contacting \cup Waiting
Attempts   == 0..(MaxAttempts - 1)
Outcomes   == {"none", "data", "status", "invalid", "network", "timeout",
               "cancelled"}

TypeOK ==
    /\ phase \in Open \cup {"idle", "settled"}
    /\ attempt \in Attempts
    /\ timer \in 0..TimeLimit
    /\ wait \in Nat
    /\ aborted \in BOOLEAN
    /\ listeners \in Nat
    /\ outcome \in Outcomes
    /\ logs \in Nat
    /\ contacts \in 0..MaxAttempts
    /\ spent \in Nat

Init ==
    /\ phase = "idle"
    /\ attempt = 0 /\ timer = 0 /\ wait = 0
    /\ aborted = FALSE
    /\ listeners = 0
    /\ outcome = "none"
    /\ logs = 0 /\ contacts = 0 /\ spent = 0

-----------------------------------------------------------------------------
(* The delays before another attempt.                                      *)

RetryDelay(retryAfter, n) ==
    IF retryAfter > 0 THEN retryAfter
    ELSE IF RetryBase * (n + 1) * (n + 1) < RetryCap
         THEN RetryBase * (n + 1) * (n + 1) ELSE RetryCap

ErrorDelay(n) == ErrorBase * (n + 1)

\* Mutant: there is one attempt more than maxAttempts says.
MayRetryOnceMore == attempt < MaxAttempts

MayRetry == attempt < MaxAttempts - 1

-----------------------------------------------------------------------------
(***************************************************************************)
(* One turn of the loop up to its await.  With an aborted signal fetch     *)
(* rejects at once: the request is settled, and logged, without a contact. *)
(* combinedSignal adds its listener, cleanup() of the turn before has      *)
(* removed the last one.                                                   *)
(***************************************************************************)
\* Mutant: the signal is not looked at before an attempt.
TryDeaf(n, sent, held, written, elapsed) ==
    /\ attempt' = n /\ spent' = elapsed /\ wait' = 0
    /\ phase' = "fetching" /\ timer' = TimeLimit
    /\ listeners' = held + 1 /\ contacts' = sent + 1
    /\ outcome' = "none" /\ logs' = written

Try(n, sent, held, written, elapsed) ==
    /\ attempt' = n /\ spent' = elapsed /\ wait' = 0
    /\ IF aborted
       THEN /\ phase' = "settled" /\ outcome' = "cancelled"
            /\ logs' = written + 1 /\ timer' = 0
            /\ listeners' = held /\ contacts' = sent
       ELSE /\ phase' = "fetching" /\ timer' = TimeLimit
            /\ listeners' = held + 1 /\ contacts' = sent + 1
            /\ outcome' = "none" /\ logs' = written

(***************************************************************************)
(* json() returns or throws.  The finally clause cleans up: the timer is   *)
(* cleared and the listener removed.                                       *)
(***************************************************************************)
\* Mutant: a settled request keeps its listener.
SettleListening(how, rows) ==
    /\ phase' = "settled" /\ outcome' = how
    /\ logs' = logs + rows
    /\ timer' = 0 /\ wait' = 0
    /\ UNCHANGED <<attempt, contacts, spent, listeners>>

Settle(how, rows) ==
    /\ phase' = "settled" /\ outcome' = how
    /\ logs' = logs + rows
    /\ timer' = 0 /\ wait' = 0 /\ listeners' = listeners - 1
    /\ UNCHANGED <<attempt, contacts, spent>>

Delay(where, time) ==
    /\ phase' = where
    /\ wait' = time
    /\ UNCHANGED <<attempt, timer, listeners, outcome, logs, contacts, spent>>

-----------------------------------------------------------------------------
\* A client method calls json().
Begin ==
    /\ phase \notin Open
    /\ Try(0, 0, listeners, 0, 0)
    /\ UNCHANGED aborted

\* The headers of a good answer arrive; its body is awaited.
AnswerOk ==
    /\ phase = "fetching"
    /\ phase' = "reading"
    /\ UNCHANGED <<attempt, timer, wait, aborted, listeners, outcome, logs,
                   contacts, spent>>

BodyRead ==
    /\ phase = "reading"
    /\ \/ Settle("data", 1)
       \/ Settle("invalid", 1)
    /\ UNCHANGED aborted

\* 420, 429 or 503 with an attempt left.
AnswerRetry ==
    /\ phase = "fetching" /\ MayRetry
    /\ \E retryAfter \in RetryAfters :
          Delay("retrying", RetryDelay(retryAfter, attempt))
    /\ UNCHANGED aborted

\* Mutant: the error of a bad status is logged where it is caught as well.
StatusRowsTwice == 2

\* The row of a bad status; the error is marked as logged.
StatusRows == 1

\* Any other status, or one of these three on the last attempt.
AnswerBad ==
    /\ phase = "fetching"
    /\ Settle("status", StatusRows)
    /\ UNCHANGED aborted

\* The connection fails, before the answer or in its body.
NetworkError ==
    /\ phase \in Contacting
    /\ IF MayRetry THEN Delay("recovering", ErrorDelay(attempt))
                   ELSE Settle("network", 1)
    /\ UNCHANGED aborted

\* A delay is over: cleanup() and the next turn.
WaitOver ==
    /\ phase \in Waiting
    /\ wait = 0
    /\ Try(attempt + 1, contacts, listeners - 1, logs, spent)
    /\ UNCHANGED aborted

(***************************************************************************)
(* The controller of the attempt is aborted, by its timer or by the task.  *)
(* In the try block the catch clause gives the error its name and logs it. *)
(* In the delay of the catch clause nobody does: the HTTP_CANCELLED of     *)
(* delay() leaves json() as it is, whoever aborted.                        *)
(***************************************************************************)
Interrupt(how) ==
    IF phase = "recovering" THEN Settle("cancelled", 0) ELSE Settle(how, 1)

\* Mutant: the time limit ends with the headers, not with the body.
TimerFiresBeforeHeaders ==
    /\ phase \in Open \ {"reading"}
    /\ timer = 0
    /\ Interrupt("timeout")
    /\ UNCHANGED aborted

TimerFires ==
    /\ phase \in Open
    /\ timer = 0
    /\ Interrupt("timeout")
    /\ UNCHANGED aborted

\* cancelTask aborts the signal of the task.
Abort ==
    /\ ~aborted
    /\ aborted' = TRUE
    /\ IF phase \in Open THEN Interrupt("cancelled")
       ELSE UNCHANGED <<phase, attempt, timer, wait, listeners, outcome, logs,
                        contacts, spent>>

\* Mutant: the timer stands still while the client waits.
TimerLeftUnlessWaiting == IF phase \in Waiting THEN timer ELSE timer - 1

TimerLeft == timer - 1

Tick ==
    /\ phase \in Open
    /\ timer > 0
    /\ phase \in Waiting => wait > 0
    /\ timer' = TimerLeft
    /\ wait' = IF phase \in Waiting THEN wait - 1 ELSE wait
    /\ spent' = spent + 1
    /\ UNCHANGED <<phase, attempt, aborted, listeners, outcome, logs, contacts>>

Next ==
    \/ Begin \/ AnswerOk \/ BodyRead \/ AnswerRetry \/ AnswerBad
    \/ NetworkError \/ WaitOver \/ TimerFires \/ Abort \/ Tick

Spec == Init /\ [][Next]_vars

\* Timers are served; of the provider nothing is assumed.
FairSpec == Spec /\ WF_vars(Tick) /\ WF_vars(TimerFires) /\ WF_vars(WaitOver)

-----------------------------------------------------------------------------
(* Properties.                                                             *)

(***************************************************************************)
(* The waits between attempts cost no extra time: a request takes at most  *)
(* as long as its attempts may take, whatever Retry-After says.            *)
(***************************************************************************)
TimeBounded == spent <= MaxAttempts * TimeLimit

(***************************************************************************)
(* A settled request has one row in api_request_logs, except that one cut  *)
(* short in the delay after a network error has none.  Nothing is logged   *)
(* twice, though errors pass two places that log.                          *)
(***************************************************************************)
LoggedOnce ==
    /\ logs <= 1
    /\ (phase = "settled" /\ logs = 0) => outcome = "cancelled"

(***************************************************************************)
(* Between requests nothing of the client is left on the task's signal,    *)
(* which lives longer than the request; during one there is one listener   *)
(* however many attempts were made.                                        *)
(***************************************************************************)
ListenersBalanced == listeners = IF phase \in Open THEN 1 ELSE 0

(***************************************************************************)
(* The promise of ProviderCall: bounded contacts, settled once, and no     *)
(* contact once the task is cancelled.                                     *)
(***************************************************************************)
Promise == INSTANCE ProviderCall WITH
    status <- IF phase \in Open THEN "open"
              ELSE IF phase = "settled" THEN "settled" ELSE "none",
    stopped <- aborted

ImplementsPromise == Promise!Spec

(***************************************************************************)
(* Every request is settled, even by a provider that never answers or      *)
(* always asks to come back: the client does not retry for ever.           *)
(***************************************************************************)
AlwaysSettles == [](phase \in Open => <>(phase = "settled"))

(***************************************************************************)
(* http-timeouts-and-cancellation.md: "Request timeout produces            *)
(* HTTP_TIMEOUT", "Abort/cancellation produces HTTP_CANCELLED".  So a      *)
(* request that ends as cancelled was cancelled by somebody.               *)
(***************************************************************************)
CancelledWasAsked == outcome = "cancelled" => aborted
=============================================================================
