-------------------------- MODULE HttpClientProofs --------------------------
(***************************************************************************)
(* The HTTP client for any number of attempts, any time limit and any      *)
(* delays a provider asks for.                                             *)
(***************************************************************************)
EXTENDS HttpClient, TLAPS

(***************************************************************************)
(* What each open request keeps up: it has used at most the time limits of *)
(* the attempts it made, less what the timer of the present one has left.  *)
(***************************************************************************)
Within(n) == spent + timer <= (n + 1) * TimeLimit

OpenRequest ==
    phase \in Open =>
        /\ ~aborted
        /\ logs = 0 /\ outcome = "none"
        /\ contacts = attempt + 1
        /\ Within(attempt)

\* Only a request with an attempt left waits for it.
WaitingForOne == phase \in Waiting => attempt + 1 \in Attempts

IInv ==
    /\ TypeOK
    /\ ListenersBalanced
    /\ LoggedOnce
    /\ TimeBounded
    /\ OpenRequest
    /\ WaitingForOne

USE HttpClientAssumption

\* Multiplication by a time limit is monotone.
LEMMA TimesMonotone ==
    ASSUME NEW a \in Int, NEW b \in Int, NEW c \in Nat, a <= b
    PROVE  a * c <= b * c
  OBVIOUS

\* What an open request has spent is within the bound of the whole request.
LEMMA SpentWithin ==
    ASSUME NEW n \in Attempts, NEW s \in Nat, NEW t \in Nat,
           s + t <= (n + 1) * TimeLimit
    PROVE  s <= MaxAttempts * TimeLimit
  <1>1. (n + 1) * TimeLimit <= MaxAttempts * TimeLimit
    BY TimesMonotone DEF Attempts
  <1>2. (n + 1) * TimeLimit \in Int /\ MaxAttempts * TimeLimit \in Int
    BY DEF Attempts
  <1> QED BY <1>1, <1>2

LEMMA InitIInv == Init => IInv
  <1> SUFFICES ASSUME Init PROVE IInv
    OBVIOUS
  <1>1. TypeOK
    <2>1. 0 \in Attempts /\ 0 \in 0..TimeLimit /\ 0 \in 0..MaxAttempts
      BY DEF Attempts
    <2>2. "none" \in Outcomes
      BY DEF Outcomes
    <2> QED BY <2>1, <2>2 DEF Init, TypeOK
  <1>2. TimeBounded
    <2>1. 0 * TimeLimit <= MaxAttempts * TimeLimit
      BY TimesMonotone
    <2> QED BY <2>1 DEF Init, TimeBounded
  <1>3. phase \notin Open
    BY DEF Init, Open, Contacting, Waiting
  <1>4. ListenersBalanced /\ LoggedOnce /\ OpenRequest
    BY <1>3 DEF Init, ListenersBalanced, LoggedOnce, OpenRequest
  <1>5. WaitingForOne
    BY DEF Init, WaitingForOne, Waiting
  <1> QED BY <1>1, <1>2, <1>4, <1>5 DEF IInv

-----------------------------------------------------------------------------
(* The three ways an action changes a request.                             *)

\* Delays are natural numbers.
LEMMA DelaysAreTimes ==
    ASSUME TypeOK
    PROVE  /\ \A r \in RetryAfters : RetryDelay(r, attempt) \in Nat
           /\ ErrorDelay(attempt) \in Nat
  <1>1. attempt + 1 \in Nat
    BY DEF TypeOK, Attempts
  <1>2. \A a, b \in Nat : a * b \in Nat
    OBVIOUS
  <1>3. RetryBase * (attempt + 1) \in Nat
    BY <1>1, <1>2
  <1>4. RetryBase * (attempt + 1) * (attempt + 1) \in Nat
    BY <1>1, <1>2, <1>3
  <1>5. ErrorBase * (attempt + 1) \in Nat
    BY <1>1, <1>2
  <1> QED BY <1>4, <1>5 DEF RetryDelay, ErrorDelay

\* A request that is settled, in whichever way.
LEMMA SettlePreserves ==
    ASSUME IInv, phase \in Open, aborted' \in BOOLEAN,
           NEW how \in Outcomes, NEW rows \in {0, 1}, Settle(how, rows),
           rows = 0 => how = "cancelled"
    PROVE  IInv'
  <1> USE DEF IInv, Settle
  <1>1. phase' \notin Open /\ phase' \notin Waiting
    BY DEF Open, Contacting, Waiting
  <1>2. listeners = 1 /\ logs = 0
    BY DEF ListenersBalanced, OpenRequest
  <1>3. TypeOK'
    BY <1>2 DEF TypeOK
  <1>4. ListenersBalanced'
    BY <1>1, <1>2 DEF ListenersBalanced
  <1>5. LoggedOnce'
    BY <1>2 DEF LoggedOnce
  <1>6. TimeBounded'
    BY DEF TimeBounded
  <1>7. OpenRequest' /\ WaitingForOne'
    BY <1>1 DEF OpenRequest, WaitingForOne
  <1> QED BY <1>3, <1>4, <1>5, <1>6, <1>7

\* An attempt that ends with a delay before the next one.
LEMMA DelayPreserves ==
    ASSUME IInv, phase \in Contacting, MayRetry, UNCHANGED aborted,
           NEW where \in Waiting, NEW time \in Nat, Delay(where, time)
    PROVE  IInv'
  <1> USE DEF IInv, Delay
  <1>1. phase \in Open /\ phase' \in Open /\ phase' # "settled"
    BY DEF Open, Contacting, Waiting
  <1>2. TypeOK'
    BY <1>1 DEF TypeOK
  <1>3. ListenersBalanced' /\ LoggedOnce' /\ TimeBounded'
    BY <1>1 DEF ListenersBalanced, LoggedOnce, TimeBounded
  <1>4. OpenRequest'
    BY <1>1 DEF OpenRequest, Within
  <1>5. WaitingForOne'
    BY DEF WaitingForOne, MayRetry, TypeOK, Attempts
  <1> QED BY <1>2, <1>3, <1>4, <1>5

\* A turn of the loop: n attempts were made, of which the time is spent.
LEMMA TryPreserves ==
    ASSUME IInv, UNCHANGED aborted,
           NEW n \in Attempts, NEW elapsed \in Nat,
           elapsed <= n * TimeLimit,
           Try(n, n, 0, 0, elapsed)
    PROVE  IInv'
  <1> USE DEF IInv, Try
  <1>1. phase' = "settled" \/ phase' = "fetching"
    OBVIOUS
  <1>2. TypeOK'
    BY DEF TypeOK, Attempts, Open, Contacting, Outcomes
  <1>3. n * TimeLimit <= MaxAttempts * TimeLimit
    BY TimesMonotone DEF Attempts
  <1>4. n * TimeLimit \in Int /\ MaxAttempts * TimeLimit \in Int
    BY DEF Attempts
  <1>5. TimeBounded'
    BY <1>3, <1>4 DEF TimeBounded
  <1>6. ListenersBalanced' /\ LoggedOnce'
    BY DEF ListenersBalanced, LoggedOnce, Open, Contacting, Waiting
  <1>7. OpenRequest'
    <2> SUFFICES ASSUME phase' \in Open PROVE OpenRequest'
      BY DEF OpenRequest
    <2>1. phase' = "fetching" /\ ~aborted
      BY DEF Open, Contacting, Waiting
    <2>2. (n + 1) * TimeLimit = n * TimeLimit + TimeLimit
      BY DEF Attempts
    <2>3. Within(attempt)'
      BY <2>1, <2>2, <1>4 DEF Within
    <2> QED BY <2>1, <2>3 DEF OpenRequest
  <1>8. WaitingForOne'
    BY <1>1 DEF WaitingForOne, Waiting
  <1> QED BY <1>2, <1>5, <1>6, <1>7, <1>8

-----------------------------------------------------------------------------
LEMMA NextIInv == IInv /\ [Next]_vars => IInv'
  <1> SUFFICES ASSUME IInv, [Next]_vars PROVE IInv'
    OBVIOUS
  <1>1. CASE Begin
    <2>1. listeners = 0
      BY <1>1 DEF Begin, IInv, ListenersBalanced
    <2>2. 0 \in Attempts /\ 0 <= 0 * TimeLimit
      BY DEF Attempts
    <2>3. Try(0, 0, 0, 0, 0) /\ UNCHANGED aborted
      BY <1>1, <2>1 DEF Begin
    <2> QED BY <2>2, <2>3, TryPreserves
  <1>2. CASE AnswerOk
    <2>1. phase \in Open /\ phase' = "reading" /\ phase' \in Open
      BY <1>2 DEF AnswerOk, Open, Contacting, Waiting
    <2>2. TypeOK'
      BY <1>2, <2>1 DEF AnswerOk, IInv, TypeOK
    <2>3. ListenersBalanced' /\ LoggedOnce' /\ TimeBounded'
      BY <1>2, <2>1 DEF AnswerOk, IInv, ListenersBalanced, LoggedOnce,
            TimeBounded
    <2>4. OpenRequest'
      BY <1>2, <2>1 DEF AnswerOk, IInv, OpenRequest, Within
    <2>5. WaitingForOne'
      BY <2>1 DEF WaitingForOne, Waiting
    <2> QED BY <2>2, <2>3, <2>4, <2>5 DEF IInv
  <1>3. CASE BodyRead
    <2>1. phase \in Open /\ aborted' \in BOOLEAN
      BY <1>3 DEF BodyRead, Open, Contacting, IInv, TypeOK
    <2>2. \E how \in {"data", "invalid"} : Settle(how, 1)
      BY <1>3 DEF BodyRead
    <2> QED BY <2>1, <2>2, SettlePreserves DEF Outcomes
  <1>4. CASE AnswerRetry
    <2>1. phase \in Contacting /\ MayRetry /\ UNCHANGED aborted
      BY <1>4 DEF AnswerRetry, Contacting
    <2>2. PICK r \in RetryAfters : Delay("retrying", RetryDelay(r, attempt))
      BY <1>4 DEF AnswerRetry
    <2>3. RetryDelay(r, attempt) \in Nat
      BY DelaysAreTimes DEF IInv
    <2> QED BY <2>1, <2>2, <2>3, DelayPreserves DEF Waiting
  <1>5. CASE AnswerBad
    <2>1. phase \in Open /\ aborted' \in BOOLEAN
      BY <1>5 DEF AnswerBad, Open, Contacting, IInv, TypeOK
    <2> QED BY <1>5, <2>1, SettlePreserves DEF AnswerBad, StatusRows, Outcomes
  <1>6. CASE NetworkError
    <2>1. phase \in Contacting /\ phase \in Open /\ UNCHANGED aborted
      BY <1>6 DEF NetworkError, Open
    <2>2. CASE MayRetry
      <3>1. Delay("recovering", ErrorDelay(attempt))
        BY <1>6, <2>2 DEF NetworkError
      <3>2. ErrorDelay(attempt) \in Nat
        BY DelaysAreTimes DEF IInv
      <3> QED BY <2>1, <2>2, <3>1, <3>2, DelayPreserves DEF Waiting
    <2>3. CASE ~MayRetry
      <3>1. Settle("network", 1) /\ aborted' \in BOOLEAN
        BY <1>6, <2>1, <2>3 DEF NetworkError, IInv, TypeOK
      <3> QED BY <2>1, <3>1, SettlePreserves DEF Outcomes
    <2> QED BY <2>2, <2>3
  <1>7. CASE WaitOver
    <2>1. phase \in Open /\ UNCHANGED aborted
      BY <1>7 DEF WaitOver, Open
    <2>2. listeners = 1 /\ logs = 0 /\ contacts = attempt + 1
      BY <2>1 DEF IInv, ListenersBalanced, OpenRequest
    <2>3. Try(attempt + 1, attempt + 1, 0, 0, spent)
      BY <1>7, <2>2 DEF WaitOver
    <2>4. attempt + 1 \in Attempts
      BY <1>7 DEF WaitOver, IInv, WaitingForOne
    <2>5. spent \in Nat /\ spent <= (attempt + 1) * TimeLimit
      BY <2>1 DEF IInv, OpenRequest, Within, TypeOK, Attempts
    <2> QED BY <2>1, <2>3, <2>4, <2>5, TryPreserves
  <1>8. CASE TimerFires
    <2>1. phase \in Open /\ aborted' \in BOOLEAN
      BY <1>8 DEF TimerFires, IInv, TypeOK
    <2>2. Settle("cancelled", 0) \/ Settle("timeout", 1)
      BY <1>8 DEF TimerFires, Interrupt
    <2> QED BY <2>1, <2>2, SettlePreserves DEF Outcomes
  <1>9. CASE Abort
    <2>1. aborted' \in BOOLEAN
      BY <1>9 DEF Abort
    <2>2. CASE phase \in Open
      <3>1. Settle("cancelled", 0) \/ Settle("cancelled", 1)
        BY <1>9, <2>2 DEF Abort, Interrupt
      <3> QED BY <2>1, <2>2, <3>1, SettlePreserves DEF Outcomes
    <2>3. CASE phase \notin Open
      <3>1. UNCHANGED <<phase, attempt, timer, wait, listeners, outcome, logs,
                        contacts, spent>>
        BY <1>9, <2>3 DEF Abort
      <3> QED BY <2>1, <2>3, <3>1 DEF IInv, TypeOK, ListenersBalanced,
            LoggedOnce, TimeBounded, OpenRequest, WaitingForOne
    <2> QED BY <2>2, <2>3
  <1>10. CASE Tick
    <2>1. phase \in Open /\ phase' = phase
      BY <1>10 DEF Tick
    <2>2. TypeOK'
      BY <1>10 DEF Tick, TimerLeft, IInv, TypeOK
    <2>3. ListenersBalanced' /\ LoggedOnce' /\ WaitingForOne'
      BY <1>10 DEF Tick, IInv, ListenersBalanced, LoggedOnce, WaitingForOne
    <2>4. (attempt + 1) * TimeLimit \in Int
      BY DEF IInv, TypeOK, Attempts
    <2>5. OpenRequest'
      <3>1. Within(attempt)'
        BY <1>10, <2>1, <2>4 DEF Tick, TimerLeft, IInv, OpenRequest, Within,
              TypeOK
      <3> QED BY <1>10, <2>1, <3>1 DEF Tick, IInv, OpenRequest
    <2>6. TimeBounded'
      <3>1. spent' + timer' <= (attempt' + 1) * TimeLimit
        BY <2>1, <2>5 DEF OpenRequest, Within
      <3>2. attempt' \in Attempts /\ spent' \in Nat /\ timer' \in Nat
        BY <2>2 DEF TypeOK
      <3> QED BY <3>1, <3>2, SpentWithin DEF TimeBounded
    <2> QED BY <2>2, <2>3, <2>5, <2>6 DEF IInv
  <1>11. CASE UNCHANGED vars
    BY <1>11 DEF vars, IInv, TypeOK, ListenersBalanced, LoggedOnce,
          TimeBounded, OpenRequest, WaitingForOne, Within
  <1> QED BY <1>1, <1>2, <1>3, <1>4, <1>5, <1>6, <1>7, <1>8, <1>9, <1>10,
        <1>11 DEF Next

LEMMA SpecIInv == Spec => []IInv
  BY InitIInv, NextIInv, PTL DEF Spec

(***************************************************************************)
(* Every state of the client is well formed; in particular no more         *)
(* attempts are made than maxAttempts allows.                              *)
(***************************************************************************)
THEOREM ClientTypesCorrect == Spec => []TypeOK
  BY SpecIInv, PTL DEF IInv

(***************************************************************************)
(* json() takes at most maxAttempts time limits, whatever a provider       *)
(* answers and asks for.                                                   *)
(***************************************************************************)
THEOREM RequestsAreTimeBounded == Spec => []TimeBounded
  BY SpecIInv, PTL DEF IInv

(***************************************************************************)
(* No request is logged twice, and only a cancelled one may have no row.   *)
(***************************************************************************)
THEOREM RequestsAreLoggedOnce == Spec => []LoggedOnce
  BY SpecIInv, PTL DEF IInv

(***************************************************************************)
(* The client leaves no listener on the signal of the task.                *)
(***************************************************************************)
THEOREM NoListenerIsLeft == Spec => []ListenersBalanced
  BY SpecIInv, PTL DEF IInv

-----------------------------------------------------------------------------
(* Refinement of ProviderCall.                                             *)

LEMMA InitPromise == Init => Promise!Init
  BY DEF Init, Promise!Init, Open, Contacting, Waiting

\* A request that is settled without a stop, or by it.
LEMMA SettleStep ==
    ASSUME phase \in Open, NEW how, NEW rows, Settle(how, rows)
    PROVE  /\ UNCHANGED aborted => Promise!Settle
           /\ aborted' = TRUE => Promise!Stop
  BY DEF Settle, Promise!Settle, Promise!Stop, Open, Contacting, Waiting

\* An attempt that goes on keeps the call open.
LEMMA DelayStep ==
    ASSUME phase \in Contacting, UNCHANGED aborted,
           NEW where \in Waiting, NEW time, Delay(where, time)
    PROVE  UNCHANGED Promise!vars
  BY DEF Delay, Promise!vars, Open, Contacting, Waiting

LEMMA NextPromise == IInv /\ [Next]_vars => [Promise!Next]_Promise!vars
  <1> SUFFICES ASSUME IInv, [Next]_vars PROVE Promise!Next \/ UNCHANGED Promise!vars
    OBVIOUS
  <1>1. CASE Begin
    <2>1. phase \notin Open /\ Try(0, 0, listeners, 0, 0) /\ UNCHANGED aborted
      BY <1>1 DEF Begin
    <2>2. CASE aborted
      <3>1. Promise!Refuse
        BY <2>1, <2>2 DEF Try, Promise!Refuse, Open, Contacting, Waiting, IInv,
              TypeOK
      <3> QED BY <3>1 DEF Promise!Next
    <2>3. CASE ~aborted
      <3>1. Promise!Open
        BY <2>1, <2>3 DEF Try, Promise!Open, Open, Contacting, Waiting
      <3> QED BY <3>1 DEF Promise!Next
    <2> QED BY <2>2, <2>3
  <1>2. CASE AnswerOk
    BY <1>2 DEF AnswerOk, Promise!vars, Open, Contacting, Waiting
  <1>3. CASE BodyRead
    <2>1. phase \in Open /\ UNCHANGED aborted
      BY <1>3 DEF BodyRead, Open, Contacting
    <2>2. \E how \in {"data", "invalid"} : Settle(how, 1)
      BY <1>3 DEF BodyRead
    <2> QED BY <2>1, <2>2, SettleStep DEF Promise!Next
  <1>4. CASE AnswerRetry
    <2>1. phase \in Contacting /\ UNCHANGED aborted
      BY <1>4 DEF AnswerRetry, Contacting
    <2>2. PICK r \in RetryAfters : Delay("retrying", RetryDelay(r, attempt))
      BY <1>4 DEF AnswerRetry
    <2> QED BY <2>1, <2>2, DelayStep DEF Waiting
  <1>5. CASE AnswerBad
    <2>1. phase \in Open /\ UNCHANGED aborted /\ Settle("status", StatusRows)
      BY <1>5 DEF AnswerBad, Open, Contacting
    <2> QED BY <2>1, SettleStep DEF Promise!Next
  <1>6. CASE NetworkError
    <2>1. phase \in Contacting /\ phase \in Open /\ UNCHANGED aborted
      BY <1>6 DEF NetworkError, Open
    <2>2. CASE Delay("recovering", ErrorDelay(attempt))
      BY <2>1, <2>2, DelayStep DEF Waiting
    <2>3. CASE Settle("network", 1)
      BY <2>1, <2>3, SettleStep DEF Promise!Next
    <2> QED BY <1>6, <2>2, <2>3 DEF NetworkError
  <1>7. CASE WaitOver
    <2>1. phase \in Open /\ ~aborted /\ UNCHANGED aborted
      BY <1>7 DEF WaitOver, Open, IInv, OpenRequest
    <2>2. contacts < MaxAttempts
      <3>1. attempt + 1 \in Attempts /\ contacts = attempt + 1
        BY <1>7, <2>1 DEF WaitOver, IInv, WaitingForOne, OpenRequest
      <3> QED BY <3>1 DEF Attempts
    <2>3. Promise!Contact
      BY <1>7, <2>1, <2>2 DEF WaitOver, Try, Promise!Contact, Open, Contacting,
            Waiting
    <2> QED BY <2>3 DEF Promise!Next
  <1>8. CASE TimerFires
    <2>1. phase \in Open /\ UNCHANGED aborted
      BY <1>8 DEF TimerFires
    <2>2. Settle("cancelled", 0) \/ Settle("timeout", 1)
      BY <1>8 DEF TimerFires, Interrupt
    <2> QED BY <2>1, <2>2, SettleStep DEF Promise!Next
  <1>9. CASE Abort
    <2>1. aborted' = TRUE
      BY <1>9 DEF Abort
    <2>2. CASE phase \in Open
      <3>1. Settle("cancelled", 0) \/ Settle("cancelled", 1)
        BY <1>9, <2>2 DEF Abort, Interrupt
      <3> QED BY <2>1, <2>2, <3>1, SettleStep DEF Promise!Next
    <2>3. CASE phase \notin Open
      <3>1. Promise!Stop
        BY <1>9, <2>1, <2>3 DEF Abort, Promise!Stop
      <3> QED BY <3>1 DEF Promise!Next
    <2> QED BY <2>2, <2>3
  <1>10. CASE Tick
    BY <1>10 DEF Tick, Promise!vars
  <1>11. CASE UNCHANGED vars
    BY <1>11 DEF vars, Promise!vars
  <1> QED BY <1>1, <1>2, <1>3, <1>4, <1>5, <1>6, <1>7, <1>8, <1>9, <1>10,
        <1>11 DEF Next

(***************************************************************************)
(* The client keeps the promise of ProviderCall: at most maxAttempts       *)
(* contacts, one settlement, and no contact after a cancellation.          *)
(***************************************************************************)
THEOREM ClientKeepsPromise == Spec => ImplementsPromise
  <1>1. Init /\ [][Next]_vars /\ []IInv => Promise!Init /\ [][Promise!Next]_Promise!vars
    BY InitPromise, NextPromise, PTL
  <1> QED BY <1>1, SpecIInv, PTL DEF Spec, ImplementsPromise, Promise!Spec
=============================================================================
