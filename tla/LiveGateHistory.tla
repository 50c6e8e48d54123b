-------------------------- MODULE LiveGateHistory --------------------------
(***************************************************************************)
(* LiveGate with something the gate itself does not keep: how many         *)
(* attempts of a fingerprint were counted as blocked since its last        *)
(* lockout was imposed.                                                    *)
(***************************************************************************)
EXTENDS LiveGate

VARIABLE strikes    \* up to AbuseThreshold

hvars == <<vars, strikes>>

HInit ==
    /\ Init
    /\ strikes = [fp \in Fingerprints |-> 0]

OneMore(n) == IF n < AbuseThreshold THEN n + 1 ELSE n

HRefused(c) ==
    LET fp == call[c].fp IN
    /\ AttemptRefused(c)
    /\ strikes' = [strikes EXCEPT ![fp] =
                     IF lockout'[fp] > lockout[fp] THEN 0
                     ELSE IF LockoutEligible(fp) THEN OneMore(@) ELSE @]

HRestart ==
    /\ Restart
    /\ strikes' = [fp \in Fingerprints |-> 0]

HNext ==
    \/ \E c \in Calls : HRefused(c)
    \/ HRestart
    \/ /\ \/ \E c \in Calls :
                \/ \E fp \in Fingerprints, keyed \in Keyings : Begin(c, fp, keyed)
                \/ AttemptAccepted(c)
                \/ \E fp \in ReadFingerprints : ReadAllowed(c, fp)
                \/ StartContacts(c)
                \/ Finish(c)
          \/ ClockTick
       /\ UNCHANGED strikes

HSpec == HInit /\ [][HNext]_hvars

(***************************************************************************)
(* Commands settle (every HTTP request has a time limit), the clock runs,  *)
(* and the operator never stops asking, whatever the gate answers; he has  *)
(* to ask again when a command of his is in the way.                       *)
(***************************************************************************)
Uncounted(A) == A /\ UNCHANGED strikes

Entered(c) == HRefused(c) \/ Uncounted(AttemptAccepted(c))

Asked(fp) == \E c \in Calls : Uncounted(Begin(c, fp, FALSE))

HFairSpec ==
    /\ HSpec
    /\ WF_hvars(Uncounted(ClockTick))
    /\ \A c \in Calls : WF_hvars(Entered(c)) /\ WF_hvars(Uncounted(Finish(c)))
    /\ \A fp \in Admissible : SF_hvars(Asked(fp))

\* A command that entered the gate is under way.
Admitted(fp) == \E c \in Calls : call[c].phase = "contacting" /\ call[c].fp = fp

(***************************************************************************)
(* Every lockout is earned anew: the attempts that led to the last one do  *)
(* not count towards the next, because they have left the abuse window     *)
(* when the lockout ends (recordBlockedAttempt drops them).                *)
(***************************************************************************)
LockoutEarnedAnew ==
    [][\A fp \in Admissible :
          (lockout[fp] = 0 /\ lockout'[fp] > 0)
              => strikes[fp] >= AbuseThreshold - 1]_hvars

(***************************************************************************)
(* An operator who never stops asking for a fingerprint is admitted again  *)
(* and again: neither cooldown nor lockout keeps him out for good, once    *)
(* the process goes on with live calls enabled and no task has the         *)
(* fingerprint as its own scope_key (such a task is its own duplicate).    *)
(***************************************************************************)
Calm ==
    /\ <>[](enabled /\ \A c \in Calls : ~call[c].keyed)
    /\ <>[][~Restart]_hvars

AskingIsAnswered ==
    Calm => \A fp \in Admissible : []<>Admitted(fp)
=============================================================================
