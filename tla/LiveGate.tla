------------------------------ MODULE LiveGate ------------------------------
(***************************************************************************)
(* services/liveApiGateService.js: the request control of the live gate.   *)
(* The gate keeps, per scope fingerprint and in memory only, when the next *)
(* attempt is eligible, until when it is locked out, and when attempts     *)
(* were blocked.                                                           *)
(*                                                                         *)
(* Two kinds of command make contacts for a fingerprint.  Most enter the   *)
(* gate once, before the contact (enterLiveProviderAttempt).  The runs of  *)
(* the watch executor, metadata.hydration and an SDE build that downloads  *)
(* only read it (actionGate), and record nothing.  The one contact outside *)
(* both is the resolution of a typed name, before a command has its        *)
(* fingerprint (actorResolver.js): no gate is asked for it.                *)
(*                                                                         *)
(* Times are kept relative to the clock: a stored next_eligible_at_ms or   *)
(* lockout_until_ms is the time left until then, a blocked attempt is its  *)
(* age.                                                                    *)
(***************************************************************************)
EXTENDS Integers

CONSTANTS Fingerprints,        \* scope fingerprints of live-required actions
          RadiusFingerprints,  \* those of manual.discovery with scope radius
          ReadFingerprints,    \* those of commands that only read the gate
          NoFingerprint,
          Calls,               \* bound: calls in progress at the same time
          Keyings,             \* whether a call's task has the fingerprint
                               \* as its scope_key: TRUE, FALSE or both
          CooldownSeconds,     \* cooldownSecondsFor the provider
          AbuseLockout, AbuseWindow, AbuseThreshold

ASSUME LiveGateAssumption ==
    /\ RadiusFingerprints \subseteq Fingerprints
    /\ ReadFingerprints \subseteq Fingerprints \ RadiusFingerprints
    /\ NoFingerprint \notin Fingerprints
    /\ Keyings \subseteq BOOLEAN
    /\ CooldownSeconds \in [Fingerprints -> Nat \ {0}]
    /\ AbuseThreshold \in Nat \ {0}
    /\ AbuseWindow \in Nat /\ AbuseLockout \in Nat
    /\ AbuseWindow < AbuseLockout

VARIABLES enabled,     \* AURA_ATLAS_LIVE_API of this process
          cooldown,    \* time left until next_eligible_at_ms, else 0
          lockout,     \* time left until lockout_until_ms, else 0
          blocked,     \* blocked[fp][k]: age of the k-th last entry of
                       \* blocked_attempts
          call         \* the commands under way

vars == <<enabled, cooldown, lockout, blocked, call>>

\* An age the window no longer covers, or no entry.
Stale == AbuseWindow + 1
Ages == [1..AbuseThreshold -> 0..Stale]
NoAttempts == [k \in 1..AbuseThreshold |-> Stale]

Idle == [phase |-> "idle", fp |-> NoFingerprint, keyed |-> FALSE]
OpenCall == [phase : {"entering", "contacting", "released", "running"},
             fp : Fingerprints, keyed : BOOLEAN]

TypeOK ==
    /\ enabled \in BOOLEAN
    /\ cooldown \in [Fingerprints -> Nat]
    /\ lockout \in [Fingerprints -> 0..AbuseLockout]
    /\ blocked \in [Fingerprints -> Ages]
    /\ call \in [Calls -> OpenCall \cup {Idle}]

Init ==
    /\ enabled \in BOOLEAN
    /\ cooldown = [fp \in Fingerprints |-> 0]
    /\ lockout = [fp \in Fingerprints |-> 0]
    /\ blocked = [fp \in Fingerprints |-> NoAttempts]
    /\ call = [c \in Calls |-> Idle]

-----------------------------------------------------------------------------
(* buildActionGate: the blockers, in the order they are collected.         *)

KeyedTask(d, fp) == call[d].keyed /\ call[d].fp = fp

(***************************************************************************)
(* activeDuplicateTask looks for a queued or running task whose scope_key  *)
(* is the fingerprint.  The caller's own task is in the list as well.      *)
(***************************************************************************)
ActiveDuplicate(fp) == \E d \in Calls : KeyedTask(d, fp)

Refused(fp) ==
    \/ fp \in RadiusFingerprints
    \/ ~enabled
    \/ ActiveDuplicate(fp)
    \/ lockout[fp] > 0
    \/ cooldown[fp] > 0

\* Mutant: an attempt during a lockout is counted as well.
LockoutEligibleAlways(fp) ==
    \/ fp \in RadiusFingerprints
    \/ /\ enabled
       /\ ~ActiveDuplicate(fp)
       /\ lockout[fp] > 0 \/ cooldown[fp] > 0

\* Whether the first blocker is LIVE_RADIUS_REJECTED or COOLDOWN_ACTIVE.
LockoutEligible(fp) ==
    \/ fp \in RadiusFingerprints
    \/ /\ enabled
       /\ ~ActiveDuplicate(fp)
       /\ lockout[fp] = 0
       /\ cooldown[fp] > 0

(***************************************************************************)
(* The list after one more blocked attempt.  Only the AbuseThreshold last  *)
(* entries can make recent.length reach the threshold.                     *)
(***************************************************************************)
RecentAttempts(ages) ==
    [k \in 1..AbuseThreshold |-> IF k = 1 THEN 0 ELSE ages[k - 1]]

\* Mutant: the stored entry is replaced, its next_eligible_at_ms is lost.
RecordBlockedAttemptFresh(fp) ==
    LET recent == RecentAttempts(blocked[fp]) IN
    /\ blocked' = [blocked EXCEPT ![fp] = recent]
    /\ lockout' = [lockout EXCEPT ![fp] =
                     IF recent[AbuseThreshold] # Stale THEN AbuseLockout ELSE @]
    /\ cooldown' = [cooldown EXCEPT ![fp] = 0]

\* Mutant: a lockout is added to the one that is being served.
RecordBlockedAttemptAdding(fp) ==
    LET recent == RecentAttempts(blocked[fp]) IN
    /\ blocked' = [blocked EXCEPT ![fp] = recent]
    /\ lockout' = [lockout EXCEPT ![fp] =
                     IF recent[AbuseThreshold] # Stale THEN @ + AbuseLockout
                                                       ELSE @]
    /\ UNCHANGED cooldown

RecordBlockedAttempt(fp) ==
    LET recent == RecentAttempts(blocked[fp]) IN
    /\ blocked' = [blocked EXCEPT ![fp] = recent]
    /\ lockout' = [lockout EXCEPT ![fp] =
                     IF recent[AbuseThreshold] # Stale THEN AbuseLockout ELSE @]
    /\ UNCHANGED cooldown

-----------------------------------------------------------------------------
(***************************************************************************)
(* A command starts: a task or a direct call.  Before it enters the gate   *)
(* it resolves its scope, for which it may await ESI.  Two tasks of one    *)
(* scope_key do not run together (TaskRunner).                             *)
(***************************************************************************)
Begin(c, fp, keyed) ==
    /\ call[c] = Idle
    /\ keyed => ~ActiveDuplicate(fp)
    /\ call' = [call EXCEPT ![c] =
                  [phase |-> "entering", fp |-> fp, keyed |-> keyed]]
    /\ UNCHANGED <<enabled, cooldown, lockout, blocked>>

(***************************************************************************)
(* enterLiveProviderAttempt: a refused command throws and ends there, and  *)
(* an attempt that is blocked by the cooldown or by the rejection of       *)
(* radius is recorded; an accepted one starts its cooldown before the      *)
(* provider is contacted.                                                  *)
(***************************************************************************)
AttemptRefused(c) ==
    LET fp == call[c].fp IN
    /\ call[c].phase = "entering"
    /\ Refused(fp)
    /\ call' = [call EXCEPT ![c] = Idle]
    /\ IF LockoutEligible(fp) THEN RecordBlockedAttempt(fp)
                              ELSE UNCHANGED <<cooldown, lockout, blocked>>
    /\ UNCHANGED enabled

AttemptAccepted(c) ==
    LET fp == call[c].fp IN
    /\ call[c].phase = "entering"
    /\ ~Refused(fp)
    /\ call' = [call EXCEPT ![c].phase = "contacting"]
    /\ cooldown' = [cooldown EXCEPT ![fp] = CooldownSeconds[fp]]
    /\ UNCHANGED <<enabled, lockout, blocked>>

(***************************************************************************)
(* A command that only reads the gate is let through by the same blockers. *)
(* The scope_key of its task is not the fingerprint (watch.scope_key), else*)
(* it would be its own duplicate.  A blocked read changes nothing.         *)
(***************************************************************************)
ReadAllowed(c, fp) ==
    /\ call[c] = Idle
    /\ ~Refused(fp)
    /\ call' = [call EXCEPT ![c] =
                  [phase |-> "released", fp |-> fp, keyed |-> FALSE]]
    /\ UNCHANGED <<enabled, cooldown, lockout, blocked>>

\* Its contacts start later (a detached task, in a later turn of the event
\* loop) and without another look at the gate.
StartContacts(c) ==
    /\ call[c].phase = "released"
    /\ call' = [call EXCEPT ![c].phase = "running"]
    /\ UNCHANGED <<enabled, cooldown, lockout, blocked>>

\* The provider work of the command ends, in whichever way, also before its
\* first contact.
Finish(c) ==
    /\ call[c].phase \in {"contacting", "released", "running"}
    /\ call' = [call EXCEPT ![c] = Idle]
    /\ UNCHANGED <<enabled, cooldown, lockout, blocked>>

Less(n) == IF n = 0 THEN 0 ELSE n - 1

\* Mutant: entries are never too old to count.
AgedForever(age) == IF age = Stale \/ age = AbuseWindow THEN age ELSE age + 1

Aged(age) == IF age = Stale THEN Stale ELSE age + 1

ClockTick ==
    /\ cooldown' = [fp \in Fingerprints |-> Less(cooldown[fp])]
    /\ lockout' = [fp \in Fingerprints |-> Less(lockout[fp])]
    /\ blocked' = [fp \in Fingerprints |->
                     [k \in 1..AbuseThreshold |-> Aged(blocked[fp][k])]]
    /\ UNCHANGED <<enabled, call>>

\* The process ends; requestControlState is lost with it.
Restart ==
    /\ enabled' \in BOOLEAN
    /\ cooldown' = [fp \in Fingerprints |-> 0]
    /\ lockout' = [fp \in Fingerprints |-> 0]
    /\ blocked' = [fp \in Fingerprints |-> NoAttempts]
    /\ call' = [c \in Calls |-> Idle]

Work ==
    \/ \E c \in Calls :
          \/ \E fp \in Fingerprints, keyed \in Keyings : Begin(c, fp, keyed)
          \/ AttemptRefused(c)
          \/ AttemptAccepted(c)
          \/ \E fp \in ReadFingerprints : ReadAllowed(c, fp)
          \/ StartContacts(c)
          \/ Finish(c)
    \/ ClockTick

Next == Work \/ Restart

Spec == Init /\ [][Next]_vars

-----------------------------------------------------------------------------
(* Properties.                                                             *)

Longer(m, n) == IF m < n THEN n ELSE m

\* The fingerprints whose provider is contacted, in either way, and those of
\* commands that are let through and have not begun.
InContact == [c \in Calls |-> IF call[c].phase \in {"contacting", "running"}
                              THEN call[c].fp ELSE NoFingerprint]
Released == [c \in Calls |-> IF call[c].phase = "released"
                             THEN call[c].fp ELSE NoFingerprint]

(***************************************************************************)
(* The gate paces the commands that enter it: such a command contacts its  *)
(* provider only when both the cooldown and the lockout of its fingerprint *)
(* are over, and starts a full cooldown; blocked attempts never shorten a  *)
(* wait, and a fingerprint that could be contacted is never locked out.    *)
(* Commands that only read the gate are let through only when no wait is   *)
(* on, but nothing paces what they do next: they start no cooldown and may *)
(* contact beside a command that entered.  The fingerprints of rejected    *)
(* radius discoveries are never contacted.                                 *)
(***************************************************************************)
Admissible == Fingerprints \ RadiusFingerprints

Pacing == INSTANCE PacedAccess WITH
    Clients <- Calls, Targets <- Admissible, OpenTargets <- ReadFingerprints,
    NoTarget <- NoFingerprint, Pace <- CooldownSeconds,
    Penalty <- AbuseLockout, at <- InContact, pass <- Released,
    wait <- [fp \in Admissible |-> Longer(cooldown[fp], lockout[fp])]

ImplementsPacing == Pacing!Spec

(***************************************************************************)
(* A lockout is served once: until it is over, only the clock and a        *)
(* restart change it, however often the operator tries (an attempt that is *)
(* blocked by LOCKOUT_ACTIVE is not recorded).                             *)
(***************************************************************************)
LockoutNotExtended ==
    [][\A fp \in Admissible :
          lockout[fp] > 0 => lockout'[fp] \in {lockout[fp], lockout[fp] - 1, 0}]_vars
=============================================================================
