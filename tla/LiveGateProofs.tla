--------------------------- MODULE LiveGateProofs ---------------------------
(***************************************************************************)
(* Proofs about LiveGate and LiveGateHistory, for every set of             *)
(* fingerprints and calls and for all durations and thresholds that        *)
(* LiveGateAssumption admits.                                              *)
(***************************************************************************)
EXTENDS LiveGateHistory, TLAPS

LEMMA AgesShift ==
    ASSUME NEW ages \in Ages
    PROVE  RecentAttempts(ages) \in Ages
BY LiveGateAssumption DEF Ages, Stale, RecentAttempts

(***************************************************************************)
(* The entries of the gate and the calls stay well formed; in particular   *)
(* no lockout is longer than AbuseLockout (recordBlockedAttempt sets it    *)
(* from the clock and never adds to it).                                   *)
(***************************************************************************)
LEMMA TypeOKInductive ==
    ASSUME TypeOK, [Next]_vars
    PROVE  TypeOK'
<1> USE LiveGateAssumption
<1>1. ASSUME NEW c \in Calls, NEW fp \in Fingerprints, NEW keyed \in Keyings,
             Begin(c, fp, keyed)
      PROVE  TypeOK'
  BY <1>1 DEF Begin, TypeOK, OpenCall
<1>2. ASSUME NEW c \in Calls, AttemptRefused(c)
      PROVE  TypeOK'
  <2> DEFINE f == call[c].fp
  <2>1. call' = [call EXCEPT ![c] = Idle] /\ UNCHANGED enabled
    BY <1>2 DEF AttemptRefused
  <2>2. f \in Fingerprints
    BY <1>2 DEF AttemptRefused, TypeOK, OpenCall, Idle
  <2>3. CASE LockoutEligible(f)
    <3>1. RecordBlockedAttempt(f)
      BY <1>2, <2>3 DEF AttemptRefused
    <3>2. RecentAttempts(blocked[f]) \in Ages
      BY <2>2, AgesShift DEF TypeOK
    <3> HIDE DEF f
    <3> QED BY <2>1, <2>2, <3>1, <3>2 DEF RecordBlockedAttempt, TypeOK
  <2>4. CASE ~LockoutEligible(f)
    <3>1. UNCHANGED <<cooldown, lockout, blocked>>
      BY <1>2, <2>4 DEF AttemptRefused
    <3> QED BY <2>1, <3>1 DEF TypeOK
  <2> QED BY <2>3, <2>4
<1>3. ASSUME NEW c \in Calls, AttemptAccepted(c)
      PROVE  TypeOK'
  BY <1>3 DEF AttemptAccepted, TypeOK, OpenCall, Idle
<1>4. ASSUME NEW c \in Calls, Finish(c)
      PROVE  TypeOK'
  BY <1>4 DEF Finish, TypeOK
<1>8. ASSUME NEW c \in Calls, NEW fp \in ReadFingerprints, ReadAllowed(c, fp)
      PROVE  TypeOK'
  BY <1>8 DEF ReadAllowed, TypeOK, OpenCall
<1>9. ASSUME NEW c \in Calls, StartContacts(c)
      PROVE  TypeOK'
  BY <1>9 DEF StartContacts, TypeOK, OpenCall, Idle
<1>5. CASE ClockTick
  <2>1. \A n \in Nat : Less(n) \in Nat
    BY DEF Less
  <2>2. \A n \in 0..AbuseLockout : Less(n) \in 0..AbuseLockout
    BY DEF Less
  <2>3. \A n \in 0..Stale : Aged(n) \in 0..Stale
    BY DEF Aged, Stale
  <2>4. blocked' \in [Fingerprints -> Ages]
    BY <1>5, <2>3 DEF ClockTick, TypeOK, Ages
  <2> QED BY <1>5, <2>1, <2>2, <2>4 DEF ClockTick, TypeOK
<1>6. CASE Restart
  BY <1>6 DEF Restart, TypeOK, NoAttempts, Ages, Stale
<1>7. CASE UNCHANGED vars
  BY <1>7 DEF vars, TypeOK
<1> QED BY <1>1, <1>2, <1>3, <1>4, <1>5, <1>6, <1>7, <1>8, <1>9 DEF Next, Work

LEMMA TypeOKInit == Init => TypeOK
BY LiveGateAssumption DEF Init, TypeOK, NoAttempts, Ages, Stale

THEOREM GateTypesCorrect == Spec => []TypeOK
BY TypeOKInit, TypeOKInductive, PTL DEF Spec

-----------------------------------------------------------------------------
(***************************************************************************)
(* A lockout of an admissible fingerprint is served as it was imposed:     *)
(* between its start and its end only the clock shortens it, because an    *)
(* attempt blocked by LOCKOUT_ACTIVE is not recorded.                      *)
(***************************************************************************)
LEMMA LockoutStep ==
    ASSUME TypeOK, [Next]_vars, NEW fp \in Admissible, lockout[fp] > 0
    PROVE  lockout'[fp] \in {lockout[fp], lockout[fp] - 1, 0}
<1>0. fp \in Fingerprints /\ fp \notin RadiusFingerprints
  BY DEF Admissible
<1>1. ASSUME NEW c \in Calls, AttemptRefused(c)
      PROVE  lockout'[fp] = lockout[fp]
  <2>1. CASE LockoutEligible(call[c].fp)
    <3>1. call[c].fp # fp
      BY <1>0, <2>1 DEF LockoutEligible, TypeOK
    <3>2. RecordBlockedAttempt(call[c].fp)
      BY <1>1, <2>1 DEF AttemptRefused
    <3> QED BY <1>0, <3>1, <3>2 DEF RecordBlockedAttempt, TypeOK
  <2>2. CASE ~LockoutEligible(call[c].fp)
    BY <1>1, <2>2 DEF AttemptRefused
  <2> QED BY <2>1, <2>2
<1>2. CASE ClockTick
  BY <1>0, <1>2 DEF ClockTick, Less, TypeOK
<1>3. CASE Restart
  BY <1>0, <1>3 DEF Restart
<1>4. ASSUME NEW c \in Calls,
             \/ \E f \in Fingerprints, keyed \in Keyings : Begin(c, f, keyed)
             \/ AttemptAccepted(c)
             \/ \E f \in ReadFingerprints : ReadAllowed(c, f)
             \/ StartContacts(c)
             \/ Finish(c)
      PROVE  lockout'[fp] = lockout[fp]
  BY <1>4 DEF Begin, AttemptAccepted, ReadAllowed, StartContacts, Finish
<1>5. CASE UNCHANGED vars
  BY <1>5 DEF vars
<1> QED BY <1>1, <1>2, <1>3, <1>4, <1>5 DEF Next, Work

THEOREM LockoutIsServedOnce == Spec => LockoutNotExtended
<1>1. TypeOK /\ [Next]_vars =>
        [\A fp \in Admissible :
            lockout[fp] > 0 =>
              lockout'[fp] \in {lockout[fp], lockout[fp] - 1, 0}]_vars
  BY LockoutStep
<1> QED BY <1>1, GateTypesCorrect, PTL DEF Spec, LockoutNotExtended

-----------------------------------------------------------------------------
(* The refinement of PacedAccess.                                          *)

Wait == [fp \in Admissible |-> Longer(cooldown[fp], lockout[fp])]

\* What the two writes of the gate do to the wait of their fingerprint.
LEMMA WaitOfLockout ==
    ASSUME TypeOK, NEW fp \in Admissible,
           cooldown' = cooldown, lockout' = [lockout EXCEPT ![fp] = AbuseLockout]
    PROVE  Wait' = [Wait EXCEPT ![fp] =
                      IF @ < AbuseLockout THEN AbuseLockout
                      ELSE Longer(cooldown[fp], AbuseLockout)]
<1>1. \A g \in Admissible : Wait'[g] =
        IF g = fp THEN Longer(cooldown[fp], AbuseLockout) ELSE Wait[g]
  BY DEF Wait, TypeOK, Admissible
<1>2. lockout[fp] \in 0..AbuseLockout /\ cooldown[fp] \in Nat
  BY DEF TypeOK, Admissible
<1>3. Wait[fp] < AbuseLockout => Longer(cooldown[fp], AbuseLockout) = AbuseLockout
  BY <1>2, LiveGateAssumption DEF Wait, Longer
<1> QED BY <1>1, <1>3 DEF Wait

LEMMA WaitOfCooldown ==
    ASSUME TypeOK, NEW fp \in Admissible, lockout[fp] = 0, lockout' = lockout,
           cooldown' = [cooldown EXCEPT ![fp] = CooldownSeconds[fp]]
    PROVE  Wait' = [Wait EXCEPT ![fp] = CooldownSeconds[fp]]
<1>1. CooldownSeconds[fp] \in Nat
  BY LiveGateAssumption DEF Admissible
<1>2. \A g \in Admissible : Wait'[g] =
        IF g = fp THEN Longer(CooldownSeconds[fp], 0) ELSE Wait[g]
  BY DEF Wait, TypeOK, Admissible
<1>3. Longer(CooldownSeconds[fp], 0) = CooldownSeconds[fp]
  BY <1>1 DEF Longer
<1> QED BY <1>2, <1>3 DEF Wait

\* A blocked attempt is a penalty of its fingerprint, or nothing at all.
LEMMA RefusalPenalises ==
    ASSUME TypeOK, NEW c \in Calls, AttemptRefused(c)
    PROVE  \/ \E fp \in Admissible :
                /\ Wait[fp] > 0
                /\ Wait' = [Wait EXCEPT ![fp] =
                              IF @ < AbuseLockout THEN AbuseLockout ELSE @]
           \/ Wait' = Wait
<1> USE LiveGateAssumption
<1> DEFINE f == call[c].fp
<1>1. CASE LockoutEligible(f) /\ f \in Admissible
  <2>1. RecordBlockedAttempt(f)
    BY <1>1 DEF AttemptRefused
  <2>2. f \in Fingerprints /\ lockout[f] = 0 /\ cooldown[f] > 0
    BY <1>1 DEF LockoutEligible, Admissible
  <2>3. cooldown' = cooldown
    BY <2>1 DEF RecordBlockedAttempt
  <2>4. \/ lockout' = [lockout EXCEPT ![f] = AbuseLockout]
        \/ lockout' = lockout
    BY <2>1, <2>2 DEF RecordBlockedAttempt, TypeOK
  <2>5. \A fp \in Admissible : cooldown[fp] \in Nat /\ lockout[fp] \in Nat
    BY DEF Admissible, TypeOK
  <2>6. Wait[f] > 0
    BY <1>1, <2>2, <2>5 DEF Wait, Longer
  <2>7. CASE lockout' = [lockout EXCEPT ![f] = AbuseLockout]
    <3>1. PICK g \in Admissible : g = f
      BY <1>1
    <3>2. lockout[g] = 0 /\ Wait[g] > 0
      BY <2>2, <2>6, <3>1
    <3>3. Wait' = [Wait EXCEPT ![g] =
                     IF @ < AbuseLockout THEN AbuseLockout
                     ELSE Longer(cooldown[g], AbuseLockout)]
      BY <2>3, <2>7, <3>1, WaitOfLockout
    <3>4. Wait[g] >= AbuseLockout => Longer(cooldown[g], AbuseLockout) = Wait[g]
      BY <2>5, <3>2 DEF Wait, Longer
    <3>5. Wait[g] \in Nat
      BY <2>5 DEF Wait, Longer
    <3>6. Wait' = [Wait EXCEPT ![g] =
                     IF @ < AbuseLockout THEN AbuseLockout ELSE @]
      <4>1. CASE Wait[g] < AbuseLockout
        BY <3>3, <4>1
      <4>2. CASE ~(Wait[g] < AbuseLockout)
        <5>1. Wait[g] >= AbuseLockout
          BY <3>5, <4>2
        <5>2. Longer(cooldown[g], AbuseLockout) = Wait[g]
          BY <3>4, <5>1
        <5> QED BY <3>3, <4>2, <5>2
      <4> QED BY <4>1, <4>2
    <3> QED BY <3>2, <3>6
  <2>8. CASE lockout' = lockout
    BY <2>3, <2>8 DEF Wait
  <2> QED BY <2>4, <2>7, <2>8
<1>2. CASE LockoutEligible(f) /\ f \notin Admissible
  <2>1. RecordBlockedAttempt(f)
    BY <1>2 DEF AttemptRefused
  <2>2. cooldown' = cooldown /\ \A fp \in Admissible : lockout'[fp] = lockout[fp]
    BY <1>2, <2>1 DEF RecordBlockedAttempt, TypeOK, Admissible
  <2> QED BY <2>2 DEF Wait
<1>3. CASE ~LockoutEligible(f)
  BY <1>3 DEF AttemptRefused, Wait
<1> QED BY <1>1, <1>2, <1>3

\* The view of one call.
LEMMA Views ==
    /\ \A c \in Calls :
          /\ InContact[c] = IF call[c].phase \in {"contacting", "running"}
                            THEN call[c].fp ELSE NoFingerprint
          /\ Released[c] = IF call[c].phase = "released"
                           THEN call[c].fp ELSE NoFingerprint
    /\ \A c \in Calls :
          /\ InContact'[c] = IF call'[c].phase \in {"contacting", "running"}
                             THEN call'[c].fp ELSE NoFingerprint
          /\ Released'[c] = IF call'[c].phase = "released"
                            THEN call'[c].fp ELSE NoFingerprint
BY DEF InContact, Released

(***************************************************************************)
(* A step that gives one call another record changes the views of this     *)
(* call only.                                                              *)
(***************************************************************************)
ContactOf(rec) == IF rec.phase \in {"contacting", "running"} THEN rec.fp
                                                              ELSE NoFingerprint
PassOf(rec) == IF rec.phase = "released" THEN rec.fp ELSE NoFingerprint

ViewsMove(c, a, p) ==
    /\ InContact' = [InContact EXCEPT ![c] = a]
    /\ Released' = [Released EXCEPT ![c] = p]

LEMMA OneCallMoves ==
    ASSUME TypeOK, NEW c \in Calls, NEW rec, call' = [call EXCEPT ![c] = rec]
    PROVE  ViewsMove(c, ContactOf(rec), PassOf(rec))
<1> DEFINE a == ContactOf(rec)
           p == PassOf(rec)
<1>1. \A d \in Calls : call'[d] = IF d = c THEN rec ELSE call[d]
  BY DEF TypeOK
<1>2. \A d \in Calls : /\ InContact'[d] = IF d = c THEN a ELSE InContact[d]
                       /\ Released'[d] = IF d = c THEN p ELSE Released[d]
  BY <1>1, Views DEF ContactOf, PassOf
<1> HIDE DEF a, p
<1>3. /\ InContact' = [d \in Calls |-> IF d = c THEN a ELSE InContact[d]]
      /\ Released' = [d \in Calls |-> IF d = c THEN p ELSE Released[d]]
  BY <1>2 DEF InContact, Released
<1>4. ViewsMove(c, a, p)
  BY <1>3 DEF InContact, Released, ViewsMove
<1> QED BY <1>4 DEF a, p

LEMMA StepPaces ==
    ASSUME TypeOK, [Next]_vars
    PROVE  [Pacing!Next]_<<Wait, Released, InContact>>
<1> USE LiveGateAssumption
<1>0. \A fp \in Admissible : cooldown[fp] \in Nat /\ lockout[fp] \in Nat
  BY DEF Admissible, TypeOK
<1>i. /\ Idle.phase = "idle" /\ Idle.fp = NoFingerprint
      /\ \A c \in Calls : call[c] = Idle =>
            InContact[c] = NoFingerprint /\ Released[c] = NoFingerprint
      /\ ContactOf(Idle) = NoFingerprint /\ PassOf(Idle) = NoFingerprint
  BY Views DEF Idle, ContactOf, PassOf
\* A call in one of the other phases has a fingerprint.
<1>f. \A c \in Calls : call[c].phase # "idle" =>
          call[c] \in OpenCall /\ call[c].fp # NoFingerprint
  BY DEF TypeOK, OpenCall, Idle
<1>1. ASSUME NEW c \in Calls, NEW fp \in Fingerprints, NEW keyed \in Keyings,
             Begin(c, fp, keyed)
      PROVE  UNCHANGED <<Wait, Released, InContact>>
  <2> DEFINE rec == [phase |-> "entering", fp |-> fp, keyed |-> keyed]
  <2>1. Wait' = Wait /\ call[c] = Idle /\ call' = [call EXCEPT ![c] = rec]
    BY <1>1 DEF Begin, Wait
  <2>2. ContactOf(rec) = NoFingerprint /\ PassOf(rec) = NoFingerprint
    BY DEF ContactOf, PassOf
  <2> HIDE DEF rec
  <2>3. /\ InContact' = [InContact EXCEPT ![c] = NoFingerprint]
        /\ Released' = [Released EXCEPT ![c] = NoFingerprint]
    <3>1. ViewsMove(c, ContactOf(rec), PassOf(rec))
      BY <2>1, OneCallMoves
    <3> QED BY <2>2, <3>1 DEF ViewsMove
  <2> QED BY <1>i, <2>1, <2>3 DEF InContact, Released
<1>2. ASSUME NEW c \in Calls, AttemptRefused(c)
      PROVE  [Pacing!Next]_<<Wait, Released, InContact>>
  <2>1. call[c].phase = "entering" /\ call' = [call EXCEPT ![c] = Idle]
    BY <1>2 DEF AttemptRefused
  <2>2. /\ InContact' = [InContact EXCEPT ![c] = NoFingerprint]
        /\ Released' = [Released EXCEPT ![c] = NoFingerprint]
    <3>1. ViewsMove(c, ContactOf(Idle), PassOf(Idle))
      BY <2>1, OneCallMoves
    <3> QED BY <1>i, <3>1 DEF ViewsMove
  <2>3. InContact' = InContact /\ Released' = Released
    BY <2>1, <2>2, Views DEF InContact, Released
  <2>4. CASE Wait' = Wait
    BY <2>3, <2>4
  <2>5. CASE \E fp \in Admissible :
                /\ Wait[fp] > 0
                /\ Wait' = [Wait EXCEPT ![fp] =
                              IF @ < AbuseLockout THEN AbuseLockout ELSE @]
    <3>1. \E fp \in Admissible : Pacing!Penalise(fp)
      BY <2>3, <2>5 DEF Pacing!Penalise, Wait
    <3> QED BY <3>1 DEF Pacing!Next
  <2> QED BY <1>2, <2>4, <2>5, RefusalPenalises
<1>3. ASSUME NEW c \in Calls, AttemptAccepted(c)
      PROVE  Pacing!Next
  <2> DEFINE f == call[c].fp
             rec == [call[c] EXCEPT !.phase = "contacting"]
  <2>1. f \in Admissible /\ cooldown[f] = 0 /\ lockout[f] = 0
    BY <1>0, <1>3 DEF AttemptAccepted, Refused, TypeOK, OpenCall, Idle, Admissible
  <2>2. cooldown' = [cooldown EXCEPT ![f] = CooldownSeconds[f]]
    BY <1>3 DEF AttemptAccepted
  <2>3. lockout' = lockout
    BY <1>3 DEF AttemptAccepted
  <2>4. call' = [call EXCEPT ![c] = rec] /\ call[c].phase = "entering"
    BY <1>3 DEF AttemptAccepted
  <2>5. ContactOf(rec) = f /\ PassOf(rec) = NoFingerprint
    <3>1. rec.phase = "contacting" /\ rec.fp = f
      BY <1>f, <2>4 DEF OpenCall
    <3> QED BY <3>1 DEF ContactOf, PassOf
  <2> HIDE DEF rec
  <2>6. /\ InContact' = [InContact EXCEPT ![c] = f]
        /\ Released' = [Released EXCEPT ![c] = NoFingerprint]
    <3>1. ViewsMove(c, ContactOf(rec), PassOf(rec))
      BY <2>4, OneCallMoves
    <3> QED BY <2>5, <3>1 DEF ViewsMove
  <2>7. InContact[c] = NoFingerprint /\ Released[c] = NoFingerprint
    BY <2>4, Views
  <2>8. Released' = Released
    BY <2>6, <2>7 DEF Released
  <2>9. Wait[f] = 0 /\ Wait' = [Wait EXCEPT ![f] = CooldownSeconds[f]]
    <3>1. PICK g \in Admissible : g = f
      BY <2>1
    <3>2. Wait' = [Wait EXCEPT ![g] = CooldownSeconds[g]]
      BY <2>1, <2>2, <2>3, <3>1, WaitOfCooldown
    <3>3. Wait[g] = 0
      BY <2>1, <3>1 DEF Wait, Longer
    <3> QED BY <3>1, <3>2, <3>3
  <2> HIDE DEF f
  <2>10. Pacing!Contact(c, f)
    BY <2>6, <2>7, <2>8, <2>9 DEF Pacing!Contact, Pacing!Free, Wait
  <2> QED BY <2>1, <2>10 DEF Pacing!Next
<1>4. ASSUME NEW c \in Calls, Finish(c)
      PROVE  Pacing!Next
  <2>1. ~(InContact[c] = NoFingerprint /\ Released[c] = NoFingerprint)
    BY <1>4, <1>f, Views DEF Finish
  <2>2. /\ InContact' = [InContact EXCEPT ![c] = NoFingerprint]
        /\ Released' = [Released EXCEPT ![c] = NoFingerprint]
    <3>1. ViewsMove(c, ContactOf(Idle), PassOf(Idle))
      BY <1>4, OneCallMoves DEF Finish
    <3> QED BY <1>i, <3>1 DEF ViewsMove
  <2>3. Wait' = Wait
    BY <1>4 DEF Finish, Wait
  <2>4. Pacing!Leave(c)
    BY <2>1, <2>2, <2>3 DEF Pacing!Leave, Pacing!Free, Wait
  <2> QED BY <2>4 DEF Pacing!Next
<1>5. ASSUME NEW c \in Calls, NEW fp \in ReadFingerprints, ReadAllowed(c, fp)
      PROVE  Pacing!Next
  <2> DEFINE rec == [phase |-> "released", fp |-> fp, keyed |-> FALSE]
  <2>1. call[c] = Idle /\ call' = [call EXCEPT ![c] = rec] /\ ~Refused(fp)
    BY <1>5 DEF ReadAllowed
  <2>2. ContactOf(rec) = NoFingerprint /\ PassOf(rec) = fp
    BY DEF ContactOf, PassOf
  <2> HIDE DEF rec
  <2>3. /\ InContact' = [InContact EXCEPT ![c] = NoFingerprint]
        /\ Released' = [Released EXCEPT ![c] = fp]
    <3>1. ViewsMove(c, ContactOf(rec), PassOf(rec))
      BY <2>1, OneCallMoves
    <3> QED BY <2>2, <3>1 DEF ViewsMove
  <2>4. InContact' = InContact
    BY <1>i, <2>1, <2>3 DEF InContact
  <2>5. fp \in Admissible /\ Wait[fp] = 0
    BY <1>0, <2>1 DEF Refused, Wait, Longer, Admissible
  <2>6. Wait' = Wait
    BY <1>5 DEF ReadAllowed, Wait
  <2>7. Pacing!LetThrough(c, fp)
    BY <1>i, <2>1, <2>3, <2>4, <2>5, <2>6 DEF Pacing!LetThrough, Pacing!Free, Wait
  <2> QED BY <2>7 DEF Pacing!Next
<1>6. ASSUME NEW c \in Calls, StartContacts(c)
      PROVE  Pacing!Next
  <2> DEFINE rec == [call[c] EXCEPT !.phase = "running"]
  <2>1. call[c].phase = "released" /\ call' = [call EXCEPT ![c] = rec]
    BY <1>6 DEF StartContacts
  <2>2. ContactOf(rec) = call[c].fp /\ PassOf(rec) = NoFingerprint
    <3>1. rec.phase = "running" /\ rec.fp = call[c].fp
      BY <1>f, <2>1 DEF OpenCall
    <3> QED BY <3>1 DEF ContactOf, PassOf
  <2> HIDE DEF rec
  <2>3. Released[c] = call[c].fp /\ Released[c] # NoFingerprint
    BY <1>f, <2>1, Views
  <2>4. /\ InContact' = [InContact EXCEPT ![c] = Released[c]]
        /\ Released' = [Released EXCEPT ![c] = NoFingerprint]
    <3>1. ViewsMove(c, ContactOf(rec), PassOf(rec))
      BY <2>1, OneCallMoves
    <3> QED BY <2>2, <2>3, <3>1 DEF ViewsMove
  <2>5. Wait' = Wait
    BY <1>6 DEF StartContacts, Wait
  <2>6. Pacing!UsePass(c)
    BY <2>3, <2>4, <2>5 DEF Pacing!UsePass, Wait
  <2> QED BY <2>6 DEF Pacing!Next
<1>7. CASE ClockTick
  <2>1. \A fp \in Admissible :
          Wait'[fp] = IF Wait[fp] = 0 THEN 0 ELSE Wait[fp] - 1
    BY <1>0, <1>7 DEF ClockTick, Wait, Longer, Less, Admissible
  <2>2. InContact' = InContact /\ Released' = Released
    BY <1>7 DEF ClockTick, InContact, Released
  <2>3. Pacing!TimePasses
    BY <2>1, <2>2 DEF Pacing!TimePasses, Wait
  <2> QED BY <2>3 DEF Pacing!Next
<1>8. CASE Restart
  <2>1. Wait' = [fp \in Admissible |-> 0]
    BY <1>8 DEF Restart, Wait, Longer, Admissible
  <2>2. /\ InContact' = [c \in Calls |-> NoFingerprint]
        /\ Released' = [c \in Calls |-> NoFingerprint]
    BY <1>8 DEF Restart, InContact, Released, Idle
  <2>3. Pacing!Restart
    BY <2>1, <2>2 DEF Pacing!Restart, Wait
  <2> QED BY <2>3 DEF Pacing!Next
<1>9. CASE UNCHANGED vars
  BY <1>9 DEF vars, Wait, InContact, Released
<1> QED BY <1>1, <1>2, <1>3, <1>4, <1>5, <1>6, <1>7, <1>8, <1>9 DEF Next, Work

LEMMA InitPaces == Init => Pacing!Init
BY DEF Init, Pacing!Init, InContact, Released, Longer, Idle, Admissible

(***************************************************************************)
(* The gate implements PacedAccess: whatever the interleaving of commands, *)
(* refusals, reads, the clock and restarts, a command that enters the gate *)
(* contacts its provider only when cooldown and lockout of its fingerprint *)
(* are over and starts a full cooldown, and a command that only reads it   *)
(* is let through only when they are over.  Contacts of the second kind    *)
(* are in no way spaced by the gate.                                       *)
(***************************************************************************)
THEOREM GatePacesCommands == Spec => ImplementsPacing
<1>1. TypeOK /\ [Next]_vars => [Pacing!Next]_(Pacing!vars)
  BY StepPaces DEF Pacing!vars, Wait
<1> QED BY <1>1, InitPaces, GateTypesCorrect, PTL
        DEF Spec, ImplementsPacing, Pacing!Spec

-----------------------------------------------------------------------------
(***************************************************************************)
(* The inductive invariant behind LockoutEarnedAnew: an entry beyond the   *)
(* strikes of its fingerprint no longer counts, or will be too old to      *)
(* count when the lockout under way is over.                               *)
(***************************************************************************)
OnlyStrikesCount ==
    \A fp \in Admissible, k \in 1..AbuseThreshold :
        k > strikes[fp] => \/ blocked[fp][k] = Stale
                           \/ blocked[fp][k] + lockout[fp] >= AbuseLockout

HInv ==
    /\ TypeOK
    /\ strikes \in [Fingerprints -> 0..AbuseThreshold]
    /\ OnlyStrikesCount

LEMMA HInvInit == HInit => HInv
BY TypeOKInit, LiveGateAssumption
   DEF HInit, HInv, Init, OnlyStrikesCount, NoAttempts, Stale, Admissible

LEMMA HStepIsStep == [HNext]_hvars => [Next]_vars
BY DEF HNext, HRefused, HRestart, hvars, Next, Work

\* When nothing is locked, only strikes are in the window.
LEMMA UnlockedCount ==
    ASSUME HInv, NEW fp \in Admissible, lockout[fp] = 0,
           NEW k \in 1..AbuseThreshold, k > strikes[fp]
    PROVE  blocked[fp][k] = Stale
<1>0. blocked[fp] \in Ages
  BY DEF HInv, TypeOK, Admissible
<1>1. blocked[fp][k] \in 0..Stale
  BY <1>0 DEF Ages
<1> QED BY <1>1, LiveGateAssumption DEF HInv, OnlyStrikesCount, Stale

LEMMA HRefusedKeeps ==
    ASSUME HInv, NEW c \in Calls, HRefused(c)
    PROVE  /\ strikes' \in [Fingerprints -> 0..AbuseThreshold]
           /\ OnlyStrikesCount'
<1> USE LiveGateAssumption
<1>1. PICK f \in Fingerprints : f = call[c].fp
  BY DEF HRefused, AttemptRefused, HInv, TypeOK, OpenCall, Idle
<1>2. strikes' = [strikes EXCEPT ![f] =
                    IF lockout'[f] > lockout[f] THEN 0
                    ELSE IF LockoutEligible(f) THEN OneMore(@) ELSE @]
  BY <1>1 DEF HRefused
<1>3. strikes' \in [Fingerprints -> 0..AbuseThreshold]
  <2>1. \A n \in 0..AbuseThreshold : OneMore(n) \in 0..AbuseThreshold
    BY DEF OneMore
  <2> QED BY <1>2, <2>1 DEF HInv
<1>4. CASE ~LockoutEligible(f)
  <2>1. UNCHANGED <<lockout, blocked>>
    BY <1>1, <1>4 DEF HRefused, AttemptRefused
  <2>2. strikes' = strikes
    BY <1>2, <1>4, <2>1 DEF HInv, TypeOK
  <2> QED BY <1>3, <2>1, <2>2 DEF HInv, OnlyStrikesCount
<1>5. CASE LockoutEligible(f)
  <2>1. RecordBlockedAttempt(f)
    BY <1>1, <1>5 DEF HRefused, AttemptRefused
  <2>2. blocked' = [blocked EXCEPT ![f] = RecentAttempts(blocked[f])]
    BY <2>1 DEF RecordBlockedAttempt
  <2>3. \/ lockout' = [lockout EXCEPT ![f] = AbuseLockout]
        \/ lockout' = lockout
    BY <2>1 DEF RecordBlockedAttempt, HInv, TypeOK
  <2> SUFFICES ASSUME NEW fp \in Admissible, NEW k \in 1..AbuseThreshold,
                      k > strikes'[fp]
               PROVE  \/ blocked'[fp][k] = Stale
                      \/ blocked'[fp][k] + lockout'[fp] >= AbuseLockout
    BY <1>3 DEF OnlyStrikesCount
  <2>4. CASE fp # f
    BY <1>2, <2>2, <2>3, <2>4 DEF HInv, OnlyStrikesCount, TypeOK, Admissible
  <2>5. CASE fp = f
    <3>1. lockout[f] = 0
      BY <1>5, <2>5 DEF LockoutEligible, Admissible
    <3>2. blocked'[f] = RecentAttempts(blocked[f])
      BY <2>2 DEF HInv, TypeOK
    <3>3. blocked[f] \in Ages
      BY DEF HInv, TypeOK
    <3>4. RecentAttempts(blocked[f])[k] \in 0..Stale
      BY <3>3, AgesShift DEF Ages
    <3>5. CASE lockout' = [lockout EXCEPT ![f] = AbuseLockout]
      <4>1. lockout'[f] = AbuseLockout
        BY <3>5 DEF HInv, TypeOK
      <4> QED BY <2>5, <3>2, <3>4, <4>1 DEF Stale
    <3>6. CASE lockout' = lockout
      <4>1. strikes[f] \in 0..AbuseThreshold
        BY DEF HInv
      <4>2. strikes'[f] = OneMore(strikes[f])
        BY <1>2, <1>5, <3>1, <3>6 DEF HInv
      <4>3. strikes'[f] = strikes[f] + 1
        BY <2>5, <4>1, <4>2 DEF OneMore
      <4>4. k # 1 /\ k - 1 \in 1..AbuseThreshold /\ k - 1 > strikes[f]
        BY <2>5, <4>1, <4>3
      <4>5. blocked[f][k - 1] = Stale
        BY <2>5, <3>1, <4>4, UnlockedCount
      <4> QED BY <2>5, <3>2, <4>4, <4>5 DEF RecentAttempts
    <3> QED BY <2>3, <3>5, <3>6
  <2> QED BY <2>4, <2>5
<1> QED BY <1>3, <1>4, <1>5

LEMMA HInvStep ==
    ASSUME HInv, [HNext]_hvars
    PROVE  HInv'
<1> USE LiveGateAssumption
<1>0. TypeOK'
  BY HStepIsStep, TypeOKInductive DEF HInv
<1>1. ASSUME NEW c \in Calls, HRefused(c)
      PROVE  HInv'
  BY <1>0, <1>1, HRefusedKeeps DEF HInv
<1>2. CASE ClockTick /\ strikes' = strikes
  <2>1. strikes' = strikes
    BY <1>2
  <2> SUFFICES ASSUME NEW fp \in Admissible, NEW k \in 1..AbuseThreshold,
                      k > strikes[fp]
               PROVE  \/ blocked'[fp][k] = Stale
                      \/ blocked'[fp][k] + lockout'[fp] >= AbuseLockout
    BY <1>0, <2>1 DEF HInv, OnlyStrikesCount
  <2>2. blocked[fp][k] \in 0..Stale /\ lockout[fp] \in 0..AbuseLockout
    BY DEF HInv, TypeOK, Ages, Admissible
  <2>3. blocked'[fp][k] = Aged(blocked[fp][k])
    BY <1>2 DEF ClockTick, Admissible
  <2>4. lockout'[fp] = Less(lockout[fp])
    BY <1>2 DEF ClockTick, Admissible
  <2>5. \/ blocked[fp][k] = Stale
        \/ blocked[fp][k] + lockout[fp] >= AbuseLockout
    BY DEF HInv, OnlyStrikesCount
  <2> QED BY <2>2, <2>3, <2>4, <2>5 DEF Aged, Less, Stale
<1>3. CASE HRestart
  BY <1>0, <1>3
     DEF HRestart, Restart, HInv, OnlyStrikesCount, NoAttempts, Stale, Admissible
<1>4. ASSUME NEW c \in Calls, Finish(c), strikes' = strikes
      PROVE  HInv'
  BY <1>0, <1>4 DEF Finish, HInv, OnlyStrikesCount
<1>5. ASSUME NEW c \in Calls,
             \/ \E fp \in Fingerprints, keyed \in Keyings : Begin(c, fp, keyed)
             \/ AttemptAccepted(c)
             \/ \E fp \in ReadFingerprints : ReadAllowed(c, fp)
             \/ StartContacts(c),
             strikes' = strikes
      PROVE  HInv'
  BY <1>0, <1>5
     DEF Begin, AttemptAccepted, ReadAllowed, StartContacts, HInv, OnlyStrikesCount
<1>6. CASE UNCHANGED hvars
  BY <1>0, <1>6 DEF hvars, vars, HInv, OnlyStrikesCount
<1> QED BY <1>1, <1>2, <1>3, <1>4, <1>5, <1>6 DEF HNext

LEMMA ImposedIsEarned ==
    ASSUME HInv, [HNext]_hvars, NEW fp \in Admissible,
           lockout[fp] = 0, lockout'[fp] > 0
    PROVE  strikes[fp] >= AbuseThreshold - 1
<1> USE LiveGateAssumption
<1>0. fp \in Fingerprints /\ fp \notin RadiusFingerprints
  BY DEF Admissible
<1>1. ASSUME NEW c \in Calls, HRefused(c)
      PROVE  strikes[fp] >= AbuseThreshold - 1
  <2>1. LockoutEligible(call[c].fp)
    BY <1>1 DEF HRefused, AttemptRefused
  <2>2. RecordBlockedAttempt(call[c].fp)
    BY <1>1, <2>1 DEF HRefused, AttemptRefused
  <2>3. call[c].fp = fp
    BY <1>0, <2>2 DEF RecordBlockedAttempt, HInv, TypeOK
  <2>4. RecentAttempts(blocked[fp])[AbuseThreshold] # Stale
    BY <1>0, <2>2, <2>3 DEF RecordBlockedAttempt, HInv, TypeOK
  <2>5. strikes[fp] \in 0..AbuseThreshold
    BY <1>0 DEF HInv
  <2>6. CASE AbuseThreshold = 1
    BY <2>5, <2>6
  <2>7. CASE AbuseThreshold # 1
    <3>1. blocked[fp][AbuseThreshold - 1] # Stale
      BY <2>4, <2>7 DEF RecentAttempts
    <3>2. AbuseThreshold - 1 \in 1..AbuseThreshold
      BY <2>7
    <3>3. ~(AbuseThreshold - 1 > strikes[fp])
      BY <3>1, <3>2, UnlockedCount
    <3> QED BY <2>5, <3>3
  <2> QED BY <2>6, <2>7
<1>2. CASE ClockTick
  BY <1>0, <1>2 DEF ClockTick, Less
<1>3. CASE HRestart
  BY <1>0, <1>3 DEF HRestart, Restart
<1>4. CASE lockout' = lockout
  BY <1>4
<1>5. [HNext]_hvars => \/ \E c \in Calls : HRefused(c)
                       \/ ClockTick \/ HRestart \/ lockout' = lockout
  BY DEF HNext, Finish, Begin, AttemptAccepted, ReadAllowed, StartContacts, hvars,
         vars
<1> QED BY <1>1, <1>2, <1>3, <1>4, <1>5

(***************************************************************************)
(* No lockout rests on attempts that already led to an earlier one: the    *)
(* window is shorter than a lockout, so when a lockout is over the         *)
(* attempts before it are too old for recordBlockedAttempt to count.       *)
(***************************************************************************)
THEOREM LockoutsAreEarnedAnew == HSpec => LockoutEarnedAnew
<1>1. HInv /\ [HNext]_hvars =>
        [\A fp \in Admissible :
            (lockout[fp] = 0 /\ lockout'[fp] > 0)
                => strikes[fp] >= AbuseThreshold - 1]_hvars
  BY ImposedIsEarned
<1> QED BY <1>1, HInvInit, HInvStep, PTL DEF HSpec, LockoutEarnedAnew
=============================================================================
