-------------------------- MODULE GoalRecord_proofs --------------------------
(***************************************************************************)
(* What the transitions of the goal record keep and change, field by       *)
(* field.  The proofs about the tracker and about the session rest on      *)
(* these facts and never expand the record again.                          *)
(***************************************************************************)
EXTENDS GoalRecord, TLAPS

\* The fields of the goal's life, of the verification ladder and of the
\* strategist, as h keeps them from g.
SameLife(g, h) ==
    /\ h.status = g.status
    /\ h.timer <=> g.timer
    /\ h.message <=> g.message
SameLadder(g, h) ==
    /\ h.attempts = g.attempts
    /\ h.deferred = g.deferred
SameStrategist(g, h) ==
    /\ h.consec = g.consec
    /\ h.fired = g.fired
    /\ h.bonus = g.bonus
    /\ h.advice <=> g.advice

\* A goal record that is ended is a goal record.
LEMMA EndedIsGoal ==
    ASSUME NEW g \in Goals, NEW status \in Terminal
    PROVE  [g EXCEPT !.status = status, !.phase = "idle", !.timer = FALSE,
                     !.message = FALSE] \in Goals
  BY DEF Goals, Statuses, Terminal

\* So is one that is resumed.
LEMMA ResumedIsGoal ==
    ASSUME NEW g \in Goals
    PROVE  [g EXCEPT !.status = "active", !.timer = TRUE, !.message = FALSE,
                     !.attempts = 0] \in Goals
  BY DEF Goals, Statuses

\* So is one whose gap is counted.
LEMMA StalledIsGoal ==
    ASSUME NEW g \in Goals, NEW gap \in Nat, NEW n \in Nat
    PROVE  [g EXCEPT !.gap = gap, !.stall = n] \in Goals
  BY DEF Goals

USE DEF Goals, Statuses, PausedStatuses, Terminal, IsActive, IsPaused, Exists,
        NoGoal, CreateGoal, GoalWide, NoGap, SameLife, SameLadder, SameStrategist

\* The types of the fields the proofs look at.
LEMMA GoalFields ==
    ASSUME NEW g \in Goals
    PROVE  /\ g.status \in Statuses /\ g.verdict \in {"pending", "achieved", "rejected"}
           /\ g.timer \in BOOLEAN /\ g.message \in BOOLEAN /\ g.advice \in BOOLEAN
           /\ g.attempts \in Nat /\ g.consec \in Nat /\ g.fired \in Nat /\ g.bonus \in Nat
           /\ g.infra \in Nat /\ g.amended \in Nat /\ g.deferred \in SUBSET Nat
    OBVIOUS

\* No goal and a fresh goal are records of the right shape.
LEMMA FreshGoals == NoGoal \in Goals /\ CreateGoal \in Goals
    OBVIOUS

-----------------------------------------------------------------------------
(* Lifecycle. *)

\* The reset of the strategist takes streak, marker, bonus and note together,
\* and nothing else.
LEMMA ResetStrategistFacts ==
    ASSUME NEW g \in Goals
    PROVE  /\ ResetStrategist(g) \in Goals /\ SameLife(g, ResetStrategist(g))
           /\ SameLadder(g, ResetStrategist(g))
           /\ ResetStrategist(g).verdict = g.verdict /\ ResetStrategist(g).infra = g.infra
           /\ ResetStrategist(g).fired = 0 /\ ResetStrategist(g).consec = 0
           /\ ResetStrategist(g).bonus = 0 /\ ~ResetStrategist(g).advice
    BY DEF ResetStrategist

\* Forgetting the gap fingerprint touches nothing another rule reads.
LEMMA ResetStallFacts ==
    ASSUME NEW g \in Goals
    PROVE  /\ ResetStall(g) \in Goals /\ SameLife(g, ResetStall(g))
           /\ SameLadder(g, ResetStall(g)) /\ SameStrategist(g, ResetStall(g))
           /\ ResetStall(g).verdict = g.verdict /\ ResetStall(g).infra = g.infra
    BY DEF ResetStall

\* h is g after a pause: it takes effect on an Active goal only and leaves the
\* ladder alone.
Paused(g, h, status) ==
    /\ h \in Goals /\ SameLadder(g, h) /\ SameStrategist(g, h)
    /\ h.verdict = g.verdict /\ h.infra = g.infra
    /\ IsActive(g) => h.status = status /\ ~h.timer
    /\ ~IsActive(g) => h = g

\* A pause with or without a message.
LEMMA PauseFacts ==
    ASSUME NEW g \in Goals, NEW status \in PausedStatuses
    PROVE  /\ Paused(g, Pause(g, status, TRUE), status)
           /\ Paused(g, Pause(g, status, FALSE), status)
<1>1. ASSUME NEW message \in BOOLEAN PROVE Paused(g, Pause(g, status, message), status)
    BY DEF Pause, Paused
<1>2. QED
    BY <1>1, Zenon

\* A resume starts the ladder afresh and keeps verdict and deferrals.
LEMMA ResumeFacts ==
    ASSUME NEW g \in Goals
    PROVE  /\ Resume(g) \in Goals
           /\ Resume(g).verdict = g.verdict /\ Resume(g).infra = g.infra
           /\ Resume(g).deferred = g.deferred
           /\ IsPaused(g) => /\ Resume(g).status = "active"
                             /\ Resume(g).timer /\ ~Resume(g).message
                             /\ Resume(g).attempts = 0 /\ Resume(g).bonus = 0
                             /\ Resume(g).fired = 0 /\ Resume(g).consec = 0
           /\ ~IsPaused(g) => Resume(g) = g
<1> DEFINE q == ResetStrategist(g)
           r == ResetStall(q)
<1>0. /\ q \in Goals /\ q.verdict = g.verdict /\ q.infra = g.infra
      /\ q.deferred = g.deferred
      /\ q.bonus = 0 /\ q.fired = 0 /\ q.consec = 0
    BY ResetStrategistFacts
<1> HIDE DEF q
<1>1. /\ r \in Goals /\ r.verdict = g.verdict /\ r.infra = g.infra
      /\ r.deferred = g.deferred
      /\ r.bonus = 0 /\ r.fired = 0 /\ r.consec = 0
    BY <1>0, ResetStallFacts
<1>2. Resume(g) = IF IsPaused(g)
                  THEN [r EXCEPT !.status = "active", !.timer = TRUE, !.message = FALSE,
                                 !.attempts = 0]
                  ELSE g
    BY DEF Resume, q
<1> HIDE DEF r
<1>3. CASE IsPaused(g)
    <2> DEFINE s == [r EXCEPT !.status = "active", !.timer = TRUE, !.message = FALSE,
                              !.attempts = 0]
    <2>1. Resume(g) = s
        BY <1>2, <1>3, Zenon
    <2>2. s \in Goals
        BY <1>1, ResumedIsGoal, Zenon
    <2>3. /\ s.verdict = r.verdict /\ s.infra = r.infra /\ s.deferred = r.deferred
          /\ s.status = "active" /\ s.timer /\ ~s.message /\ s.attempts = 0
          /\ s.bonus = r.bonus /\ s.fired = r.fired /\ s.consec = r.consec
        BY <1>1
    <2> HIDE DEF s, Goals
    <2>4. QED
        BY <1>1, <1>3, <2>1, <2>2, <2>3
<1>4. CASE ~IsPaused(g)
    <2>1. Resume(g) = g
        BY <1>2, <1>4, Zenon
    <2> HIDE DEF Goals
    <2>2. QED
        BY <1>4, <2>1
<1>5. QED
    BY <1>3, <1>4

\* Both endings stop the timer and drop the message, and keep the verdict.
LEMMA FinishFacts ==
    ASSUME NEW g \in Goals, NEW status \in Terminal
    PROVE  /\ Finish(g, status) \in Goals
           /\ Finish(g, status).verdict = g.verdict /\ Finish(g, status).infra = g.infra
           /\ SameLadder(g, Finish(g, status))
           /\ (IsActive(g) \/ IsPaused(g)) =>
                 /\ Finish(g, status).status = status /\ ~Finish(g, status).timer
                 /\ ~Finish(g, status).message
                 /\ Finish(g, status).fired = 0 /\ Finish(g, status).consec = 0
                 /\ Finish(g, status).bonus = 0
           /\ ~(IsActive(g) \/ IsPaused(g)) => Finish(g, status) = g
<1> DEFINE r == ResetStrategist(g)
<1>1. /\ r \in Goals /\ SameLadder(g, r) /\ r.verdict = g.verdict /\ r.infra = g.infra
      /\ r.bonus = 0 /\ r.fired = 0 /\ r.consec = 0
    BY ResetStrategistFacts
<1>2. Finish(g, status) =
          IF IsActive(g) \/ IsPaused(g)
          THEN [r EXCEPT !.status = status, !.phase = "idle", !.timer = FALSE,
                         !.message = FALSE]
          ELSE g
    BY DEF Finish
<1> HIDE DEF r
<1>3. CASE IsActive(g) \/ IsPaused(g)
    <2>1. Finish(g, status) \in Goals
        <3>1. [r EXCEPT !.status = status, !.phase = "idle", !.timer = FALSE,
                        !.message = FALSE] \in Goals
            BY <1>1, EndedIsGoal
        <3> HIDE DEF Goals
        <3>2. QED
            BY <1>2, <1>3, <3>1
    <2>2. /\ Finish(g, status).verdict = r.verdict /\ Finish(g, status).infra = r.infra
          /\ SameLadder(r, Finish(g, status))
          /\ Finish(g, status).status = status /\ ~Finish(g, status).timer
          /\ ~Finish(g, status).message
          /\ Finish(g, status).fired = r.fired /\ Finish(g, status).consec = r.consec
          /\ Finish(g, status).bonus = r.bonus
        BY <1>1, <1>2, <1>3
    <2>3. QED
        BY <1>1, <1>3, <2>1, <2>2
<1>4. CASE ~(IsActive(g) \/ IsPaused(g))
    BY <1>2, <1>4
<1>5. QED
    BY <1>3, <1>4

-----------------------------------------------------------------------------
(* The verification ladder. *)

\* Reserving takes one attempt; giving it back never adds one.
LEMMA AttemptFacts ==
    ASSUME NEW g \in Goals
    PROVE  /\ /\ ReserveAttempt(g) \in Goals /\ SameLife(g, ReserveAttempt(g))
              /\ SameStrategist(g, ReserveAttempt(g))
              /\ ReserveAttempt(g).verdict = g.verdict /\ ReserveAttempt(g).infra = g.infra
              /\ ReserveAttempt(g).deferred = g.deferred
              /\ ReserveAttempt(g).attempts = g.attempts + 1
           /\ /\ RollbackAttempt(g) \in Goals /\ SameLife(g, RollbackAttempt(g))
              /\ SameStrategist(g, RollbackAttempt(g))
              /\ RollbackAttempt(g).verdict = g.verdict
              /\ RollbackAttempt(g).infra = g.infra
              /\ RollbackAttempt(g).deferred = g.deferred
              /\ RollbackAttempt(g).attempts <= g.attempts
    BY DEF ReserveAttempt, RollbackAttempt

\* The panel's last word changes the verdict only.
LEMMA RecordVerdictFacts ==
    ASSUME NEW g \in Goals, NEW v \in {"achieved", "rejected"}
    PROVE  /\ RecordVerdict(g, v) \in Goals /\ SameLife(g, RecordVerdict(g, v))
           /\ SameLadder(g, RecordVerdict(g, v)) /\ SameStrategist(g, RecordVerdict(g, v))
           /\ RecordVerdict(g, v).verdict = v /\ RecordVerdict(g, v).infra = g.infra
    BY DEF RecordVerdict

\* A rejection lengthens the streak the strategist waits for.
LEMMA RecordStreakFacts ==
    ASSUME NEW g \in Goals
    PROVE  /\ RecordStreak(g) \in Goals /\ SameLife(g, RecordStreak(g))
           /\ SameLadder(g, RecordStreak(g))
           /\ RecordStreak(g).verdict = g.verdict /\ RecordStreak(g).infra = g.infra
           /\ RecordStreak(g).consec = g.consec + 1 /\ RecordStreak(g).fired = g.fired
           /\ RecordStreak(g).bonus = g.bonus /\ RecordStreak(g).advice = g.advice
    BY DEF RecordStreak

\* Counting a repeated gap touches nothing another rule reads.
LEMMA RecordStallFacts ==
    ASSUME NEW g \in Goals, NEW gap \in Nat
    PROVE  /\ RecordStall(g, gap) \in Goals /\ SameLife(g, RecordStall(g, gap))
           /\ SameLadder(g, RecordStall(g, gap)) /\ SameStrategist(g, RecordStall(g, gap))
           /\ RecordStall(g, gap).verdict = g.verdict /\ RecordStall(g, gap).infra = g.infra
<1>1. PICK n \in Nat : RecordStall(g, gap) = IF gap = NoGap THEN g
                                             ELSE [g EXCEPT !.gap = gap, !.stall = n]
    <2>1. (IF g.gap = gap THEN g.stall + 1 ELSE 1) \in Nat
        OBVIOUS
    <2>2. QED
        BY <2>1 DEF RecordStall
<1>2. CASE gap = NoGap
    BY <1>1, <1>2
<1>3. CASE gap # NoGap
    <2> DEFINE s == [g EXCEPT !.gap = gap, !.stall = n]
    <2>1. RecordStall(g, gap) = s
        BY <1>1, <1>3, Zenon
    <2>2. s \in Goals
        BY StalledIsGoal, Zenon
    <2>3. /\ SameLife(g, s) /\ SameLadder(g, s) /\ SameStrategist(g, s)
          /\ s.verdict = g.verdict /\ s.infra = g.infra
        OBVIOUS
    <2> HIDE DEF s, Goals, SameLife, SameLadder, SameStrategist
    <2>4. QED
        BY <2>1, <2>2, <2>3
<1>4. QED
    BY <1>2, <1>3, Zenon

\* The bonus is what the strategist was claimed for; note and revocation
\* settle it.
LEMMA StrategistFacts ==
    ASSUME NEW g \in Goals
    PROVE  /\ /\ ClaimStrategist(g) \in Goals /\ SameLife(g, ClaimStrategist(g))
              /\ SameLadder(g, ClaimStrategist(g))
              /\ ClaimStrategist(g).verdict = g.verdict
              /\ ClaimStrategist(g).infra = g.infra
              /\ ClaimStrategist(g).fired = g.consec /\ ClaimStrategist(g).consec = g.consec
              /\ ClaimStrategist(g).bonus = CapBonus /\ ClaimStrategist(g).advice = g.advice
           /\ /\ RevokeBonus(g) \in Goals /\ SameLife(g, RevokeBonus(g))
              /\ SameLadder(g, RevokeBonus(g))
              /\ RevokeBonus(g).verdict = g.verdict /\ RevokeBonus(g).infra = g.infra
              /\ RevokeBonus(g).fired = g.fired /\ RevokeBonus(g).consec = g.consec
              /\ RevokeBonus(g).bonus = 0 /\ RevokeBonus(g).advice = g.advice
           /\ /\ RecordAdvice(g) \in Goals /\ SameLife(g, RecordAdvice(g))
              /\ SameLadder(g, RecordAdvice(g))
              /\ RecordAdvice(g).verdict = g.verdict /\ RecordAdvice(g).infra = g.infra
              /\ RecordAdvice(g).fired = g.fired /\ RecordAdvice(g).consec = g.consec
              /\ RecordAdvice(g).bonus = g.bonus /\ RecordAdvice(g).advice
<1>1. /\ ClaimStrategist(g) \in Goals /\ SameLife(g, ClaimStrategist(g))
      /\ SameLadder(g, ClaimStrategist(g))
      /\ ClaimStrategist(g).verdict = g.verdict /\ ClaimStrategist(g).infra = g.infra
      /\ ClaimStrategist(g).fired = g.consec /\ ClaimStrategist(g).consec = g.consec
      /\ ClaimStrategist(g).bonus = CapBonus /\ ClaimStrategist(g).advice = g.advice
    <2> DEFINE c == [g EXCEPT !.fired = g.consec, !.bonus = CapBonus]
    <2>1. /\ c \in Goals /\ SameLife(g, c) /\ SameLadder(g, c)
          /\ c.verdict = g.verdict /\ c.infra = g.infra
          /\ c.fired = g.consec /\ c.consec = g.consec
          /\ c.bonus = CapBonus /\ c.advice = g.advice
        BY LadderConstants
    <2>2. ClaimStrategist(g) = ResetStall(c)
        BY DEF ClaimStrategist
    <2> HIDE DEF c
    <2>3. QED
        BY <2>1, <2>2, ResetStallFacts
<1>2. QED
    BY <1>1 DEF RevokeBonus, RecordAdvice

\* A deferral only adds to what was given up.
LEMMA DeferFacts ==
    ASSUME NEW g \in Goals, NEW criteria \in SUBSET Nat
    PROVE  /\ Defer(g, criteria) \in Goals /\ SameLife(g, Defer(g, criteria))
           /\ SameStrategist(g, Defer(g, criteria))
           /\ Defer(g, criteria).verdict = g.verdict /\ Defer(g, criteria).infra = g.infra
           /\ Defer(g, criteria).attempts = g.attempts
           /\ Defer(g, criteria).deferred = g.deferred \cup criteria
    BY DEF Defer

\* A fresh budget refills the attempts; the bonus stays.
LEMMA GrantFacts ==
    ASSUME NEW g \in Goals
    PROVE  /\ GrantFreshBudget(g) \in Goals /\ SameLife(g, GrantFreshBudget(g))
           /\ SameStrategist(g, GrantFreshBudget(g))
           /\ GrantFreshBudget(g).verdict = g.verdict /\ GrantFreshBudget(g).infra = g.infra
           /\ GrantFreshBudget(g).attempts = 0 /\ GrantFreshBudget(g).deferred = g.deferred
<1> DEFINE r == [g EXCEPT !.attempts = 0]
<1>1. /\ r \in Goals /\ SameLife(g, r) /\ SameStrategist(g, r)
      /\ r.verdict = g.verdict /\ r.infra = g.infra
      /\ r.attempts = 0 /\ r.deferred = g.deferred
    OBVIOUS
<1>2. GrantFreshBudget(g) = ResetStall(r)
    BY DEF GrantFreshBudget
<1> HIDE DEF r
<1>3. QED
    BY <1>1, <1>2, ResetStallFacts

\* Claiming an amender run counts it and changes nothing else.
LEMMA AmenderFacts ==
    ASSUME NEW g \in Goals
    PROVE  /\ ClaimAmender(g) \in Goals /\ SameLife(g, ClaimAmender(g))
           /\ SameLadder(g, ClaimAmender(g)) /\ SameStrategist(g, ClaimAmender(g))
           /\ ClaimAmender(g).verdict = g.verdict /\ ClaimAmender(g).infra = g.infra
    BY DEF ClaimAmender

-----------------------------------------------------------------------------
(* Infrastructure failures. *)

\* The infra streak counts failed turns and is cleared by a good one.
LEMMA InfraFacts ==
    ASSUME NEW g \in Goals
    PROVE  /\ /\ RecordInfraFailure(g) \in Goals /\ SameLife(g, RecordInfraFailure(g))
              /\ SameLadder(g, RecordInfraFailure(g))
              /\ SameStrategist(g, RecordInfraFailure(g))
              /\ RecordInfraFailure(g).verdict = g.verdict
              /\ RecordInfraFailure(g).infra = g.infra + 1
           /\ /\ ClearInfraStreak(g) \in Goals /\ SameLife(g, ClearInfraStreak(g))
              /\ SameLadder(g, ClearInfraStreak(g))
              /\ SameStrategist(g, ClearInfraStreak(g))
              /\ ClearInfraStreak(g).verdict = g.verdict /\ ClearInfraStreak(g).infra = 0
    BY DEF RecordInfraFailure, ClearInfraStreak

=============================================================================
