------------------------- MODULE GoalSession_proofs -------------------------
(***************************************************************************)
(* What holds of a goal's session for every plan, panel, threshold, order  *)
(* of turns and interleaving of the user.                                  *)
(***************************************************************************)
EXTENDS GoalSession, GoalRecord_proofs

USE DEF turnVars, hostVars

-----------------------------------------------------------------------------
(* Facts about the operators of the session.                                *)

\* What a panel may say, field by field.
LEMMA AnswerFields ==
    ASSUME NEW a \in PanelAnswers \cup {NoAnswer}
    PROVE  /\ a.kind \in Answers \cup {"none"}
           /\ a.refuted \in SUBSET Nat
           /\ a.gap \in Nat
           /\ Deferral(a) \in SUBSET Nat
<1>1. CASE a = NoAnswer
    BY <1>1 DEF NoAnswer, NoGap, Deferral, Localized, GoalWide
<1>2. CASE a \in PanelAnswers
    BY <1>2, SessionConstants DEF PanelAnswers, NoGap, Deferral, Localized, GoalWide
<1>3. QED
    BY <1>1, <1>2

\* A plan with its boxes inside its rows.
Sound(p) == p \in Plans /\ p.exec \cup p.audit \subseteq Rows(p)

\* Writing, auditing, rejecting and ticking keep a plan sound.
LEMMA PlanFacts ==
    ASSUME NEW p, Sound(p), NEW a
    PROVE  /\ Sound(NoPlan)
           /\ \A n \in Nat : Sound(FreshPlan(n))
           /\ Sound(AuditAll(p)) /\ Sound(AuditNone(p)) /\ Sound(Rejected(p, a))
           /\ AuditAll(p).rows = p.rows /\ AuditAll(p).exec = p.exec
           /\ AuditAll(p).audit = Rows(p)
           /\ AuditNone(p).rows = p.rows /\ AuditNone(p).exec = p.exec
           /\ AuditNone(p).audit = {}
           /\ Rejected(p, a).rows = p.rows /\ Rejected(p, a).exec = p.exec
           /\ Rejected(p, a).audit = IF Localized(a) THEN p.audit \ WithDependents(p, a.refuted)
                                     ELSE {}
    BY DEF Sound, Plans, Rows, NoPlan, FreshPlan, AuditAll, AuditNone, Rejected

\* The ladder after a rejection: the goal's life goes on unchanged with the
\* verdict rejected; only a change of strategy raises the bonus; and a goal
\* that goes on is below its cap or has its budget back.
LEMMA JudgeFacts ==
    ASSUME NEW g \in Goals, NEW p, answer \in PanelAnswers \cup {NoAnswer}, Judge(g, p)
    PROVE  /\ plan' = p
           /\ goal' \in Goals /\ SameLife(g, goal')
           /\ goal'.verdict = "rejected" /\ goal'.infra = g.infra
           /\ pc' \in {"stop", "strategy", "drain"}
           /\ goal'.advice <=> g.advice
           /\ pc' = "strategy" => goal'.bonus = CapBonus
           /\ pc' # "strategy" => goal'.bonus = g.bonus
           /\ goal'.attempts \in {0, g.attempts}
           /\ pc' # "stop" => goal'.attempts = 0 \/ g.attempts < MaxRuns + g.bonus
<1> DEFINE judged == RecordVerdict(g, "rejected")
           noted == RecordStreak(judged)
           capped == noted.attempts >= Cap(noted, MaxRuns)
           overCap == GiveUp(noted)
           granted == GrantFreshBudget(overCap)
           afterCap == IF capped THEN granted ELSE noted
           stalled == Stalled(afterCap, answer.gap)
           counted == RecordStall(afterCap, answer.gap)
           tried == counted.bonus > 0
           overStall == GiveUp(counted)
           regranted == GrantFreshBudget(overStall)
           kept == IF stalled /\ tried THEN regranted ELSE counted
           Keeps(h) == /\ h \in Goals /\ SameLife(g, h) /\ (h.advice <=> g.advice)
                       /\ h.verdict = "rejected" /\ h.infra = g.infra
                       /\ h.bonus = g.bonus /\ h.attempts \in {0, g.attempts}
<1> USE DEF SameLife, SameLadder, SameStrategist
<1>1. Keeps(noted) /\ noted.attempts = g.attempts
    <2>1. /\ judged \in Goals /\ SameLife(g, judged) /\ SameLadder(g, judged)
          /\ SameStrategist(g, judged) /\ judged.verdict = "rejected" /\ judged.infra = g.infra
        BY RecordVerdictFacts
    <2> HIDE DEF judged
    <2>2. QED
        BY <2>1, RecordStreakFacts
<1> HIDE DEF noted
<1>2. Keeps(overCap)
    BY <1>1, AnswerFields, DeferFacts DEF GiveUp
<1> HIDE DEF overCap
<1>3. Keeps(granted) /\ granted.attempts = 0
    BY <1>2, GrantFacts
<1> HIDE DEF granted
<1>4. Keeps(afterCap) /\ (afterCap.attempts = 0 \/ g.attempts < MaxRuns + g.bonus)
    <2>1. g.attempts \in Nat /\ g.bonus \in Nat
        BY GoalFields
    <2>2. ~capped => g.attempts < MaxRuns + g.bonus
        BY <1>1, <2>1, SessionConstants DEF Cap
    <2>3. QED
        BY <1>1, <1>3, <2>2
<1> HIDE DEF afterCap
<1>5. Keeps(counted) /\ counted.attempts = afterCap.attempts
    BY <1>4, AnswerFields, RecordStallFacts
<1> HIDE DEF counted
<1>6. Keeps(overStall)
    BY <1>5, AnswerFields, DeferFacts DEF GiveUp
<1> HIDE DEF overStall
<1>7. Keeps(regranted) /\ regranted.attempts = 0
    BY <1>6, GrantFacts
<1> HIDE DEF regranted
<1>8. Keeps(kept) /\ (kept.attempts = 0 \/ g.attempts < MaxRuns + g.bonus)
    BY <1>4, <1>5, <1>7
<1> HIDE DEF kept
<1>9. /\ plan' = p
      /\ \/ goal' \in {overCap, overStall} /\ pc' = "stop"
         \/ goal' = ClaimStrategist(kept) /\ pc' = "strategy"
         \/ goal' = kept /\ pc' = "drain"
    BY DEF Judge, noted, judged, overCap, granted, afterCap, counted, overStall, regranted, kept
<1>10. CASE goal' \in {overCap, overStall} /\ pc' = "stop"
    BY <1>2, <1>6, <1>9, <1>10
<1>11. CASE goal' = ClaimStrategist(kept) /\ pc' = "strategy"
    BY <1>8, <1>9, <1>11, StrategistFacts
<1>12. CASE goal' = kept /\ pc' = "drain"
    BY <1>8, <1>9, <1>12
<1>13. QED
    BY <1>9, <1>10, <1>11, <1>12

\* The other composite transitions of the goal, in the same terms.
LEMMA BlocksFacts ==
    ASSUME NEW g \in Goals
    PROVE  /\ Blocks(g) \in Goals /\ SameLife(g, Blocks(g)) /\ SameStrategist(g, Blocks(g))
           /\ Blocks(g).verdict = g.verdict /\ Blocks(g).infra = g.infra
           /\ Blocks(g).attempts = g.attempts
    BY DeferFacts DEF Blocks, GoalWide

\* Dropping a turn gives back what it had reserved.
LEMMA AbandonFacts ==
    ASSUME NEW g \in Goals
    PROVE  /\ Abandon(g) \in Goals /\ SameLife(g, Abandon(g))
           /\ Abandon(g).verdict = g.verdict /\ Abandon(g).infra = g.infra
           /\ Abandon(g).deferred = g.deferred
           /\ Abandon(g).advice <=> g.advice
           /\ pc = "strategy" => Abandon(g).bonus = 0
           /\ pc # "strategy" => Abandon(g).bonus = g.bonus
<1> USE DEF SameLife, SameLadder, SameStrategist
<1>1. CASE pc = "verify"
    BY <1>1, AttemptFacts DEF Abandon, Refund
<1>2. CASE pc = "strategy"
    BY <1>2, StrategistFacts DEF Abandon
<1>3. CASE pc \notin {"verify", "strategy"}
    BY <1>3 DEF Abandon
<1>4. QED
    BY <1>1, <1>2, <1>3

\* Accepting the work records the verdict and clears the strategist.
Approve(g) == ResetStrategist(RecordVerdict(g, "achieved"))

\* An approval keeps the goal's life and attempts, and drops the bonus.
LEMMA ApproveFacts ==
    ASSUME NEW g \in Goals
    PROVE  /\ Approve(g) \in Goals /\ SameLife(g, Approve(g)) /\ SameLadder(g, Approve(g))
           /\ Approve(g).verdict = "achieved" /\ Approve(g).infra = g.infra
           /\ Approve(g).bonus = 0
    BY RecordVerdictFacts, ResetStrategistFacts DEF Approve, SameLife, SameLadder

\* A panel that cannot be satisfied gives the slot back and clears the ladder.
GiveBack(g) == ResetStrategist(ResetStall(RollbackAttempt(RecordVerdict(g, "rejected"))))

\* Giving a slot back never adds an attempt.
LEMMA GiveBackFacts ==
    ASSUME NEW g \in Goals
    PROVE  /\ GiveBack(g) \in Goals /\ SameLife(g, GiveBack(g))
           /\ GiveBack(g).verdict = "rejected" /\ GiveBack(g).infra = g.infra
           /\ GiveBack(g).bonus = 0 /\ GiveBack(g).attempts <= g.attempts
<1> USE DEF SameLife, SameLadder
<1> DEFINE v == RecordVerdict(g, "rejected")
           r == RollbackAttempt(v)
           s == ResetStall(r)
<1>1. /\ v \in Goals /\ SameLife(g, v) /\ v.attempts = g.attempts /\ v.verdict = "rejected"
      /\ v.infra = g.infra
    BY RecordVerdictFacts
<1> HIDE DEF v
<1>2. /\ r \in Goals /\ SameLife(g, r) /\ r.attempts <= g.attempts /\ r.verdict = "rejected"
      /\ r.infra = g.infra
    BY <1>1, AttemptFacts
<1> HIDE DEF r
<1>3. /\ s \in Goals /\ SameLife(g, s) /\ s.attempts <= g.attempts /\ s.verdict = "rejected"
      /\ s.infra = g.infra
    BY <1>2, ResetStallFacts
<1> HIDE DEF s
<1>4. GiveBack(g) = ResetStrategist(s)
    BY DEF GiveBack, v, r, s
<1>5. QED
    BY <1>3, <1>4, ResetStrategistFacts

\* The verdict of a verification that failed open.
FailOpen(g) == RecordStreak(RecordVerdict(g, "rejected"))

\* A verification that fails open leaves attempts and bonus as they are.
LEMMA FailOpenFacts ==
    ASSUME NEW g \in Goals
    PROVE  /\ FailOpen(g) \in Goals /\ SameLife(g, FailOpen(g)) /\ SameLadder(g, FailOpen(g))
           /\ FailOpen(g).verdict = "rejected" /\ FailOpen(g).infra = g.infra
           /\ FailOpen(g).bonus = g.bonus /\ (FailOpen(g).advice <=> g.advice)
    BY RecordVerdictFacts, RecordStreakFacts
       DEF FailOpen, SameLife, SameLadder, SameStrategist

\* h is g after infrastructure recovery: its status kept, or paused for it.
Recovered(g, h) ==
    /\ h \in Goals /\ SameLadder(g, h) /\ SameStrategist(g, h)
    /\ h.verdict = g.verdict
    /\ h.status = g.status \/ (IsActive(g) /\ h.status = "infra_paused")

\* Infrastructure recovery counts the failure, or pauses an Active goal.
LEMMA AfterInfraFacts ==
    ASSUME NEW g \in Goals, NEW result
    PROVE  /\ Recovered(g, AfterInfra(g, result))
           /\ result \notin {"infra", "auth"} => AfterInfra(g, result) = g
           /\ result = "auth" => ~IsActive(AfterInfra(g, result))
           /\ result = "infra" /\ IsActive(AfterInfra(g, result)) => Retries(g, result)
<1> USE DEF SameLife, SameLadder, SameStrategist
<1> DEFINE r == RecordInfraFailure(g)
<1>1. /\ r \in Goals /\ SameLife(g, r) /\ SameLadder(g, r) /\ SameStrategist(g, r)
      /\ r.verdict = g.verdict /\ r.infra = g.infra + 1
    BY InfraFacts
<1>2. \/ AfterInfra(g, result) \in {g, r}
      \/ IsActive(g) /\ AfterInfra(g, result) = Pause(r, "infra_paused", TRUE)
      \/ IsActive(g) /\ AfterInfra(g, result) = Pause(g, "infra_paused", TRUE)
    BY DEF AfterInfra
<1> HIDE DEF r
<1>3. ASSUME NEW s \in {g, r}, IsActive(g),
             AfterInfra(g, result) = Pause(s, "infra_paused", TRUE)
      PROVE  /\ AfterInfra(g, result) \in Goals
             /\ SameLadder(s, AfterInfra(g, result))
             /\ SameStrategist(s, AfterInfra(g, result))
             /\ AfterInfra(g, result).verdict = s.verdict
             /\ AfterInfra(g, result).status = "infra_paused"
    <2>1. s \in Goals /\ IsActive(s)
        BY <1>1, <1>3 DEF IsActive
    <2>2. Paused(s, AfterInfra(g, result), "infra_paused")
        BY <1>3, <2>1, PauseFacts DEF PausedStatuses
    <2>3. QED
        BY <2>1, <2>2 DEF Paused
<1>4. Recovered(g, AfterInfra(g, result))
    <2> USE DEF Recovered
    <2>1. CASE AfterInfra(g, result) \in {g, r}
        BY <1>1, <2>1
    <2>2. CASE IsActive(g) /\ AfterInfra(g, result) = Pause(r, "infra_paused", TRUE)
        BY <1>1, <1>3, <2>2
    <2>3. CASE IsActive(g) /\ AfterInfra(g, result) = Pause(g, "infra_paused", TRUE)
        BY <1>1, <1>3, <2>3
    <2>4. QED
        BY <1>2, <2>1, <2>2, <2>3
<1>5. result \notin {"infra", "auth"} => AfterInfra(g, result) = g
    BY DEF AfterInfra
<1>6. result = "auth" => ~IsActive(AfterInfra(g, result))
    <2>1. CASE ~IsActive(g)
        BY <2>1 DEF AfterInfra
    <2>2. CASE IsActive(g)
        <3>1. result = "auth" => AfterInfra(g, result) = Pause(g, "infra_paused", TRUE)
            BY <2>2 DEF AfterInfra
        <3>2. QED
            BY <1>3, <2>2, <3>1 DEF IsActive
    <2>3. QED
        BY <2>1, <2>2
<1>7. result = "infra" /\ IsActive(AfterInfra(g, result)) => Retries(g, result)
    <2>1. CASE ~IsActive(g)
        BY <2>1 DEF AfterInfra
    <2>2. CASE IsActive(g) /\ ~Retries(g, result)
        <3>1. result = "infra" => AfterInfra(g, result) = Pause(r, "infra_paused", TRUE)
            BY <2>2 DEF AfterInfra, Retries, r
        <3>2. QED
            BY <1>3, <2>2, <3>1 DEF IsActive
    <2>3. QED
        BY <2>1, <2>2
<1>8. QED
    BY <1>4, <1>5, <1>6, <1>7

\* A report of being blocked counts, defers, or stops the run.
LEMMA ReportBlockedFacts ==
    ASSUME goal \in Goals, ReportBlocked
    PROVE  /\ UNCHANGED <<plan, planned, pc, stage, ui, turnVars, hostVars>>
           /\ blocked' \in {0, blocked, blocked + 1}
           /\ \/ UNCHANGED <<goal, pending>>
              \/ goal' = Blocks(goal) /\ pending' = pending
              \/ Paused(Blocks(goal), goal', "blocked") /\ pending' = 0
<1>1. Paused(Blocks(goal), Pause(Blocks(goal), "blocked", TRUE), "blocked")
    BY BlocksFacts, PauseFacts DEF PausedStatuses
<1>2. /\ UNCHANGED <<plan, planned, pc, stage, ui, turnVars, hostVars>>
      /\ blocked' \in {0, blocked, blocked + 1}
    BY DEF ReportBlocked
<1>3. \/ UNCHANGED <<goal, pending>>
      \/ goal' = Blocks(goal) /\ pending' = pending
      \/ goal' = Pause(Blocks(goal), "blocked", TRUE) /\ pending' = 0
    BY DEF ReportBlocked
<1>4. QED
    BY <1>1, <1>2, <1>3

\* Settling a turn keeps an inactive goal as it is, clears the infra streak
\* of an Active one that did well, and schedules a retry or pauses one that
\* met an infrastructure failure; whatever stops the goal drops its claims.
LEMMA SettleFacts ==
    ASSUME goal \in Goals, NEW budget \in BOOLEAN, Settle(budget)
    PROVE  /\ UNCHANGED <<plan, planned, left, answer, asked, rounds, blocked, queued, posture,
                          ui, turns>>
           /\ pc' = "idle" /\ stage' = "none"
           /\ goal' \in Goals
           /\ goal'.verdict = goal.verdict /\ goal'.attempts = goal.attempts
           /\ goal'.bonus = 0 \/ (goal'.bonus = goal.bonus /\ (goal'.advice <=> goal.advice))
           /\ \/ goal'.status = goal.status
              \/ IsActive(goal) /\ IsPaused(goal') /\ pending' = 0
              \/ /\ IsActive(goal) /\ goal'.status = "budget_limited"
                 /\ goal'.deferred = goal.deferred /\ pending' = 0
           /\ pending' \in {0, pending}
           /\ timers' \in {timers, timers + 1}
           /\ stage \in {"ok", "pause"} /\ IsActive(goal') => goal'.infra = 0
           /\ stage = "infra" /\ IsActive(goal') => timers' = timers + 1
           /\ stage = "auth" => ~IsActive(goal')
<1> DEFINE g == AfterInfra(goal, stage)
           c == ClearInfraStreak(g)
           b == Blocks(g)
           s == IF Succeeded(stage) THEN c ELSE g
           e == BudgetLimit(s)
           p == Pause(b, "blocked", TRUE)
<1> USE DEF SameLife, SameLadder, SameStrategist
<1>0. /\ Recovered(goal, g)
      /\ stage = "auth" => ~IsActive(g)
      /\ stage = "infra" /\ IsActive(g) => Retries(goal, stage)
    BY AfterInfraFacts
<1>1. /\ g \in Goals /\ SameLadder(goal, g) /\ SameStrategist(goal, g)
      /\ g.verdict = goal.verdict
      /\ g.status = goal.status \/ (IsActive(goal) /\ g.status = "infra_paused")
    BY <1>0 DEF Recovered
<1> HIDE DEF g
<1>2. /\ c \in Goals /\ SameLife(g, c) /\ SameLadder(g, c) /\ SameStrategist(g, c)
      /\ c.verdict = g.verdict /\ c.infra = 0
    BY <1>1, InfraFacts
<1>3. /\ b \in Goals /\ SameLife(g, b) /\ SameStrategist(g, b)
      /\ b.verdict = g.verdict /\ b.attempts = g.attempts
    BY <1>1, BlocksFacts
<1> HIDE DEF c, b
<1>4. /\ s \in Goals /\ SameLife(g, s) /\ SameLadder(g, s) /\ s.verdict = g.verdict
    BY <1>1, <1>2
<1> HIDE DEF s
<1>5. /\ e \in Goals /\ SameLadder(g, e) /\ e.verdict = g.verdict
      /\ IsActive(g) => e.status = "budget_limited" /\ e.bonus = 0
    BY <1>4, FinishFacts DEF BudgetLimit, Terminal, IsActive
<1>6. Paused(b, p, "blocked")
    BY <1>3, PauseFacts DEF PausedStatuses
<1> HIDE DEF e, p
<1>7. /\ UNCHANGED <<plan, planned, left, answer, asked, rounds, blocked, queued, posture,
                     ui, turns>>
      /\ pc' = "idle" /\ stage' = "none"
      /\ pending' \in {0, pending}
      /\ timers' = IF Retries(goal, stage) THEN timers + 1 ELSE timers
      /\ IsActive(goal) /\ ~IsActive(g) => pending' = 0
    BY DEF Settle, g
<1>8. \/ ~IsActive(g) /\ goal' = g
      \/ IsActive(g) /\ goal' = e /\ pending' = 0
      \/ IsActive(g) /\ Succeeded(stage) /\ goal' = c
      \/ IsActive(g) /\ ~Succeeded(stage) /\ goal' = p /\ pending' = 0
      \/ IsActive(g) /\ ~Succeeded(stage) /\ goal' \in {b, g}
    BY DEF Settle, g, c, b, s, e, p
<1>9. IsActive(g) => IsActive(goal)
    BY <1>1 DEF IsActive
<1>10. CASE ~IsActive(g) /\ goal' = g
    BY <1>0, <1>1, <1>7, <1>10 DEF IsActive, IsPaused, PausedStatuses
<1>11. CASE IsActive(g) /\ goal' = e /\ pending' = 0
    BY <1>0, <1>1, <1>5, <1>7, <1>9, <1>11 DEF IsActive
<1>12. CASE IsActive(g) /\ Succeeded(stage) /\ goal' = c
    BY <1>0, <1>1, <1>2, <1>7, <1>9, <1>12 DEF IsActive, Succeeded
<1>13. CASE IsActive(g) /\ ~Succeeded(stage) /\ goal' = p /\ pending' = 0
    BY <1>0, <1>1, <1>3, <1>6, <1>7, <1>9, <1>13
       DEF IsActive, IsPaused, PausedStatuses, Succeeded, Paused
<1>14. CASE IsActive(g) /\ ~Succeeded(stage) /\ goal' \in {b, g}
    BY <1>0, <1>1, <1>3, <1>7, <1>9, <1>14 DEF IsActive, Succeeded
<1>15. QED
    BY <1>8, <1>10, <1>11, <1>12, <1>13, <1>14

\* The decision ends the task exactly when the last verdict is Achieved and
\* every live criterion is claimed, and otherwise never touches the goal but
\* for a goal-wide deferral.
LEMMA DecideFacts ==
    ASSUME goal \in Goals, NEW stall \in {"progressing", "reapproach", "cut_off"}, Decide(stall)
    PROVE  /\ UNCHANGED <<plan, planned, left, answer, pending, asked, blocked, hostVars>>
           /\ pc' \in {"marking", "stop", "round", "settle"}
           /\ pc' = "marking" <=> goal.verdict = "achieved" /\ Unclaimed(goal, plan) = {}
           /\ pc' = "marking" => UNCHANGED <<goal, stage, rounds, ui>>
           /\ pc' = "stop" => stage' = "cut_off"
           /\ pc' = "round" => stage' = "none"
           /\ pc' = "settle" => stage' = "ok"
           /\ goal' \in {goal, Blocks(goal)}
           /\ rounds' \in {rounds, rounds + 1}
           /\ ui' \in {ui, "executing", "fixing", "paused"}
<1> DEFINE earned == goal.verdict = "achieved" /\ Unclaimed(goal, plan) = {}
           decision == DecideAfterRound(View, stall)
<1>1. /\ earned => decision.kind = "done"
      /\ ~earned => decision.kind \in {"another", "paused"}
    <2>1. View.stop = "none" /\ View.verdict = goal.verdict
          /\ (View.open <=> Unclaimed(goal, plan) # {})
        BY DEF View
    <2>2. goal.verdict \in {"pending", "achieved", "rejected"}
        BY GoalFields
    <2>3. CASE View.open
        <3>1. DecideCompletion(View) = RunAnotherRound("continue")
            BY <2>1, <2>3 DEF DecideCompletion
        <3>2. QED
            BY <2>1, <2>3, <3>1 DEF DecideAfterRound, RunAnotherRound, TaskPaused
    <2>4. CASE ~View.open
        <3>1. DecideCompletion(View) = IF goal.verdict = "achieved" THEN TaskDone
                                       ELSE IF goal.verdict = "rejected"
                                       THEN RunAnotherRound("fix")
                                       ELSE RunAnotherRound("continue")
            BY <2>1, <2>2, <2>4 DEF DecideCompletion
        <3>2. QED
            BY <2>1, <2>4, <3>1 DEF DecideAfterRound, RunAnotherRound, TaskPaused, TaskDone
    <2>5. QED
        BY <2>3, <2>4
<1> HIDE DEF decision
<1>2. CASE earned
    BY <1>1, <1>2 DEF Decide, decision
<1>3. CASE decision.kind = "paused"
    BY <1>1, <1>3 DEF Decide, CutOffRun, decision
<1>4. CASE decision.kind = "another"
    BY <1>1, <1>4 DEF Decide, CutOffRun, decision
<1>5. QED
    BY <1>1, <1>2, <1>3, <1>4

-----------------------------------------------------------------------------
(* The steps by phase of the turn.                                          *)

Starts == Prompt \/ RetryTurn \/ SlashGoal \/ SlashResume \/ SlashPause \/ SlashClear
Rounds ==
    \/ (\E n \in PlanSizes : PlanWritten(n)) \/ PlanFails \/ Implementer
    \/ \E result \in RoundResults : RoundEnds(result)
Drains ==
    \/ DrainNext \/ DrainDone \/ ApplyAchieved \/ ApplyRejected \/ ApplyBlocked \/ ApplyFailOpen
    \/ \E a \in PanelAnswers : PanelReturns(a)
    \/ \E n \in 0 .. MaxRows : Amended(n)
    \/ \E advised \in BOOLEAN : StrategistReturns(advised)
    \/ Stop
Gates ==
    \/ GateBudget \/ GateUnbound \/ GateAsks \/ GatePasses \/ MarkDone
    \/ \E stall \in {"progressing", "reapproach", "cut_off"} : Decide(stall)
Hosts ==
    \/ \E budget \in BOOLEAN : Settle(budget)
    \/ RetryFires \/ Cancel \/ SendNow \/ TogglePosture

\* Every step belongs to one phase.
LEMMA Phases == Next <=> Starts \/ Rounds \/ Drains \/ Gates \/ Hosts
    BY Zenon DEF Next, Harness, User, Starts, Rounds, Drains, Gates, Hosts

-----------------------------------------------------------------------------
(* Type correctness, part by part.                                          *)

RecordsOK == goal \in Goals /\ Sound(plan)
ControlOK ==
    /\ pc \in Pcs
    /\ stage \in Stages
    /\ ui \in {"none", "checking", "executing", "fixing", "paused", "done"}
CountsOK ==
    /\ left \in Nat /\ pending \in Nat /\ rounds \in Nat /\ blocked \in Nat
    /\ failures \in Nat /\ timers \in Nat /\ turns \in Nat
OthersOK ==
    /\ answer \in PanelAnswers \cup {NoAnswer}
    /\ asked \in SUBSET Nat
    /\ {planned, queued, posture} \subseteq BOOLEAN

\* The parts are the type invariant.
LEMMA TypeParts == TypeOK <=> RecordsOK /\ ControlOK /\ CountsOK /\ OthersOK
<1>1. TypeOK => RecordsOK /\ ControlOK /\ CountsOK /\ OthersOK
    BY DEF TypeOK, RecordsOK, ControlOK, CountsOK, OthersOK, Sound
<1>2. RecordsOK /\ ControlOK /\ CountsOK /\ OthersOK => TypeOK
    BY DEF TypeOK, RecordsOK, ControlOK, CountsOK, OthersOK, Sound
<1>3. QED
    BY <1>1, <1>2

\* Goal record and plan.
LEMMA RecordsTyped ==
    ASSUME TypeOK, Next PROVE RecordsOK'
<1> USE DEF RecordsOK
<1>0. RecordsOK /\ answer \in PanelAnswers \cup {NoAnswer}
    BY TypeParts DEF OthersOK
<1>1. CASE Starts
    <2>1. CASE Prompt \/ RetryTurn \/ SlashGoal
        BY <1>0, <2>1, FreshGoals
           DEF Prompt, RetryTurn, SlashGoal, PromptBody, SetUpGoal, RunRound
    <2>2. CASE SlashResume
        BY <1>0, <2>2, ResumeFacts DEF SlashResume
    <2>3. CASE SlashPause
        BY <1>0, <2>3, PauseFacts DEF SlashPause, PausedStatuses, Paused
    <2>4. CASE SlashClear
        BY <1>0, <2>4, FreshGoals DEF SlashClear, Clear
    <2>5. QED
        BY <1>1, <2>1, <2>2, <2>3, <2>4 DEF Starts
<1>2. CASE Rounds
    <2>1. ASSUME NEW n \in PlanSizes, PlanWritten(n) PROVE RecordsOK'
        BY <1>0, <2>1, SessionConstants, PlanFacts DEF PlanWritten
    <2>2. CASE PlanFails
        BY <1>0, <2>2, PauseFacts DEF PlanFails, PausedStatuses, Paused
    <2>3. ASSUME NEW c \in 1 .. MaxRows, ToggleExec(c) PROVE RecordsOK'
        BY <1>0, <2>3 DEF ToggleExec, Sound, Plans, Rows
    <2>4. CASE AddRow
        <3>1. Sound([plan EXCEPT !.rows = @ + 1, !.edited = TRUE])
            <4> DEFINE q == [plan EXCEPT !.rows = @ + 1]
            <4>1. Sound(q)
                BY <1>0 DEF Sound, Plans, Rows
            <4>2. [plan EXCEPT !.rows = @ + 1, !.edited = TRUE] = [q EXCEPT !.edited = TRUE]
                BY <1>0 DEF Sound, Plans
            <4> HIDE DEF q
            <4>3. QED
                BY <4>1, <4>2 DEF Sound, Plans, Rows
        <3>2. QED
            BY <1>0, <2>4, <3>1 DEF AddRow
    <2>5. CASE ClaimDone
        BY <1>0, <2>5, ApproveFacts, PlanFacts DEF ClaimDone, Approve
    <2>6. CASE ReportBlocked
        BY <1>0, <2>6, BlocksFacts, ReportBlockedFacts DEF Paused
    <2>7. ASSUME NEW result \in RoundResults, RoundEnds(result) PROVE RecordsOK'
        BY <1>0, <2>7 DEF RoundEnds
    <2>8. QED
        BY <1>2, <2>1, <2>2, <2>3, <2>4, <2>5, <2>6, <2>7 DEF Rounds, Implementer
<1>3. CASE Drains
    <2>1. CASE DrainNext
        BY <1>0, <2>1, ApproveFacts, AttemptFacts, PlanFacts DEF DrainNext, Approve
    <2>2. CASE DrainDone
        BY <1>0, <2>2 DEF DrainDone
    <2>3. CASE ApplyAchieved
        BY <1>0, <2>3, ApproveFacts, PlanFacts DEF ApplyAchieved, Approve
    <2>4. CASE ApplyRejected
        <3>1. Sound(Rejected(plan, answer))
            BY <1>0, PlanFacts
        <3>2. CASE Amends
            BY <1>0, <2>4, <3>1, <3>2, AmenderFacts DEF ApplyRejected
        <3>3. CASE ~Amends
            BY <1>0, <2>4, <3>1, <3>3, JudgeFacts DEF ApplyRejected
        <3>4. QED
            BY <3>2, <3>3
    <2>5. CASE ApplyBlocked
        BY <1>0, <2>5, GiveBackFacts DEF ApplyBlocked, GiveBack
    <2>6. CASE ApplyFailOpen
        BY <1>0, <2>6, FailOpenFacts, PlanFacts DEF ApplyFailOpen, FailOpen
    <2>7. CASE Stop
        BY <1>0, <2>7, PauseFacts DEF Stop, PausedStatuses, Paused
    <2>8. ASSUME NEW a \in PanelAnswers, PanelReturns(a) PROVE RecordsOK'
        BY <1>0, <2>8 DEF PanelReturns
    <2>9. ASSUME NEW n \in 0 .. MaxRows, Amended(n) PROVE RecordsOK'
        <3>1. Sound([plan EXCEPT !.rows = @ + n])
            BY <1>0, SessionConstants DEF Sound, Plans, Rows
        <3>2. QED
            BY <1>0, <2>9, <3>1, JudgeFacts DEF Amended
    <2>10. ASSUME NEW advised \in BOOLEAN, StrategistReturns(advised) PROVE RecordsOK'
        BY <1>0, <2>10, StrategistFacts DEF StrategistReturns
    <2>11. QED
        BY <1>3, <2>1, <2>2, <2>3, <2>4, <2>5, <2>6, <2>7, <2>8, <2>9, <2>10 DEF Drains
<1>4. CASE Gates
    <2>1. CASE GateBudget
        BY <1>0, <2>1, FinishFacts DEF GateBudget, BudgetLimit, Terminal
    <2>2. CASE GateUnbound \/ GatePasses \/ GateAsks
        BY <1>0, <2>2 DEF GateUnbound, GatePasses, GateAsks
    <2>3. CASE MarkDone
        BY <1>0, <2>3, FinishFacts DEF MarkDone, Complete, Terminal
    <2>4. ASSUME NEW stall \in {"progressing", "reapproach", "cut_off"}, Decide(stall)
          PROVE  RecordsOK'
        BY <1>0, <2>4, DecideFacts, BlocksFacts
    <2>5. QED
        BY <1>4, <2>1, <2>2, <2>3, <2>4 DEF Gates
<1>5. CASE Hosts
    <2>1. CASE RetryFires \/ TogglePosture
        BY <1>0, <2>1 DEF RetryFires, TogglePosture
    <2>2. CASE Cancel
        BY <1>0, <2>2, AbandonFacts, PauseFacts DEF Cancel, PausedStatuses, Paused
    <2>3. CASE SendNow
        BY <1>0, <2>3, AbandonFacts DEF SendNow
    <2>4. ASSUME NEW budget \in BOOLEAN, Settle(budget) PROVE RecordsOK'
        BY <1>0, <2>4, SettleFacts
    <2>5. QED
        BY <1>5, <2>1, <2>2, <2>3, <2>4 DEF Hosts
<1>6. QED
    BY <1>1, <1>2, <1>3, <1>4, <1>5, Phases

\* Control variables.
LEMMA ControlTyped ==
    ASSUME TypeOK, Next PROVE ControlOK'
<1> USE DEF ControlOK, Pcs, Stages
<1>0. ControlOK /\ goal \in Goals
    BY TypeParts DEF RecordsOK
<1>1. CASE Starts
    <2>1. CASE Prompt \/ RetryTurn \/ SlashGoal
        BY <1>0, <2>1 DEF Prompt, RetryTurn, SlashGoal, PromptBody, SetUpGoal, RunRound
    <2>2. CASE SlashResume \/ SlashPause \/ SlashClear
        BY <1>0, <2>2 DEF SlashResume, SlashPause, SlashClear
    <2>3. QED
        BY <1>1, <2>1, <2>2 DEF Starts
<1>2. CASE Rounds
    <2>1. CASE (\E n \in PlanSizes : PlanWritten(n)) \/ PlanFails
        BY <1>0, <2>1 DEF PlanWritten, PlanFails
    <2>2. CASE Implementer
        BY <1>0, <2>2 DEF Implementer, ToggleExec, AddRow, ClaimDone, ReportBlocked
    <2>3. ASSUME NEW result \in RoundResults, RoundEnds(result) PROVE ControlOK'
        BY <1>0, <2>3, SessionConstants DEF RoundEnds
    <2>4. QED
        BY <1>2, <2>1, <2>2, <2>3 DEF Rounds
<1>3. CASE Drains
    <2>1. CASE DrainNext \/ DrainDone \/ Stop \/ \E a \in PanelAnswers : PanelReturns(a)
        BY <1>0, <2>1 DEF DrainNext, DrainDone, Stop, PanelReturns
    <2>2. CASE \/ ApplyAchieved \/ ApplyRejected \/ ApplyBlocked \/ ApplyFailOpen
               \/ \E n \in 0 .. MaxRows : Amended(n)
               \/ \E advised \in BOOLEAN : StrategistReturns(advised)
        BY <1>0, <2>2 DEF ApplyAchieved, ApplyRejected, ApplyBlocked, ApplyFailOpen, Amended,
                          StrategistReturns, Judge
    <2>3. QED
        BY <1>3, <2>1, <2>2 DEF Drains
<1>4. CASE Gates
    <2>1. CASE GateBudget \/ GateUnbound \/ GateAsks \/ GatePasses \/ MarkDone
        BY <1>0, <2>1 DEF GateBudget, GateUnbound, GateAsks, GatePasses, MarkDone
    <2>2. ASSUME NEW stall \in {"progressing", "reapproach", "cut_off"}, Decide(stall)
          PROVE  ControlOK'
        BY <1>0, <2>2, DecideFacts
    <2>3. QED
        BY <1>4, <2>1, <2>2 DEF Gates
<1>5. CASE Hosts
    BY <1>0, <1>5 DEF Hosts, Settle, RetryFires, Cancel, SendNow, DropTurn, TogglePosture
<1>6. QED
    BY <1>1, <1>2, <1>3, <1>4, <1>5, Phases

\* Counters.
LEMMA CountsTyped ==
    ASSUME TypeOK, Next PROVE CountsOK'
<1> USE DEF CountsOK
<1>0. CountsOK
    BY TypeParts
<1>1. CASE Starts
    <2>1. CASE Prompt \/ RetryTurn \/ SlashGoal
        BY <1>0, <2>1 DEF Prompt, RetryTurn, SlashGoal, StartTurn, PromptBody, SetUpGoal,
                          RunRound
    <2>2. CASE SlashResume
        BY <1>0, <2>2 DEF SlashResume, StartTurn
    <2>3. CASE SlashPause
        BY <1>0, <2>3 DEF SlashPause, StartTurn
    <2>4. CASE SlashClear
        BY <1>0, <2>4 DEF SlashClear, StartTurn
    <2>5. QED
        BY <1>1, <2>1, <2>2, <2>3, <2>4 DEF Starts
<1>2. CASE Rounds
    <2>1. CASE PlanFails
        BY <1>0, <2>1 DEF PlanFails
    <2>2. CASE \/ \E n \in PlanSizes : PlanWritten(n)
               \/ (\E c \in 1 .. MaxRows : ToggleExec(c)) \/ AddRow
        BY <1>0, <2>2 DEF PlanWritten, ToggleExec, AddRow
    <2>3. CASE ClaimDone
        BY <1>0, <2>3 DEF ClaimDone
    <2>4. CASE ReportBlocked
        <3>1. goal \in Goals
            BY TypeParts DEF RecordsOK
        <3>2. QED
            BY <1>0, <2>4, <3>1, ReportBlockedFacts
    <2>5. ASSUME NEW result \in RoundResults, RoundEnds(result) PROVE CountsOK'
        BY <1>0, <2>5 DEF RoundEnds
    <2>6. QED
        BY <1>2, <2>1, <2>2, <2>3, <2>4, <2>5 DEF Rounds, Implementer
<1>3. CASE Drains
    <2>1. CASE DrainNext
        BY <1>0, <2>1 DEF DrainNext
    <2>2. CASE Stop
        BY <1>0, <2>2 DEF Stop
    <2>3. CASE \/ DrainDone \/ ApplyBlocked \/ ApplyRejected
               \/ \E a \in PanelAnswers : PanelReturns(a)
               \/ \E n \in 0 .. MaxRows : Amended(n)
               \/ \E advised \in BOOLEAN : StrategistReturns(advised)
        BY <1>0, <2>3 DEF DrainDone, ApplyRejected, ApplyBlocked, PanelReturns, Amended,
                          StrategistReturns
    <2>4. CASE ApplyAchieved \/ ApplyFailOpen
        BY <1>0, <2>4 DEF ApplyAchieved, ApplyFailOpen
    <2>5. QED
        BY <1>3, <2>1, <2>2, <2>3, <2>4 DEF Drains
<1>4. CASE Gates
    <2>1. CASE GateBudget \/ GateUnbound \/ GateAsks \/ GatePasses \/ MarkDone
        BY <1>0, <2>1 DEF GateBudget, GateUnbound, GateAsks, GatePasses, MarkDone
    <2>2. ASSUME NEW stall \in {"progressing", "reapproach", "cut_off"}, Decide(stall)
          PROVE  CountsOK'
        <3>1. goal \in Goals
            BY TypeParts DEF RecordsOK
        <3>2. QED
            BY <1>0, <2>2, <3>1, DecideFacts
    <2>3. QED
        BY <1>4, <2>1, <2>2 DEF Gates
<1>5. CASE Hosts
    <2>1. ASSUME NEW budget \in BOOLEAN, Settle(budget) PROVE CountsOK'
        BY <1>0, <2>1 DEF Settle
    <2>2. CASE RetryFires \/ TogglePosture
        BY <1>0, <2>2 DEF RetryFires, TogglePosture
    <2>3. CASE Cancel
        BY <1>0, <2>3 DEF Cancel, DropTurn
    <2>4. CASE SendNow
        BY <1>0, <2>4 DEF SendNow, DropTurn
    <2>5. QED
        BY <1>5, <2>1, <2>2, <2>3, <2>4 DEF Hosts
<1>6. QED
    BY <1>1, <1>2, <1>3, <1>4, <1>5, Phases

\* The answer under way, the ledger and the flags.
LEMMA OthersTyped ==
    ASSUME TypeOK, Next PROVE OthersOK'
<1> USE DEF OthersOK, Starts, Rounds, Drains, Gates, Hosts, Prompt, RetryTurn, SlashGoal,
            SlashResume, SlashPause, SlashClear, StartTurn, PromptBody, SetUpGoal, RunRound,
            PlanWritten, PlanFails, Implementer, ToggleExec, AddRow, ClaimDone, ReportBlocked,
            RoundEnds, DrainNext, DrainDone, PanelReturns, ApplyAchieved, ApplyRejected,
            ApplyBlocked, ApplyFailOpen, Amended, StrategistReturns, Stop, GateBudget,
            GateUnbound, GateAsks, GatePasses, MarkDone, Decide, Settle, RetryFires, Cancel,
            SendNow, DropTurn, TogglePosture
<1>0. OthersOK /\ plan.exec \in SUBSET Nat
    BY TypeParts DEF RecordsOK, Sound, Plans
<1>1. answer' \in PanelAnswers \cup {NoAnswer}
    BY <1>0, Phases
<1>2. asked' \in SUBSET Nat
    BY <1>0, Phases DEF NotAsked
<1>3. {planned', queued', posture'} \subseteq BOOLEAN
    BY <1>0, Phases
<1>4. QED
    BY <1>1, <1>2, <1>3

\* Every variable keeps its shape, whatever the constants are.
THEOREM TypeCorrect == Spec => []TypeOK
<1>1. Init => TypeOK
    <2>1. ASSUME Init PROVE RecordsOK /\ ControlOK /\ CountsOK /\ OthersOK
        BY <2>1, FreshGoals DEF Init, RecordsOK, ControlOK, CountsOK, OthersOK, Sound, NoPlan,
           Plans, Rows, Pcs, Stages, NotAsked
    <2>2. QED
        BY <2>1, TypeParts
<1>2. TypeOK /\ [Next]_vars => TypeOK'
    <2>1. ASSUME TypeOK, Next PROVE TypeOK'
        <3>1. RecordsOK' /\ ControlOK' /\ CountsOK' /\ OthersOK'
            BY <2>1, RecordsTyped, ControlTyped, CountsTyped, OthersTyped
        <3>2. (RecordsOK' /\ ControlOK' /\ CountsOK' /\ OthersOK') => TypeOK'
            BY TypeParts, PTL
        <3>3. QED
            BY <3>1, <3>2
    <2>2. ASSUME TypeOK, UNCHANGED vars PROVE TypeOK'
        BY <2>2 DEF TypeOK, vars
    <2>3. QED
        BY <2>1, <2>2
<1>3. QED
    BY <1>1, <1>2, PTL DEF Spec

-----------------------------------------------------------------------------
(* Audit credit.                                                            *)

\* What AuditRespectsDependencies says, of any plan.
Respects(p) == ~p.edited => \A c \in p.audit : Depends[c] \cap Rows(p) \subseteq p.audit

\* The amender starts from an unaudited plan, so what it appends cannot leave
\* credit without its support.
AuditInv == Respects(plan) /\ (pc = "amend" => plan.audit = {})

\* A localized rejection removes a set closed under dependents.
LEMMA RejectionRespects ==
    ASSUME NEW p, Sound(p), Respects(p), NEW a
    PROVE  Respects(Rejected(p, a))
<1>1. CASE ~Localized(a)
    BY <1>1 DEF Rejected, AuditNone, Respects, Sound, Plans
<1>2. CASE Localized(a)
    <2> DEFINE gone == WithDependents(p, a.refuted)
               q == Rejected(p, a)
    <2>1. /\ q.audit = p.audit \ gone /\ q.rows = p.rows /\ q.edited = p.edited
        BY <1>2 DEF Rejected, Sound, Plans
    <2>2. ASSUME ~p.edited, NEW c \in p.audit, c \notin gone, NEW d \in Depends[c], d \in Rows(p)
          PROVE  d \in p.audit /\ d \notin gone
        <3>1. d \in p.audit /\ c \in Rows(p)
            BY <2>2 DEF Respects, Sound
        <3>2. PICK s \in SUBSET (Rows(p) \cup a.refuted) :
                      /\ a.refuted \subseteq s
                      /\ \A e \in Rows(p) \ s : DependsOn(p, e) \cap s = {}
                      /\ c \notin s
            BY <2>2, <3>1 DEF WithDependents
        <3>3. d \in DependsOn(p, c)
            BY <2>2 DEF DependsOn
        <3>4. d \notin s
            BY <3>1, <3>2, <3>3
        <3>5. QED
            BY <3>1, <3>2, <3>4 DEF WithDependents
    <2> HIDE DEF gone, q
    <2>3. QED
        BY <2>1, <2>2 DEF Respects, Rows, q
<1>3. QED
    BY <1>1, <1>2

\* Every step keeps the credit closed under dependencies.
LEMMA AuditStep ==
    ASSUME TypeOK, AuditInv, Next PROVE AuditInv'
<1> USE DEF AuditInv
<1>0. /\ goal \in Goals /\ Sound(plan) /\ answer \in PanelAnswers \cup {NoAnswer}
    BY TypeParts DEF RecordsOK, OthersOK
<1>1. CASE plan' = plan /\ pc' # "amend"
    BY <1>1
<1>2. CASE plan' = plan /\ pc' = pc
    BY <1>2
<1>3. CASE plan' = AuditAll(plan) /\ pc' # "amend"
    BY <1>0, <1>3 DEF Respects, AuditAll, Sound, Plans, Rows
<1>4. CASE plan' = AuditNone(plan) /\ pc' # "amend"
    BY <1>0, <1>4 DEF Respects, AuditNone, Sound, Plans, Rows
<1>5. CASE Starts
    <2>1. plan' = plan /\ pc' # "amend"
        BY <1>5 DEF Starts, Prompt, RetryTurn, SlashGoal, SlashResume, SlashPause, SlashClear,
           PromptBody, SetUpGoal, RunRound
    <2>2. QED
        BY <1>1, <2>1
<1>6. CASE Rounds
    <2>1. ASSUME NEW n \in PlanSizes, PlanWritten(n) PROVE AuditInv'
        BY <2>1 DEF PlanWritten, FreshPlan, Respects
    <2>2. CASE PlanFails \/ ReportBlocked \/ \E result \in RoundResults : RoundEnds(result)
        <3>1. plan' = plan /\ pc' # "amend"
            BY <2>2 DEF PlanFails, ReportBlocked, RoundEnds
        <3>2. QED
            BY <1>1, <3>1
    <2>3. ASSUME NEW c \in 1 .. MaxRows, ToggleExec(c) PROVE AuditInv'
        BY <1>0, <2>3 DEF ToggleExec, Respects, Sound, Plans, Rows
    <2>4. CASE AddRow
        BY <1>0, <2>4 DEF AddRow, Respects, Sound, Plans
    <2>5. CASE ClaimDone
        <3>1. pc' = pc /\ pc' # "amend" /\ plan' \in {plan, AuditAll(plan)}
            BY <2>5 DEF ClaimDone
        <3>2. QED
            BY <1>2, <1>3, <3>1
    <2>6. QED
        BY <1>6, <2>1, <2>2, <2>3, <2>4, <2>5 DEF Rounds, Implementer
<1>7. CASE Drains
    <2>1. CASE DrainNext
        <3>1. pc' # "amend" /\ plan' \in {plan, AuditAll(plan)}
            BY <2>1 DEF DrainNext
        <3>2. QED
            BY <1>1, <1>3, <3>1
    <2>2. CASE ApplyAchieved
        BY <1>3, <2>2 DEF ApplyAchieved
    <2>3. CASE ApplyFailOpen
        BY <1>4, <2>3 DEF ApplyFailOpen
    <2>4. CASE ApplyRejected
        <3>1. Respects(Rejected(plan, answer))
            BY <1>0, RejectionRespects
        <3>2. CASE Amends
            <4>1. Rejected(plan, answer).audit = {}
                BY <1>0, <3>2, PlanFacts DEF Amends, Localized
            <4>2. QED
                BY <2>4, <3>1, <3>2, <4>1 DEF ApplyRejected
        <3>3. CASE ~Amends
            BY <1>0, <2>4, <3>1, <3>3, JudgeFacts DEF ApplyRejected
        <3>4. QED
            BY <3>2, <3>3
    <2>5. ASSUME NEW n \in 0 .. MaxRows, Amended(n) PROVE AuditInv'
        <3>1. plan' = [plan EXCEPT !.rows = @ + n] /\ pc' # "amend" /\ plan.audit = {}
            BY <1>0, <2>5, JudgeFacts DEF Amended
        <3>2. QED
            BY <1>0, <3>1 DEF Respects, Sound, Plans
    <2>6. CASE \/ DrainDone \/ ApplyBlocked \/ Stop
               \/ \E a \in PanelAnswers : PanelReturns(a)
               \/ \E advised \in BOOLEAN : StrategistReturns(advised)
        <3>1. plan' = plan /\ pc' # "amend"
            BY <2>6 DEF DrainDone, ApplyBlocked, Stop, PanelReturns, StrategistReturns
        <3>2. QED
            BY <1>1, <3>1
    <2>7. QED
        BY <1>7, <2>1, <2>2, <2>3, <2>4, <2>5, <2>6 DEF Drains
<1>8. CASE Gates
    <2>1. CASE GateBudget \/ GateUnbound \/ GateAsks \/ GatePasses \/ MarkDone
        BY <1>1, <2>1 DEF GateBudget, GateUnbound, GateAsks, GatePasses, MarkDone
    <2>2. ASSUME NEW stall \in {"progressing", "reapproach", "cut_off"}, Decide(stall)
          PROVE  AuditInv'
        BY <1>0, <1>1, <2>2, DecideFacts
    <2>3. QED
        BY <1>8, <2>1, <2>2 DEF Gates
<1>9. CASE Hosts
    <2>1. plan' = plan /\ (pc' = pc \/ pc' = "idle")
        BY <1>9 DEF Hosts, Settle, RetryFires, Cancel, SendNow, DropTurn, TogglePosture
    <2>2. QED
        BY <1>1, <1>2, <2>1
<1>10. QED
    BY <1>5, <1>6, <1>7, <1>8, <1>9, Phases

\* No order of verdicts, amendments, edits and turns leaves audit credit
\* resting on refuted work.
THEOREM AuditCredit == Spec => []AuditRespectsDependencies
<1>1. Init => AuditInv
    BY DEF Init, AuditInv, Respects, NoPlan
<1>2. TypeOK /\ AuditInv /\ [Next]_vars => AuditInv'
    <2>1. ASSUME AuditInv, UNCHANGED vars PROVE AuditInv'
        BY <2>1 DEF AuditInv, Respects, Rows, vars
    <2>2. QED
        BY <2>1, AuditStep
<1>3. AuditInv => AuditRespectsDependencies
    BY DEF AuditInv, Respects, AuditRespectsDependencies
<1>4. QED
    BY <1>1, <1>2, <1>3, TypeCorrect, PTL DEF Spec

-----------------------------------------------------------------------------
(* Deferred completion claims.                                              *)

\* From the drain to the mark nothing can add a claim, so whatever ends the
\* goal there finds the queue empty.
PendingInv ==
    /\ PendingOnlyWhileActive
    /\ pc \in {"drain", "verify", "apply", "amend", "strategy", "stop", "gate", "decide",
               "marking"} => pending = 0

\* Every step that ends an Active goal drops its deferred claims.
LEMMA PendingStep ==
    ASSUME TypeOK, PendingInv, Next PROVE PendingInv'
<1> USE DEF PendingInv, PendingOnlyWhileActive
<1>0. /\ goal \in Goals /\ Sound(plan) /\ answer \in PanelAnswers \cup {NoAnswer}
      /\ pending \in Nat
    BY TypeParts DEF RecordsOK, OthersOK, CountsOK
<1>1. CASE pending' = 0
    BY <1>1
<1>2. CASE /\ pending' = pending /\ goal'.status = goal.status
           /\ pc' \in {pc, "idle", "planning", "round", "settle"}
    BY <1>2 DEF IsActive
<1>3. CASE Starts
    <2>1. CASE SlashGoal \/ SlashPause \/ SlashClear
        BY <1>1, <2>1 DEF SlashGoal, SetUpGoal, SlashPause, SlashClear
    <2>2. CASE Prompt \/ RetryTurn
        BY <1>1, <1>2, <2>2 DEF Prompt, RetryTurn, PromptBody, SetUpGoal, RunRound
    <2>3. CASE SlashResume
        <3>1. pending' = pending /\ pc' \in {"planning", "round"}
            BY <2>3 DEF SlashResume
        <3>2. IsActive(goal')
            BY <1>0, <2>3, ResumeFacts DEF SlashResume, IsActive
        <3>3. QED
            BY <3>1, <3>2
    <2>4. QED
        BY <1>3, <2>1, <2>2, <2>3 DEF Starts
<1>4. CASE Rounds
    <2>1. CASE PlanFails
        BY <1>1, <2>1 DEF PlanFails
    <2>2. CASE \/ \E n \in PlanSizes : PlanWritten(n)
               \/ (\E c \in 1 .. MaxRows : ToggleExec(c)) \/ AddRow
        BY <1>2, <2>2 DEF PlanWritten, ToggleExec, AddRow
    <2>3. CASE ClaimDone
        <3>1. /\ pc = "round" /\ pc' = "round"
              /\ \/ pending' = 0
                 \/ goal' = goal /\ (pending' = pending \/ IsActive(goal))
            BY <2>3 DEF ClaimDone
        <3>2. QED
            BY <1>1, <1>2, <3>1
    <2>4. CASE ReportBlocked
        <3>1. \/ pending' = 0
              \/ pending' = pending /\ goal'.status = goal.status /\ pc' = pc
            BY <1>0, <2>4, ReportBlockedFacts, BlocksFacts DEF SameLife
        <3>2. QED
            BY <1>1, <1>2, <3>1
    <2>5. ASSUME NEW result \in RoundResults, RoundEnds(result) PROVE PendingInv'
        BY <1>1, <1>2, <2>5 DEF RoundEnds
    <2>6. QED
        BY <1>4, <2>1, <2>2, <2>3, <2>4, <2>5 DEF Rounds, Implementer
<1>5. CASE Drains
    <2>1. pending' = 0
        BY <1>5 DEF Drains, DrainNext, DrainDone, ApplyAchieved, ApplyRejected, ApplyBlocked,
           ApplyFailOpen, PanelReturns, Amended, StrategistReturns, Stop
    <2>2. QED
        BY <1>1, <2>1
<1>6. CASE Gates
    <2>1. pending' = 0
        BY <1>6 DEF Gates, GateBudget, GateUnbound, GateAsks, GatePasses, MarkDone, Decide
    <2>2. QED
        BY <1>1, <2>1
<1>7. CASE Hosts
    <2>1. ASSUME NEW budget \in BOOLEAN, Settle(budget) PROVE PendingInv'
        BY <1>0, <1>1, <1>2, <2>1, SettleFacts
    <2>2. CASE RetryFires \/ TogglePosture
        BY <1>2, <2>2 DEF RetryFires, TogglePosture
    <2>3. CASE Cancel
        <3>1. pending' = 0
            BY <1>0, <2>3 DEF Cancel
        <3>2. QED
            BY <1>1, <3>1
    <2>4. CASE SendNow
        <3>1. pending' = pending /\ pc' = "idle" /\ goal'.status = goal.status
            BY <1>0, <2>4, AbandonFacts DEF SendNow, DropTurn, SameLife
        <3>2. QED
            BY <1>2, <3>1
    <2>5. QED
        BY <1>7, <2>1, <2>2, <2>3, <2>4 DEF Hosts
<1>8. QED
    BY <1>3, <1>4, <1>5, <1>6, <1>7, Phases

\* No claim survives its goal or the drain that took it.
LEMMA PendingInvariant == Spec => []PendingInv
<1>1. Init => PendingInv
    BY DEF Init, PendingInv, PendingOnlyWhileActive
<1>2. TypeOK /\ PendingInv /\ [Next]_vars => PendingInv'
    <2>1. ASSUME PendingInv, UNCHANGED vars PROVE PendingInv'
        BY <2>1 DEF PendingInv, PendingOnlyWhileActive, vars
    <2>2. QED
        BY <2>1, PendingStep
<1>3. QED
    BY <1>1, <1>2, TypeCorrect, PTL DEF Spec

\* No deferred completion claim outlives the Active goal it was made for.
THEOREM ClaimsDieWithTheGoal == Spec => []PendingOnlyWhileActive
<1>1. PendingInv => PendingOnlyWhileActive
    BY DEF PendingInv
<1>2. QED
    BY <1>1, PendingInvariant, PTL

-----------------------------------------------------------------------------
(* The raised attempt cap.                                                  *)

\* The bonus is never more than one strategist's, and is earned or under way.
BonusInv == BonusEarned /\ goal.bonus <= CapBonus

\* Every way out of the strategist delivers its note or gives the bonus back.
LEMMA BonusStep ==
    ASSUME TypeOK, BonusInv, Next PROVE BonusInv'
<1> USE DEF BonusInv, BonusEarned
<1>0. /\ goal \in Goals /\ Sound(plan) /\ answer \in PanelAnswers \cup {NoAnswer}
      /\ goal.bonus \in Nat /\ CapBonus \in Nat
    BY TypeParts, GoalFields, LadderConstants DEF RecordsOK, OthersOK
<1>1. CASE goal'.bonus = 0
    BY <1>0, <1>1
<1>2. CASE /\ goal'.bonus = goal.bonus /\ (goal'.advice <=> goal.advice)
           /\ pc = "strategy" => pc' = "strategy"
    BY <1>2
<1>3. CASE goal' = goal /\ (pc = "strategy" => pc' = "strategy")
    BY <1>3
<1>4. CASE Starts
    <2>1. CASE Prompt \/ RetryTurn \/ SlashGoal
        BY <1>1, <1>3, <2>1 DEF Prompt, RetryTurn, SlashGoal, StartTurn, PromptBody, SetUpGoal,
           RunRound, CreateGoal
    <2>2. CASE SlashResume
        <3>1. pc # "strategy" /\ (goal' = goal \/ goal'.bonus = 0)
            BY <1>0, <2>2, ResumeFacts DEF SlashResume, StartTurn
        <3>2. QED
            BY <1>1, <1>3, <3>1
    <2>3. CASE SlashPause
        <3>1. Paused(goal, Pause(goal, "user_paused", FALSE), "user_paused")
            BY <1>0, PauseFacts DEF PausedStatuses
        <3>2. pc # "strategy" /\ goal' \in {goal, Pause(goal, "user_paused", FALSE)}
            BY <2>3 DEF SlashPause, StartTurn
        <3>3. QED
            BY <1>2, <1>3, <3>1, <3>2 DEF Paused, SameStrategist
    <2>4. CASE SlashClear
        BY <1>1, <2>4 DEF SlashClear, Clear, NoGoal
    <2>5. QED
        BY <1>4, <2>1, <2>2, <2>3, <2>4 DEF Starts
<1>5. CASE Rounds
    <2>1. CASE PlanFails
        <3>1. Paused(goal, goal', "user_paused") /\ pc # "strategy"
            BY <1>0, <2>1, PauseFacts DEF PlanFails, PausedStatuses
        <3>2. QED
            BY <1>2, <3>1 DEF Paused, SameStrategist
    <2>2. CASE \/ \E n \in PlanSizes : PlanWritten(n)
               \/ (\E c \in 1 .. MaxRows : ToggleExec(c)) \/ AddRow
               \/ \E result \in RoundResults : RoundEnds(result)
        BY <1>3, <2>2 DEF PlanWritten, ToggleExec, AddRow, RoundEnds
    <2>3. CASE ClaimDone
        <3>1. pc # "strategy" /\ goal' \in {goal, Approve(goal)}
            BY <2>3 DEF ClaimDone, Approve
        <3>2. QED
            BY <1>0, <1>1, <1>3, <3>1, ApproveFacts
    <2>4. CASE ReportBlocked
        <3>1. goal'.bonus = goal.bonus /\ (goal'.advice <=> goal.advice) /\ pc' = pc
            BY <1>0, <2>4, ReportBlockedFacts, BlocksFacts DEF SameStrategist, Paused
        <3>2. QED
            BY <1>2, <3>1
    <2>5. QED
        BY <1>5, <2>1, <2>2, <2>3, <2>4 DEF Rounds, Implementer
<1>6. CASE Drains
    <2>1. CASE DrainNext
        <3>1. pc # "strategy" /\ goal' \in {goal, Approve(goal), ReserveAttempt(goal)}
            BY <2>1 DEF DrainNext, Approve
        <3>2. QED
            BY <1>0, <1>1, <1>2, <3>1, ApproveFacts, AttemptFacts DEF SameStrategist
    <2>2. CASE ApplyAchieved
        BY <1>0, <1>1, <2>2, ApproveFacts DEF ApplyAchieved, Approve
    <2>3. CASE ApplyBlocked
        BY <1>0, <1>1, <2>3, GiveBackFacts DEF ApplyBlocked, GiveBack
    <2>4. CASE ApplyFailOpen
        BY <1>0, <1>2, <2>4, FailOpenFacts DEF ApplyFailOpen, FailOpen
    <2>5. CASE ApplyRejected
        <3>1. CASE Amends
            BY <1>0, <1>2, <2>5, <3>1, AmenderFacts DEF ApplyRejected, SameStrategist
        <3>2. CASE ~Amends
            BY <1>0, <2>5, <3>2, JudgeFacts DEF ApplyRejected
        <3>3. QED
            BY <3>1, <3>2
    <2>6. ASSUME NEW n \in 0 .. MaxRows, Amended(n) PROVE BonusInv'
        BY <1>0, <2>6, JudgeFacts DEF Amended
    <2>7. ASSUME NEW advised \in BOOLEAN, StrategistReturns(advised) PROVE BonusInv'
        BY <1>0, <2>7, StrategistFacts DEF StrategistReturns
    <2>8. CASE Stop
        <3>1. Paused(goal, goal', "blocked") /\ pc # "strategy"
            BY <1>0, <2>8, PauseFacts DEF Stop, PausedStatuses
        <3>2. QED
            BY <1>2, <3>1 DEF Paused, SameStrategist
    <2>9. CASE DrainDone \/ \E a \in PanelAnswers : PanelReturns(a)
        BY <1>3, <2>9 DEF DrainDone, PanelReturns
    <2>10. QED
        BY <1>6, <2>1, <2>2, <2>3, <2>4, <2>5, <2>6, <2>7, <2>8, <2>9 DEF Drains
<1>7. CASE Gates
    <2>1. CASE GateBudget \/ MarkDone
        <3>1. /\ pc # "strategy"
              /\ goal' \in {goal, Finish(goal, "budget_limited"), Finish(goal, "complete")}
            BY <2>1 DEF GateBudget, MarkDone, BudgetLimit, Complete
        <3>2. goal' = goal \/ goal'.bonus = 0
            BY <1>0, <3>1, FinishFacts DEF Terminal
        <3>3. QED
            BY <1>1, <1>3, <3>1, <3>2
    <2>2. CASE GateUnbound \/ GateAsks \/ GatePasses
        BY <1>3, <2>2 DEF GateUnbound, GateAsks, GatePasses
    <2>3. ASSUME NEW stall \in {"progressing", "reapproach", "cut_off"}, Decide(stall)
          PROVE  BonusInv'
        <3>1. pc # "strategy" /\ goal' \in {goal, Blocks(goal)}
            BY <1>0, <2>3, DecideFacts DEF Decide
        <3>2. QED
            BY <1>0, <1>2, <3>1, BlocksFacts DEF SameStrategist
    <2>4. QED
        BY <1>7, <2>1, <2>2, <2>3 DEF Gates
<1>8. CASE Hosts
    <2>1. ASSUME NEW budget \in BOOLEAN, Settle(budget) PROVE BonusInv'
        <3>1. pc # "strategy"
            BY <2>1 DEF Settle
        <3>2. QED
            BY <1>0, <1>1, <1>2, <2>1, <3>1, SettleFacts
    <2>2. CASE RetryFires \/ TogglePosture
        BY <1>3, <2>2 DEF RetryFires, TogglePosture
    <2>3. CASE Cancel
        <3>1. Paused(Abandon(goal), goal', "user_paused")
            BY <1>0, <2>3, AbandonFacts, PauseFacts DEF Cancel, PausedStatuses
        <3>2. goal'.bonus = Abandon(goal).bonus /\ (goal'.advice <=> Abandon(goal).advice)
            BY <3>1 DEF Paused, SameStrategist
        <3>3. QED
            BY <1>0, <1>1, <1>2, <3>2, AbandonFacts
    <2>4. CASE SendNow
        BY <1>0, <1>1, <1>2, <2>4, AbandonFacts DEF SendNow
    <2>5. QED
        BY <1>8, <2>1, <2>2, <2>3, <2>4 DEF Hosts
<1>9. QED
    BY <1>4, <1>5, <1>6, <1>7, <1>8, Phases

\* The bonus is bounded and earned in every state.
LEMMA BonusInvariant == Spec => []BonusInv
<1>1. Init => BonusInv
    BY LadderConstants DEF Init, BonusInv, BonusEarned, NoGoal
<1>2. TypeOK /\ BonusInv /\ [Next]_vars => BonusInv'
    <2>1. ASSUME BonusInv, UNCHANGED vars PROVE BonusInv'
        BY <2>1 DEF BonusInv, BonusEarned, vars
    <2>2. QED
        BY <2>1, BonusStep
<1>3. QED
    BY <1>1, <1>2, TypeCorrect, PTL DEF Spec

\* A raised attempt cap is always paid for by a delivered change of strategy,
\* whoever fails or cancels the strategist.
THEOREM CapRaiseIsEarned == Spec => []BonusEarned
<1>1. BonusInv => BonusEarned
    BY DEF BonusInv
<1>2. QED
    BY <1>1, BonusInvariant, PTL

-----------------------------------------------------------------------------
(* The completion authority.                                                *)

\* Between the decision and the mark nothing moves: the goal that is marked is
\* the goal that was accepted.
MarkInv == pc = "marking" => goal.verdict = "achieved" /\ Unclaimed(goal, plan) = {}

\* The mark is reached from the decision alone.
LEMMA MarkStep ==
    ASSUME TypeOK, MarkInv, Next PROVE MarkInv'
<1> USE DEF MarkInv
<1>0. goal \in Goals /\ answer \in PanelAnswers \cup {NoAnswer}
    BY TypeParts DEF RecordsOK, OthersOK
<1>1. CASE pc' # "marking"
    BY <1>1
<1>2. CASE UNCHANGED <<pc, goal, plan>>
    BY <1>2 DEF Unclaimed, Rows, IsDeferred
<1>3. CASE Starts
    BY <1>1, <1>3 DEF Starts, Prompt, RetryTurn, SlashGoal, SlashResume, SlashPause, SlashClear,
       PromptBody, SetUpGoal, RunRound
<1>4. CASE Rounds
    <2>1. pc' # "marking"
        BY <1>4 DEF Rounds, PlanWritten, PlanFails, RoundEnds, Implementer, ToggleExec, AddRow,
           ClaimDone, ReportBlocked
    <2>2. QED
        BY <1>1, <2>1
<1>5. CASE Drains
    <2>1. pc' # "marking"
        BY <1>5 DEF Drains, DrainNext, DrainDone, ApplyAchieved, ApplyRejected, ApplyBlocked,
           ApplyFailOpen, PanelReturns, Amended, StrategistReturns, Stop, Judge
    <2>2. QED
        BY <1>1, <2>1
<1>6. CASE Gates
    <2>1. CASE GateBudget \/ GateUnbound \/ GateAsks \/ GatePasses \/ MarkDone
        BY <1>1, <2>1 DEF GateBudget, GateUnbound, GateAsks, GatePasses, MarkDone
    <2>2. ASSUME NEW stall \in {"progressing", "reapproach", "cut_off"}, Decide(stall)
          PROVE  MarkInv'
        <3>1. pc' = "marking" => /\ goal.verdict = "achieved" /\ Unclaimed(goal, plan) = {}
                                 /\ UNCHANGED <<goal, plan>>
            BY <1>0, <2>2, DecideFacts
        <3>2. QED
            BY <3>1 DEF Unclaimed, Rows, IsDeferred
    <2>3. QED
        BY <1>6, <2>1, <2>2 DEF Gates
<1>7. CASE Hosts
    <2>1. pc' = "idle" \/ UNCHANGED <<pc, goal, plan>>
        BY <1>7 DEF Hosts, Settle, RetryFires, Cancel, SendNow, DropTurn, TogglePosture
    <2>2. QED
        BY <1>1, <1>2, <2>1
<1>8. QED
    BY <1>3, <1>4, <1>5, <1>6, <1>7, Phases

\* What is accepted and open stays as it is.
SameWork ==
    goal'.verdict = goal.verdict /\ goal'.deferred = goal.deferred /\ plan' = plan

\* What a step may do to the goal's life.
LifeStep ==
    \/ goal'.status = goal.status
    \/ goal' \in {CreateGoal, NoGoal}
    \/ IsActive(goal) /\ IsPaused(goal')
    \/ IsPaused(goal) /\ IsActive(goal') /\ SameWork
    \/ (IsActive(goal) \/ IsPaused(goal)) /\ goal'.status = "budget_limited" /\ SameWork
    \/ /\ IsActive(goal) /\ goal.verdict = "achieved" /\ Unclaimed(goal, plan) = {}
       /\ goal'.status = "complete" /\ SameWork

\* Every step of the session is one of those.
LEMMA LifeSteps ==
    ASSUME TypeOK, MarkInv, Next PROVE LifeStep
<1>0. /\ goal \in Goals /\ answer \in PanelAnswers \cup {NoAnswer}
    BY TypeParts DEF RecordsOK, OthersOK
<1>1. ASSUME goal'.status = goal.status PROVE LifeStep
    BY <1>1 DEF LifeStep
<1>2. ASSUME NEW status \in PausedStatuses, NEW g, g.status = goal.status,
             Paused(g, goal', status)
      PROVE  LifeStep
    BY <1>2 DEF LifeStep, Paused, IsActive, IsPaused
<1>3. CASE Starts
    <2>1. CASE Prompt \/ RetryTurn \/ SlashGoal \/ SlashClear
        <3>1. goal' = goal \/ goal' \in {CreateGoal, NoGoal}
            BY <2>1 DEF Prompt, RetryTurn, SlashGoal, PromptBody, SetUpGoal, RunRound,
               SlashClear, Clear
        <3>2. QED
            BY <1>1, <3>1 DEF LifeStep
    <2>2. CASE SlashResume
        BY <1>0, <2>2, ResumeFacts DEF SlashResume, LifeStep, SameWork, IsActive
    <2>3. CASE SlashPause
        <3>1. goal' \in {goal, Pause(goal, "user_paused", FALSE)}
            BY <2>3 DEF SlashPause
        <3>2. Paused(goal, Pause(goal, "user_paused", FALSE), "user_paused")
            BY <1>0, PauseFacts DEF PausedStatuses
        <3>3. QED
            BY <1>1, <1>2, <3>1, <3>2 DEF PausedStatuses
    <2>4. QED
        BY <1>3, <2>1, <2>2, <2>3 DEF Starts
<1>4. CASE Rounds
    <2>1. CASE PlanFails
        <3>1. Paused(goal, goal', "user_paused")
            BY <1>0, <2>1, PauseFacts DEF PlanFails, PausedStatuses
        <3>2. QED
            BY <1>2, <3>1 DEF PausedStatuses
    <2>2. CASE \/ \E n \in PlanSizes : PlanWritten(n)
               \/ (\E c \in 1 .. MaxRows : ToggleExec(c)) \/ AddRow
               \/ \E result \in RoundResults : RoundEnds(result)
        BY <1>1, <2>2 DEF PlanWritten, ToggleExec, AddRow, RoundEnds
    <2>3. CASE ClaimDone
        <3>1. goal' \in {goal, Approve(goal)}
            BY <2>3 DEF ClaimDone, Approve
        <3>2. QED
            BY <1>0, <1>1, <3>1, ApproveFacts DEF SameLife
    <2>4. CASE ReportBlocked
        BY <1>0, <1>1, <1>2, <2>4, ReportBlockedFacts, BlocksFacts DEF SameLife, PausedStatuses
    <2>5. QED
        BY <1>4, <2>1, <2>2, <2>3, <2>4 DEF Rounds, Implementer
<1>5. CASE Drains
    <2>1. CASE DrainNext
        <3>1. goal' \in {goal, Approve(goal), ReserveAttempt(goal)}
            BY <2>1 DEF DrainNext, Approve
        <3>2. QED
            BY <1>0, <1>1, <3>1, ApproveFacts, AttemptFacts DEF SameLife
    <2>2. CASE ApplyAchieved
        BY <1>0, <1>1, <2>2, ApproveFacts DEF ApplyAchieved, Approve, SameLife
    <2>3. CASE ApplyBlocked
        BY <1>0, <1>1, <2>3, GiveBackFacts DEF ApplyBlocked, GiveBack, SameLife
    <2>4. CASE ApplyFailOpen
        BY <1>0, <1>1, <2>4, FailOpenFacts DEF ApplyFailOpen, FailOpen, SameLife
    <2>5. CASE ApplyRejected
        <3>1. CASE Amends
            BY <1>0, <1>1, <2>5, <3>1, AmenderFacts DEF ApplyRejected, SameLife
        <3>2. CASE ~Amends
            BY <1>0, <1>1, <2>5, <3>2, JudgeFacts DEF ApplyRejected, SameLife
        <3>3. QED
            BY <3>1, <3>2
    <2>6. ASSUME NEW n \in 0 .. MaxRows, Amended(n) PROVE LifeStep
        BY <1>0, <1>1, <2>6, JudgeFacts DEF Amended, SameLife
    <2>7. ASSUME NEW advised \in BOOLEAN, StrategistReturns(advised) PROVE LifeStep
        BY <1>0, <1>1, <2>7, StrategistFacts DEF StrategistReturns, SameLife
    <2>8. CASE Stop
        <3>1. Paused(goal, goal', "blocked")
            BY <1>0, <2>8, PauseFacts DEF Stop, PausedStatuses
        <3>2. QED
            BY <1>2, <3>1 DEF PausedStatuses
    <2>9. CASE DrainDone \/ \E a \in PanelAnswers : PanelReturns(a)
        BY <1>1, <2>9 DEF DrainDone, PanelReturns
    <2>10. QED
        BY <1>5, <2>1, <2>2, <2>3, <2>4, <2>5, <2>6, <2>7, <2>8, <2>9 DEF Drains
<1>6. CASE Gates
    <2>1. CASE GateBudget
        BY <1>0, <1>1, <2>1, FinishFacts
           DEF GateBudget, BudgetLimit, Terminal, LifeStep, SameWork, SameLadder
    <2>2. CASE MarkDone
        <3>1. CASE ~IsActive(goal)
            BY <1>1, <2>2, <3>1 DEF MarkDone
        <3>2. CASE IsActive(goal)
            <4>1. goal.verdict = "achieved" /\ Unclaimed(goal, plan) = {}
                BY <2>2 DEF MarkDone, MarkInv
            <4>2. goal'.status = "complete" /\ SameWork
                BY <1>0, <2>2, <3>2, FinishFacts
                   DEF MarkDone, Complete, Terminal, SameWork, SameLadder
            <4>3. QED
                BY <3>2, <4>1, <4>2 DEF LifeStep
        <3>3. QED
            BY <3>1, <3>2
    <2>3. CASE GateUnbound \/ GateAsks \/ GatePasses
        BY <1>1, <2>3 DEF GateUnbound, GateAsks, GatePasses
    <2>4. ASSUME NEW stall \in {"progressing", "reapproach", "cut_off"}, Decide(stall)
          PROVE  LifeStep
        BY <1>0, <1>1, <2>4, DecideFacts, BlocksFacts DEF SameLife
    <2>5. QED
        BY <1>6, <2>1, <2>2, <2>3, <2>4 DEF Gates
<1>7. CASE Hosts
    <2>1. ASSUME NEW budget \in BOOLEAN, Settle(budget) PROVE LifeStep
        BY <1>0, <2>1, SettleFacts DEF LifeStep, SameWork
    <2>2. CASE RetryFires \/ TogglePosture
        BY <1>1, <2>2 DEF RetryFires, TogglePosture
    <2>3. CASE Cancel
        <3>1. Abandon(goal).status = goal.status
            BY <1>0, AbandonFacts DEF SameLife
        <3>2. Paused(Abandon(goal), goal', "user_paused")
            BY <1>0, <2>3, AbandonFacts, PauseFacts DEF Cancel, PausedStatuses
        <3>3. QED
            BY <1>2, <3>1, <3>2 DEF PausedStatuses
    <2>4. CASE SendNow
        BY <1>0, <1>1, <2>4, AbandonFacts DEF SendNow, SameLife
    <2>5. QED
        BY <1>7, <2>1, <2>2, <2>3, <2>4 DEF Hosts
<1>8. QED
    BY <1>3, <1>4, <1>5, <1>6, <1>7, Phases

\* The abstract life of a goal, by status.
LEMMA LifeFacts ==
    ASSUME NEW g \in Goals
    PROVE  /\ IsActive(g) => Life(g) = "running"
           /\ IsPaused(g) => Life(g) = "paused"
           /\ g.status = "complete" => Life(g) = "done"
           /\ g.status = "budget_limited" => Life(g) = "exhausted"
           /\ g.status = "none" => Life(g) = "none"
    BY DEF IsActive, IsPaused, PausedStatuses, Life

\* The session implements the completion authority: no interleaving of turns,
\* cancels, toggles and verdicts completes a goal whose last verdict is not
\* Achieved or that has a live criterion unclaimed.
THEOREM SoleAuthority == Spec => ImplementsAuthority
<1>1. Init => MarkInv
    BY DEF Init, MarkInv
<1>2. TypeOK /\ MarkInv /\ [Next]_vars => MarkInv'
    <2>1. ASSUME MarkInv, UNCHANGED vars PROVE MarkInv'
        BY <2>1 DEF MarkInv, Unclaimed, Rows, IsDeferred, vars
    <2>2. QED
        BY <2>1, MarkStep
<1>3. Init => Authority!Init
    <2> SUFFICES ASSUME Init PROVE Authority!Init
        OBVIOUS
    <2>1. Life(goal) = "none"
        BY FreshGoals, LifeFacts DEF Init, NoGoal
    <2>2. QED
        BY <2>1 DEF Init, NoGoal, Authority!Init
<1>4. TypeOK /\ TypeOK' /\ MarkInv /\ [Next]_vars => [Authority!Next]_(Authority!vars)
    <2> SUFFICES ASSUME TypeOK, TypeOK', MarkInv, [Next]_vars
                 PROVE  Authority!Next \/ UNCHANGED Authority!vars
        OBVIOUS
    <2>0. goal \in Goals /\ goal' \in Goals
        BY DEF TypeOK
    <2>1. CASE UNCHANGED vars
        <3>1. goal' = goal /\ plan' = plan
            BY <2>1 DEF vars
        <3>2. QED
            BY <3>1 DEF Authority!vars, Unclaimed, Rows, IsDeferred
    <2>2. CASE Next
        <3>1. LifeStep
            BY <2>2, LifeSteps
        <3>2. CASE goal'.status = goal.status
            <4>1. Life(goal') = Life(goal)
                BY <3>2 DEF Life
            <4>2. QED
                BY <4>1 DEF Authority!Next, Authority!Work
        <3>3. CASE goal' = CreateGoal
            <4>1. Life(goal)' = "running" /\ goal'.verdict # "achieved"
                BY <2>0, <3>3, LifeFacts DEF CreateGoal, IsActive
            <4>2. QED
                BY <4>1 DEF Authority!Next, Authority!Begin
        <3>4. CASE goal' = NoGoal
            <4>1. Life(goal)' = "none" /\ goal'.verdict # "achieved"
                BY <2>0, <3>4, LifeFacts DEF NoGoal
            <4>2. QED
                BY <4>1 DEF Authority!Next, Authority!Drop
        <3>5. CASE IsActive(goal) /\ IsPaused(goal')
            <4>1. Life(goal) = "running" /\ Life(goal)' = "paused"
                BY <2>0, <3>5, LifeFacts
            <4>2. QED
                BY <4>1 DEF Authority!Next, Authority!Suspend
        <3>6. ASSUME SameWork
              PROVE  /\ (goal.verdict = "achieved")' = (goal.verdict = "achieved")
                     /\ (Unclaimed(goal, plan) # {})' = (Unclaimed(goal, plan) # {})
            <4>1. Unclaimed(goal, plan)' = Unclaimed(goal, plan)
                BY <3>6 DEF SameWork, Unclaimed, Rows, IsDeferred
            <4>2. QED
                BY <3>6, <4>1 DEF SameWork
        <3>7. CASE IsPaused(goal) /\ IsActive(goal') /\ SameWork
            <4>1. Life(goal) = "paused" /\ Life(goal)' = "running"
                BY <2>0, <3>7, LifeFacts
            <4>2. QED
                BY <3>6, <3>7, <4>1 DEF Authority!Next, Authority!Continue
        <3>8. CASE (IsActive(goal) \/ IsPaused(goal)) /\ goal'.status = "budget_limited" /\ SameWork
            <4>1. Life(goal) \in {"running", "paused"} /\ Life(goal)' = "exhausted"
                BY <2>0, <3>8, LifeFacts
            <4>2. QED
                BY <3>6, <3>8, <4>1 DEF Authority!Next, Authority!Exhaust
        <3>9. CASE /\ IsActive(goal) /\ goal.verdict = "achieved" /\ Unclaimed(goal, plan) = {}
                   /\ goal'.status = "complete" /\ SameWork
            <4>1. Life(goal) = "running" /\ Life(goal)' = "done"
                BY <2>0, <3>9, LifeFacts
            <4>2. QED
                BY <3>6, <3>9, <4>1 DEF Authority!Next, Authority!Accept
        <3>10. QED
            BY <3>1, <3>2, <3>3, <3>4, <3>5, <3>7, <3>8, <3>9 DEF LifeStep
    <2>3. QED
        BY <2>1, <2>2
<1>5. QED
    BY <1>1, <1>2, <1>3, <1>4, TypeCorrect, PTL DEF Spec, ImplementsAuthority, Authority!Spec

-----------------------------------------------------------------------------
(* Infrastructure retries.                                                  *)

\* The user does not cut a turn short.
NoCancel == UserOps \cap {"cancel", "send_now"} = {}

\* A settled turn went well or failed for the infrastructure.
RetryInv == RetryNeverLost /\ (pc = "settle" => stage \in {"ok", "pause", "infra", "auth"})

\* Settling schedules the retry before the session is idle, and a back-off
\* that ends hands over to the queue.
LEMMA RetryStep ==
    ASSUME NoCancel, "failed" \notin RoundResults, TypeOK, RetryInv, Next
    PROVE  RetryInv'
<1> USE DEF RetryInv, RetryNeverLost
<1>0. goal \in Goals /\ answer \in PanelAnswers \cup {NoAnswer} /\ timers \in Nat /\ stage \in Stages
    BY TypeParts DEF RecordsOK, OthersOK, CountsOK, ControlOK
<1>1. CASE pc' \notin {"idle", "settle"}
    BY <1>1
<1>2. CASE pc' = "settle" /\ stage' \in {"ok", "pause", "infra", "auth"}
    BY <1>2
<1>3. CASE Starts
    <2>1. \/ pc' \notin {"idle", "settle"}
          \/ pc' = "settle" /\ stage' \in {"ok", "pause"}
        BY <1>3 DEF Starts, Prompt, RetryTurn, SlashGoal, SlashResume, SlashPause, SlashClear,
           PromptBody, SetUpGoal, RunRound
    <2>2. QED
        BY <1>1, <1>2, <2>1
<1>4. CASE Rounds
    <2>1. CASE (\E n \in PlanSizes : PlanWritten(n)) \/ PlanFails \/ Implementer
        <3>1. pc' \notin {"idle", "settle"} \/ (pc' = "settle" /\ stage' = "ok")
            BY <2>1 DEF PlanWritten, PlanFails, Implementer, ToggleExec, AddRow, ClaimDone,
               ReportBlocked
        <3>2. QED
            BY <1>1, <1>2, <3>1
    <2>2. ASSUME NEW result \in RoundResults, RoundEnds(result) PROVE RetryInv'
        <3>1. result \in {"ok", "refused", "infra", "auth"}
            BY SessionConstants
        <3>2. \/ pc' \notin {"idle", "settle"}
              \/ pc' = "settle" /\ stage' \in {"ok", "infra", "auth"}
            BY <2>2, <3>1 DEF RoundEnds
        <3>3. QED
            BY <1>1, <1>2, <3>2
    <2>3. QED
        BY <1>4, <2>1, <2>2 DEF Rounds
<1>5. CASE Drains
    <2>1. pc' \notin {"idle", "settle"} \/ (pc' = "settle" /\ stage' = "ok")
        BY <1>5 DEF Drains, DrainNext, DrainDone, ApplyAchieved, ApplyRejected, ApplyBlocked,
           ApplyFailOpen, PanelReturns, Amended, StrategistReturns, Stop, Judge
    <2>2. QED
        BY <1>1, <1>2, <2>1
<1>6. CASE Gates
    <2>1. CASE GateBudget \/ GateUnbound \/ GateAsks \/ GatePasses \/ MarkDone
        BY <1>1, <1>2, <2>1 DEF GateBudget, GateUnbound, GateAsks, GatePasses, MarkDone
    <2>2. ASSUME NEW stall \in {"progressing", "reapproach", "cut_off"}, Decide(stall)
          PROVE  RetryInv'
        BY <1>0, <1>1, <1>2, <2>2, DecideFacts
    <2>3. QED
        BY <1>6, <2>1, <2>2 DEF Gates
<1>7. CASE Hosts
    <2>1. ASSUME NEW budget \in BOOLEAN, Settle(budget) PROVE RetryInv'
        <3>1. pc = "settle"
            BY <2>1 DEF Settle
        <3>2. pc' = "idle" /\ (IsActive(goal') => goal'.infra = 0 \/ timers' = timers + 1)
            BY <1>0, <2>1, <3>1, SettleFacts
        <3>3. QED
            BY <1>0, <3>2
    <2>2. CASE RetryFires
        BY <2>2 DEF RetryFires
    <2>3. CASE TogglePosture
        BY <2>3 DEF TogglePosture
    <2>4. ~Cancel /\ ~SendNow
        BY DEF Cancel, SendNow, NoCancel
    <2>5. QED
        BY <1>7, <2>1, <2>2, <2>3, <2>4 DEF Hosts
<1>8. QED
    BY <1>3, <1>4, <1>5, <1>6, <1>7, Phases

\* An unattended run whose last turns failed for infrastructure reasons always
\* has a retry under way, as long as no turn fails otherwise.
THEOREM RetryAlwaysUnderWay ==
    ASSUME NoCancel, "failed" \notin RoundResults
    PROVE  Spec => []RetryNeverLost
<1>1. Init => RetryInv
    BY DEF Init, RetryInv, RetryNeverLost, NoGoal, IsActive
<1>2. TypeOK /\ RetryInv /\ [Next]_vars => RetryInv'
    <2>1. ASSUME RetryInv, UNCHANGED vars PROVE RetryInv'
        BY <2>1 DEF RetryInv, RetryNeverLost, IsActive, vars
    <2>2. QED
        BY <2>1, RetryStep
<1>3. RetryInv => RetryNeverLost
    BY DEF RetryInv
<1>4. QED
    BY <1>1, <1>2, <1>3, TypeCorrect, PTL DEF Spec

-----------------------------------------------------------------------------
(* The attempt budget.                                                      *)

\* What one budget of attempts comes to with the strategist's bonus.
Budget == MaxRuns + CapBonus

\* The panel accepted the work as it stands.
Approved == goal.verdict = "achieved" /\ ExecComplete(plan) /\ plan.audit = Rows(plan)

\* An Active goal outside the ladder has attempts left; inside a drain it has,
\* or the work is accepted and the gate is about to complete it.  The claims
\* still to be drained are counted as attempts to come.
AttemptInv ==
    /\ goal.attempts + left <= Budget + PendingCap
    /\ pending <= PendingCap
    /\ pc \in {"drain", "verify", "apply", "amend", "strategy", "stop", "gate", "decide"} => posture
    /\ pc \in {"verify", "apply"} => ExecComplete(plan)
    /\ pc \in {"idle", "planning", "round", "settle", "strategy"} /\ IsActive(goal)
           => goal.attempts < Budget
    /\ pc \in {"drain", "gate", "decide"} /\ IsActive(goal)
           => goal.attempts < Budget \/ Approved

\* The user neither cuts a turn short nor leaves the goal posture, and no
\* verification fails open: either consumes attempts outside the ladder.
Undisturbed ==
    /\ UserOps \cap {"cancel", "send_now", "posture"} = {}
    /\ "fail_open" \notin Answers

\* Starting turns and settling them only lowers the attempts.
LEMMA AttemptTurns ==
    ASSUME Undisturbed, TypeOK, AttemptInv, Starts \/ Hosts
    PROVE  AttemptInv'
<1> USE DEF AttemptInv
<1>0. /\ goal \in Goals /\ goal.attempts \in Nat /\ left \in Nat /\ pending \in Nat
      /\ Budget \in Nat /\ 0 < Budget /\ PendingCap \in Nat
    BY TypeParts, GoalFields, LadderConstants, SessionConstants
       DEF RecordsOK, CountsOK, Budget
<1>1. ASSUME pc' \in {"idle", "planning", "round", "settle"}, left' \in {0, left},
             pending' \in {0, pending},
             goal'.attempts = 0 \/ (goal'.attempts = goal.attempts /\ (IsActive(goal') => IsActive(goal))),
             pc \in {"idle", "settle"}
      PROVE  AttemptInv'
    BY <1>0, <1>1
<1>2. CASE Prompt \/ RetryTurn \/ SlashGoal
    <2>1. goal' = goal \/ goal'.attempts = 0
        BY <1>2 DEF Prompt, RetryTurn, SlashGoal, PromptBody, SetUpGoal, RunRound, CreateGoal
    <2>2. /\ pc' \in {"planning", "round"} /\ left' = 0 /\ pending' \in {0, pending}
          /\ pc = "idle"
        BY <1>2 DEF Prompt, RetryTurn, SlashGoal, PromptBody, SetUpGoal, RunRound, StartTurn
    <2>3. QED
        BY <1>1, <2>1, <2>2
<1>3. CASE SlashResume
    <2>1. goal' = goal \/ goal'.attempts = 0
        BY <1>0, <1>3, ResumeFacts DEF SlashResume
    <2>2. pc' \in {"planning", "round"} /\ left' = 0 /\ pending' = pending /\ pc = "idle"
        BY <1>3 DEF SlashResume, StartTurn
    <2>3. QED
        BY <1>1, <2>1, <2>2
<1>4. CASE SlashPause
    <2>1. Paused(goal, Pause(goal, "user_paused", FALSE), "user_paused")
        BY <1>0, PauseFacts DEF PausedStatuses
    <2>2. goal' \in {goal, Pause(goal, "user_paused", FALSE)}
        BY <1>4 DEF SlashPause
    <2>3. goal'.attempts = goal.attempts /\ (IsActive(goal') => IsActive(goal))
        BY <2>1, <2>2 DEF Paused, SameLadder
    <2>4. pc' = "settle" /\ left' = 0 /\ pending' = 0 /\ pc = "idle"
        BY <1>4 DEF SlashPause, StartTurn
    <2>5. QED
        BY <1>1, <2>3, <2>4
<1>5. CASE SlashClear
    <2>1. goal'.attempts = 0 /\ pc' = "settle" /\ left' = 0 /\ pending' = 0 /\ pc = "idle"
        BY <1>5 DEF SlashClear, Clear, NoGoal, StartTurn
    <2>2. QED
        BY <1>1, <2>1
<1>6. ASSUME NEW budget \in BOOLEAN, Settle(budget) PROVE AttemptInv'
    <2>1. goal'.attempts = goal.attempts /\ (IsActive(goal') => IsActive(goal))
        BY <1>0, <1>6, SettleFacts DEF IsActive
    <2>2. pc' = "idle" /\ left' = left /\ pending' \in {0, pending} /\ pc = "settle"
        BY <1>0, <1>6, SettleFacts DEF Settle
    <2>3. QED
        BY <1>1, <2>1, <2>2
<1>7. CASE RetryFires
    BY <1>7 DEF RetryFires, ExecComplete, Approved, Rows
<1>8. ~Cancel /\ ~SendNow /\ ~TogglePosture
    BY DEF Cancel, SendNow, TogglePosture, Undisturbed
<1>9. QED
    BY <1>2, <1>3, <1>4, <1>5, <1>6, <1>7, <1>8 DEF Starts, Hosts

\* The round leaves the attempts alone and queues no more claims than fit.
LEMMA AttemptRounds ==
    ASSUME Undisturbed, TypeOK, AttemptInv, Rounds
    PROVE  AttemptInv'
<1> USE DEF AttemptInv
<1>0. /\ goal \in Goals /\ goal.attempts \in Nat /\ left \in Nat /\ pending \in Nat
      /\ Budget \in Nat /\ 0 < Budget /\ PendingCap \in Nat
    BY TypeParts, GoalFields, LadderConstants, SessionConstants
       DEF RecordsOK, CountsOK, Budget
<1>1. ASSUME pc' \in {"round", "settle"}, left' = left, pending' <= PendingCap,
             goal'.attempts = goal.attempts, IsActive(goal') => IsActive(goal),
             pc \in {"planning", "round"}
      PROVE  AttemptInv'
    BY <1>0, <1>1
<1>2. CASE PlanFails
    <2>1. Paused(goal, goal', "user_paused")
        BY <1>0, <1>2, PauseFacts DEF PlanFails, PausedStatuses
    <2>2. goal'.attempts = goal.attempts /\ (IsActive(goal') => IsActive(goal))
        BY <2>1 DEF Paused, SameLadder
    <2>3. pc' \in {"round", "settle"} /\ left' = left /\ pending' = 0 /\ pc = "planning"
        BY <1>2 DEF PlanFails
    <2>4. QED
        BY <1>0, <1>1, <2>2, <2>3
<1>3. CASE \/ \E n \in PlanSizes : PlanWritten(n)
           \/ (\E c \in 1 .. MaxRows : ToggleExec(c)) \/ AddRow
    <2>1. /\ pc' = "round" /\ left' = left /\ pending' = pending /\ goal' = goal
          /\ pc \in {"planning", "round"}
        BY <1>3 DEF PlanWritten, ToggleExec, AddRow
    <2>2. QED
        BY <1>1, <2>1
<1>4. CASE ClaimDone
    <2>1. goal' \in {goal, Approve(goal)} /\ pc = "round" /\ pc' = "round" /\ left' = left
        BY <1>4 DEF ClaimDone, Approve
    <2>2. goal'.attempts = goal.attempts /\ (IsActive(goal') => IsActive(goal))
        BY <1>0, <2>1, ApproveFacts DEF SameLadder, SameLife, IsActive
    <2>3. pending' \in {0, pending} \/ (pending' = pending + 1 /\ pending < PendingCap)
        BY <1>4 DEF ClaimDone
    <2>4. pending' <= PendingCap
        BY <1>0, <2>3
    <2>5. QED
        BY <1>1, <2>1, <2>2, <2>4
<1>5. CASE ReportBlocked
    <2>1. /\ goal'.attempts = goal.attempts /\ (IsActive(goal') => IsActive(goal))
          /\ left' = left /\ pc' = pc /\ pending' \in {0, pending}
        BY <1>0, <1>5, ReportBlockedFacts, BlocksFacts
           DEF Paused, SameLadder, SameLife, IsActive
    <2>2. pc = "round"
        BY <1>5 DEF ReportBlocked
    <2>3. QED
        BY <1>0, <1>1, <2>1, <2>2
<1>6. ASSUME NEW result \in RoundResults, RoundEnds(result) PROVE AttemptInv'
    <2>1. CASE result = "ok" /\ Bound
        <3>1. /\ pc = "round" /\ IsActive(goal) /\ posture
              /\ pc' = "drain" /\ left' = pending /\ pending' = 0
              /\ UNCHANGED <<goal, plan, posture>>
            BY <1>6, <2>1 DEF RoundEnds, Bound
        <3>2. QED
            BY <1>0, <3>1
    <2>2. CASE ~(result = "ok" /\ Bound)
        <3>1. /\ pc = "round" /\ pc' = "settle" /\ left' = left /\ pending' = pending
              /\ goal' = goal
            BY <1>6, <2>2 DEF RoundEnds
        <3>2. QED
            BY <1>1, <3>1
    <2>3. QED
        BY <2>1, <2>2
<1>7. QED
    BY <1>2, <1>3, <1>4, <1>5, <1>6 DEF Rounds, Implementer
\* A claim that is drained becomes an attempt; the ladder then accepts the
\* work, refills the budget, stops, or leaves attempts below the cap.
LEMMA AttemptDrains ==
    ASSUME Undisturbed, TypeOK, BonusInv, AttemptInv, Drains
    PROVE  AttemptInv'
<1> USE DEF AttemptInv
<1>0. /\ goal \in Goals /\ goal.attempts \in Nat /\ left \in Nat /\ pending \in Nat
      /\ goal.bonus \in Nat /\ goal.bonus <= CapBonus
      /\ Budget \in Nat /\ 0 < Budget /\ PendingCap \in Nat
      /\ Sound(plan) /\ answer \in PanelAnswers \cup {NoAnswer}
    BY TypeParts, GoalFields, LadderConstants, SessionConstants
       DEF RecordsOK, CountsOK, OthersOK, Budget, BonusInv
<1>1. ASSUME Approve(goal) = goal', plan' = AuditAll(plan), ExecComplete(plan)
      PROVE  Approved' /\ goal'.attempts = goal.attempts
    BY <1>0, <1>1, ApproveFacts, PlanFacts DEF Approved, ExecComplete, Rows, SameLadder
<1>2. CASE DrainNext
    <2>1. /\ pc = "drain" /\ left > 0 /\ posture /\ posture' = posture /\ pending' = pending
          /\ \/ /\ UNCHANGED <<goal, plan, pc>>
                /\ left' \in {0, left - 1}
             \/ /\ goal' = Approve(goal) /\ plan' = AuditAll(plan) /\ ExecComplete(plan)
                /\ pc' = pc /\ left' = left - 1
             \/ /\ goal' = ReserveAttempt(goal) /\ plan' = plan /\ ExecComplete(plan)
                /\ pc' = "verify" /\ left' = left - 1
        BY <1>2 DEF DrainNext, Approve
    <2>2. CASE UNCHANGED <<goal, plan, pc>> /\ left' \in {0, left - 1}
        BY <1>0, <2>1, <2>2 DEF Approved, ExecComplete, Rows
    <2>3. CASE /\ goal' = Approve(goal) /\ plan' = AuditAll(plan) /\ ExecComplete(plan)
               /\ pc' = pc /\ left' = left - 1
        <3>1. Approved' /\ goal'.attempts = goal.attempts
            BY <1>1, <2>3
        <3>2. QED
            BY <1>0, <2>1, <2>3, <3>1
    <2>4. CASE /\ goal' = ReserveAttempt(goal) /\ plan' = plan /\ ExecComplete(plan)
               /\ pc' = "verify" /\ left' = left - 1
        <3>1. goal'.attempts = goal.attempts + 1 /\ ExecComplete(plan)'
            BY <1>0, <2>4, AttemptFacts DEF ExecComplete, Rows
        <3>2. QED
            BY <1>0, <2>1, <2>4, <3>1
    <2>5. QED
        BY <2>1, <2>2, <2>3, <2>4
<1>3. CASE ApplyAchieved
    <2>1. /\ pc = "apply" /\ ExecComplete(plan) /\ posture /\ posture' = posture
          /\ goal' = Approve(goal) /\ plan' = AuditAll(plan)
          /\ pc' = "drain" /\ pending' = 0 /\ left' = left
        BY <1>3 DEF ApplyAchieved, Approve
    <2>2. Approved' /\ goal'.attempts = goal.attempts
        BY <1>1, <2>1
    <2>3. QED
        BY <1>0, <2>1, <2>2
<1>4. CASE ApplyBlocked
    <2>1. /\ pc = "apply" /\ posture /\ posture' = posture /\ goal' = GiveBack(goal)
          /\ pc' = "stop" /\ pending' = pending /\ left' = left
        BY <1>4 DEF ApplyBlocked, GiveBack
    <2>2. goal'.attempts \in Nat /\ goal'.attempts <= goal.attempts
        BY <1>0, <2>1, GiveBackFacts, GoalFields
    <2>3. QED
        BY <1>0, <2>1, <2>2
<1>5. ASSUME NEW p, Judge(goal, p), posture, UNCHANGED <<posture, pending, left>>
      PROVE  AttemptInv'
    <2>1. /\ pc' \in {"stop", "strategy", "drain"}
          /\ goal'.attempts \in {0, goal.attempts}
          /\ pc' # "stop" => goal'.attempts = 0 \/ goal.attempts < MaxRuns + goal.bonus
        BY <1>0, <1>5, JudgeFacts
    <2>2. pc' # "stop" => goal'.attempts < Budget
        BY <1>0, <2>1, SessionConstants, LadderConstants DEF Budget
    <2>3. QED
        BY <1>0, <1>5, <2>1, <2>2
<1>6. CASE ApplyRejected
    <2>1. pc = "apply" /\ posture /\ UNCHANGED <<posture, pending, left>>
        BY <1>6 DEF ApplyRejected
    <2>2. CASE Amends
        <3>1. goal'.attempts = goal.attempts /\ pc' = "amend"
            BY <1>0, <1>6, <2>2, AmenderFacts DEF ApplyRejected, SameLadder
        <3>2. QED
            BY <1>0, <2>1, <3>1
    <2>3. CASE ~Amends
        BY <1>5, <1>6, <2>1, <2>3 DEF ApplyRejected
    <2>4. QED
        BY <2>2, <2>3
<1>7. ASSUME NEW n \in 0 .. MaxRows, Amended(n) PROVE AttemptInv'
    <2>1. pc = "amend" /\ posture /\ UNCHANGED <<posture, pending, left>>
        BY <1>7 DEF Amended
    <2>2. QED
        BY <1>5, <1>7, <2>1 DEF Amended
<1>8. ~ApplyFailOpen
    BY <1>0, AnswerFields DEF ApplyFailOpen, Undisturbed
<1>9. ASSUME NEW advised \in BOOLEAN, StrategistReturns(advised) PROVE AttemptInv'
    <2>1. /\ pc = "strategy" /\ posture /\ posture' = posture
          /\ goal' \in {RecordAdvice(goal), RevokeBonus(goal)}
          /\ pc' = "drain" /\ pending' = pending /\ left' = left
        BY <1>9 DEF StrategistReturns
    <2>2. goal'.attempts = goal.attempts /\ goal'.status = goal.status
        BY <1>0, <2>1, StrategistFacts DEF SameLadder, SameLife
    <2>3. QED
        BY <1>0, <2>1, <2>2 DEF IsActive
<1>10. CASE Stop
    <2>1. Paused(goal, goal', "blocked")
        BY <1>0, <1>10, PauseFacts DEF Stop, PausedStatuses
    <2>2. goal'.attempts = goal.attempts /\ ~IsActive(goal')
        BY <2>1 DEF Paused, SameLadder, IsActive
    <2>3. /\ pc = "stop" /\ posture /\ posture' = posture /\ pc' \in {"settle", "drain"}
          /\ pending' = 0 /\ left' = left
        BY <1>10 DEF Stop
    <2>4. QED
        BY <1>0, <2>2, <2>3
<1>11. CASE DrainDone
    <2>1. /\ pc = "drain" /\ posture /\ posture' = posture
          /\ pc' \in {"gate", "decide"} \/ (pc' = "settle" /\ ~Bound)
          /\ UNCHANGED <<goal, plan, pending, left>>
        BY <1>11 DEF DrainDone
    <2>2. QED
        BY <1>0, <2>1 DEF Bound, Approved, ExecComplete, Rows
<1>12. CASE \E a \in PanelAnswers : PanelReturns(a)
    <2>1. /\ pc = "verify" /\ posture /\ pc' = "apply"
          /\ UNCHANGED <<goal, plan, pending, left, posture>>
        BY <1>12 DEF PanelReturns
    <2>2. QED
        BY <1>0, <2>1 DEF ExecComplete, Rows
<1>13. QED
    BY <1>2, <1>3, <1>4, <1>6, <1>7, <1>8, <1>9, <1>10, <1>11, <1>12 DEF Drains

\* The gate claims only for work without audit marks, which has attempts left,
\* and lets accepted work go nowhere but to its completion.
LEMMA AttemptGates ==
    ASSUME TypeOK, PendingInv, AttemptInv, Gates
    PROVE  AttemptInv'
<1> USE DEF AttemptInv
<1>0. /\ goal \in Goals /\ goal.attempts \in Nat /\ left \in Nat /\ pending \in Nat
      /\ Budget \in Nat /\ 0 < Budget /\ PendingCap \in Nat /\ PendingCap > 0
      /\ Sound(plan)
    BY TypeParts, GoalFields, LadderConstants, SessionConstants
       DEF RecordsOK, CountsOK, Budget
<1>1. CASE GateBudget \/ MarkDone
    <2>1. /\ goal' \in {goal, Finish(goal, "complete"), Finish(goal, "budget_limited")}
          /\ IsActive(goal) => goal' # goal \/ ~IsActive(goal')
          /\ pc' = "settle" /\ pending' \in {0, pending} /\ left' = left
        <3>1. /\ Finish(goal, "complete").status = "complete" \/ ~IsActive(goal)
              /\ Finish(goal, "budget_limited").status = "budget_limited" \/ ~IsActive(goal)
            BY <1>0, FinishFacts DEF Terminal
        <3>2. QED
            BY <1>1, <3>1 DEF GateBudget, MarkDone, BudgetLimit, Complete, IsActive
    <2>2. goal'.attempts = goal.attempts /\ ~IsActive(goal')
        BY <1>0, <2>1, FinishFacts DEF Terminal, SameLadder, IsActive
    <2>3. QED
        BY <1>0, <2>1, <2>2
<1>2. CASE GateUnbound
    <2>1. /\ pc = "gate" /\ posture /\ ~IsActive(goal) /\ goal' = goal
          /\ pc' = "settle" /\ pending' = pending /\ left' = left
        BY <1>2 DEF GateUnbound, Bound
    <2>2. QED
        BY <1>0, <2>1
<1>3. CASE GateAsks
    <2>1. /\ pc = "gate" /\ posture /\ IsActive(goal) /\ pending = 0
          /\ plan.audit = {} /\ Rows(plan) # {}
          /\ pc' = "drain" /\ left' = pending + 1 /\ pending' = 0
          /\ UNCHANGED <<goal, plan, posture>>
        BY <1>3 DEF GateAsks, Bound, MustAsk, Claimed, PendingInv
    <2>2. goal.attempts < Budget
        BY <2>1 DEF Approved
    <2>3. QED
        BY <1>0, <2>1, <2>2
<1>4. CASE GatePasses
    <2>1. /\ pc = "gate" /\ posture /\ pc' = "decide"
          /\ UNCHANGED <<goal, plan, pending, left, posture>>
        BY <1>4 DEF GatePasses
    <2>2. QED
        BY <1>0, <2>1 DEF Approved, ExecComplete, Rows
<1>5. ASSUME NEW stall \in {"progressing", "reapproach", "cut_off"}, Decide(stall)
      PROVE  AttemptInv'
    <2>1. /\ pc' \in {"marking", "stop", "round", "settle"}
          /\ pc' = "marking" <=> goal.verdict = "achieved" /\ Unclaimed(goal, plan) = {}
          /\ goal' \in {goal, Blocks(goal)}
          /\ UNCHANGED <<plan, left, pending, posture>>
        BY <1>0, <1>5, DecideFacts
    <2>2. pc = "decide" /\ posture
        BY <1>5 DEF Decide
    <2>3. pc' # "marking" => ~Approved
        BY <2>1 DEF Approved, ExecComplete, Unclaimed
    <2>4. goal'.attempts = goal.attempts /\ goal'.status = goal.status
        BY <1>0, <2>1, BlocksFacts DEF SameLife
    <2>5. QED
        BY <1>0, <2>1, <2>2, <2>3, <2>4 DEF IsActive
<1>6. QED
    BY <1>1, <1>2, <1>3, <1>4, <1>5 DEF Gates

\* The panel runs at most once per attempt of the raised budget and per claim
\* of the drain that exhausts it, in every undisturbed session.
THEOREM AttemptBudgetHolds ==
    ASSUME Undisturbed
    PROVE  Spec => []AttemptsBounded
<1>0. Budget \in Nat /\ 0 < Budget /\ PendingCap \in Nat
    BY LadderConstants, SessionConstants DEF Budget
<1>1. Init => AttemptInv
    BY <1>0 DEF Init, AttemptInv, NoGoal
<1>2. TypeOK /\ BonusInv /\ PendingInv /\ AttemptInv /\ [Next]_vars => AttemptInv'
    <2>1. ASSUME AttemptInv, UNCHANGED vars PROVE AttemptInv'
        BY <2>1 DEF AttemptInv, Approved, ExecComplete, Rows, IsActive, vars
    <2>2. QED
        BY <2>1, Phases, AttemptTurns, AttemptRounds, AttemptDrains, AttemptGates
<1>3. TypeOK /\ AttemptInv => AttemptsBounded
    <2>1. TypeOK => goal.attempts \in Nat /\ left \in Nat
        BY TypeParts, GoalFields DEF RecordsOK, CountsOK
    <2>2. QED
        BY <1>0, <2>1 DEF AttemptInv, AttemptsBounded, Budget
<1>4. QED
    BY <1>1, <1>2, <1>3, TypeCorrect, BonusInvariant, PendingInvariant, PTL DEF Spec

=============================================================================
