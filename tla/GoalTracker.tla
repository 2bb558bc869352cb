----------------------------- MODULE GoalTracker -----------------------------
(***************************************************************************)
(* GoalTracker as a component of its own: its public methods called in any *)
(* order, as slash commands, the turn, the verification stage and restarts *)
(* interleave them under its mutex.  What holds here holds for every       *)
(* caller.                                                                 *)
(***************************************************************************)
EXTENDS GoalRecord, FiniteSets

CONSTANTS
    Criteria,   \* numbers of acceptance criteria that can be deferred
    Gaps,       \* gap fingerprints
    MaxCount    \* bound on every counter, for model checking

ASSUME TrackerConstants ==
    /\ Criteria \subseteq Nat \ {GoalWide}
    /\ Gaps \subseteq Nat \ {NoGap}
    /\ MaxCount \in Nat

VARIABLE goal

Init == goal = NoGoal

Create == goal' = CreateGoal
ClearGoal == goal' = Clear(goal)

\* GoalPauseReason, as the status it leads to, with or without a message.
PauseGoal(status, message) == goal' = Pause(goal, status, message)

ResumeGoal == goal' = Resume(goal)
CompleteGoal == goal' = Complete(goal)
BudgetLimitGoal == goal' = BudgetLimit(goal)

\* The process restarts from the snapshot last taken.
Restart == Exists(goal) /\ goal' = FromSnapshot(goal)

\* The counters: one verification attempt, its verdict, and the ladder's rungs.
Reserve == Exists(goal) /\ goal.attempts < MaxCount /\ goal' = ReserveAttempt(goal)
Rollback == Exists(goal) /\ goal' = RollbackAttempt(goal)
Accept == Exists(goal) /\ goal' = ResetStrategist(RecordVerdict(goal, "achieved"))
Reject ==
    /\ Exists(goal)
    /\ goal.consec < MaxCount
    /\ goal' = RecordStreak(RecordVerdict(goal, "rejected"))
ObserveGap(gap) ==
    /\ Exists(goal)
    /\ goal.stall < MaxCount
    /\ goal' = RecordStall(goal, gap)
FireStrategist(force) ==
    /\ Exists(goal)
    /\ ShouldFire(goal, force)
    /\ goal' = ClaimStrategist(goal)
Advise == goal.bonus > 0 /\ goal' = RecordAdvice(goal)
NoAdvice == goal.bonus > 0 /\ goal' = RevokeBonus(goal)
DeferCriteria(criteria) == Exists(goal) /\ goal' = Defer(goal, criteria)
Grant == Exists(goal) /\ goal' = GrantFreshBudget(goal)
Amend == Exists(goal) /\ MayAmend(goal) /\ goal' = ClaimAmender(goal)
InfraFailure == IsActive(goal) /\ goal.infra < MaxCount /\ goal' = RecordInfraFailure(goal)
TurnSucceeded == IsActive(goal) /\ goal' = ClearInfraStreak(goal)

Next ==
    \/ Create \/ ClearGoal \/ ResumeGoal \/ CompleteGoal \/ BudgetLimitGoal \/ Restart
    \/ \E status \in PausedStatuses, message \in BOOLEAN : PauseGoal(status, message)
    \/ Reserve \/ Rollback \/ Accept \/ Reject \/ Advise \/ NoAdvice \/ Grant \/ Amend
    \/ \E gap \in Gaps : ObserveGap(gap)
    \/ \E force \in BOOLEAN : FireStrategist(force)
    \/ \E c \in Criteria \cup {GoalWide} : DeferCriteria({c})
    \/ InfraFailure \/ TurnSucceeded

Spec == Init /\ [][Next]_goal

-----------------------------------------------------------------------------
(* Properties.                                                              *)

\* The record keeps its shape.
TypeOK == goal \in Goals

\* The elapsed-time timer runs exactly while the goal is Active, across
\* pauses, resumes, terminal transitions and restarts: no transition leaks a
\* running timer or forgets to start one (active_since in goal_tracker.rs).
TimerRunsExactlyWhileActive == goal.timer <=> IsActive(goal)

\* A pause reason is only ever shown for a paused goal: no path out of a
\* pause leaves the old reason behind for the next pause that has none
\* (pause_message, pause_inner / resume / complete_inner).
MessageOnlyWhilePaused == goal.message => IsPaused(goal)

\* The streak at which the strategist last fired is never ahead of the streak
\* itself, so the next fire is at most StrategistEvery rejections away: a reset
\* that cleared one without the other would silence the strategist
\* (reset_strategist_fields, claim_strategist_fire).
StrategistNeverSilenced == goal.fired <= goal.consec

EndsFinal ==
    (goal.status \in Terminal /\ goal'.status # goal.status) => goal' \in {CreateGoal, NoGoal}

\* A completed or budget-limited goal leaves that state only by being
\* replaced or cleared: late pauses, resumes, budget checks and completions
\* of a turn still unwinding bounce off.
TerminalIsFinal == [][EndsFinal]_goal

=============================================================================
