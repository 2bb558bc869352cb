------------------------- MODULE GoalTracker_proofs -------------------------
(***************************************************************************)
(* Every transition of GoalTracker keeps its bookkeeping consistent, for   *)
(* any thresholds, criteria and order of calls.                            *)
(***************************************************************************)
EXTENDS GoalTracker, GoalRecord_proofs

\* The four invariants together: the message needs the status discipline of
\* pause and resume, the strategist's marker needs the counters to be numbers.
Inv ==
    /\ TypeOK
    /\ TimerRunsExactlyWhileActive
    /\ MessageOnlyWhilePaused
    /\ StrategistNeverSilenced

USE DEF TypeOK, TimerRunsExactlyWhileActive, MessageOnlyWhilePaused, StrategistNeverSilenced,
        Inv, Statuses, PausedStatuses, Terminal, IsActive, IsPaused, Exists,
        NoGoal, CreateGoal, GoalWide, NoGap, SameLife, SameLadder, SameStrategist

\* Both endings stop the timer and drop the message.
LEMMA FinishInv ==
    ASSUME Inv, NEW status \in Terminal, goal' = Finish(goal, status)
    PROVE  Inv'
<1>1. /\ goal' \in Goals
      /\ ~(IsActive(goal) \/ IsPaused(goal)) => goal' = goal
      /\ (IsActive(goal) \/ IsPaused(goal)) =>
             /\ goal'.status = status /\ ~goal'.timer /\ ~goal'.message
             /\ goal'.fired = 0 /\ goal'.consec = 0
    BY FinishFacts
<1>2. QED
    BY <1>1

\* Transitions of the status: create, clear, pause, resume, the two endings
\* and a restart keep the four invariants.
LEMMA LifecycleInv ==
    ASSUME Inv,
           \/ Create \/ ClearGoal \/ ResumeGoal \/ CompleteGoal \/ BudgetLimitGoal \/ Restart
           \/ \E status \in PausedStatuses, message \in BOOLEAN : PauseGoal(status, message)
    PROVE  Inv'
<1>1. CASE Create
    BY <1>1, FreshGoals DEF Create
<1>2. CASE ClearGoal
    BY <1>2, FreshGoals DEF ClearGoal, Clear
<1>3. CASE ResumeGoal
    <2>1. /\ goal' \in Goals
          /\ ~IsPaused(goal) => goal' = goal
          /\ IsPaused(goal) => /\ goal'.status = "active" /\ goal'.timer
                               /\ ~goal'.message
                               /\ goal'.fired = 0 /\ goal'.consec = 0
        BY <1>3, ResumeFacts DEF ResumeGoal
    <2>2. QED
        BY <2>1
<1>4. CASE CompleteGoal
    BY <1>4, FinishInv DEF CompleteGoal, Complete
<1>5. CASE BudgetLimitGoal
    BY <1>5, FinishInv DEF BudgetLimitGoal, BudgetLimit
<1>6. CASE Restart
    BY <1>6 DEF Restart, FromSnapshot, Goals
<1>7. ASSUME NEW status \in PausedStatuses, NEW message \in BOOLEAN, PauseGoal(status, message)
      PROVE  Inv'
    BY <1>7 DEF PauseGoal, Pause, Goals
<1>8. QED
    BY <1>1, <1>2, <1>3, <1>4, <1>5, <1>6, <1>7

\* The ladder's counters and the infra streak keep them too.
LEMMA CounterInv ==
    ASSUME Inv,
           \/ Reserve \/ Rollback \/ Accept \/ Reject \/ Advise \/ NoAdvice \/ Grant \/ Amend
           \/ \E gap \in Gaps : ObserveGap(gap)
           \/ \E force \in BOOLEAN : FireStrategist(force)
           \/ \E c \in Criteria \cup {GoalWide} : DeferCriteria({c})
           \/ InfraFailure \/ TurnSucceeded
    PROVE  Inv'
<1>1. CASE Reserve
    BY <1>1, AttemptFacts DEF Reserve
<1>2. CASE Rollback
    BY <1>2, AttemptFacts DEF Rollback
<1>3. CASE Accept
    <2>1. /\ goal' \in Goals /\ goal'.status = goal.status /\ (goal'.timer <=> goal.timer)
          /\ (goal'.message <=> goal.message)
          /\ goal'.fired = 0 /\ goal'.consec = 0
        BY <1>3, ResetStrategistFacts, RecordVerdictFacts DEF Accept
    <2>2. QED
        BY <2>1
<1>4. CASE Reject
    <2>1. /\ goal' \in Goals /\ goal'.status = goal.status /\ (goal'.timer <=> goal.timer)
          /\ (goal'.message <=> goal.message)
          /\ goal'.fired = goal.fired /\ goal'.consec = goal.consec + 1
        BY <1>4, RecordVerdictFacts, RecordStreakFacts DEF Reject
    <2>2. QED
        BY <2>1, GoalFields
<1>5. CASE Advise \/ NoAdvice
    <2>1. /\ goal' \in Goals /\ goal'.status = goal.status /\ (goal'.timer <=> goal.timer)
          /\ (goal'.message <=> goal.message)
          /\ goal'.fired = goal.fired /\ goal'.consec = goal.consec
        BY <1>5, StrategistFacts DEF Advise, NoAdvice
    <2>2. QED
        BY <2>1
<1>6. CASE Grant
    BY <1>6, GrantFacts DEF Grant
<1>7. CASE Amend
    BY <1>7, AmenderFacts DEF Amend
<1>8. ASSUME NEW gap \in Gaps, ObserveGap(gap) PROVE Inv'
    BY <1>8, TrackerConstants, RecordStallFacts DEF ObserveGap
<1>9. ASSUME NEW force \in BOOLEAN, FireStrategist(force) PROVE Inv'
    <2>1. /\ goal' \in Goals /\ goal'.status = goal.status /\ (goal'.timer <=> goal.timer)
          /\ (goal'.message <=> goal.message)
          /\ goal'.fired = goal.consec /\ goal'.consec = goal.consec
        BY <1>9, StrategistFacts DEF FireStrategist
    <2>2. QED
        BY <2>1, GoalFields
<1>10. ASSUME NEW c \in Criteria \cup {GoalWide}, DeferCriteria({c}) PROVE Inv'
    BY <1>10, TrackerConstants, DeferFacts DEF DeferCriteria
<1>11. CASE InfraFailure \/ TurnSucceeded
    BY <1>11, InfraFacts DEF InfraFailure, TurnSucceeded
<1>12. QED
    BY <1>1, <1>2, <1>3, <1>4, <1>5, <1>6, <1>7, <1>8, <1>9, <1>10, <1>11

\* The invariants hold in every state, whatever the callers do.
THEOREM Invariance == Spec => []Inv
<1>1. Init => Inv
    BY FreshGoals DEF Init
<1>2. Inv /\ [Next]_goal => Inv'
    <2> SUFFICES ASSUME Inv, [Next]_goal PROVE Inv'
        OBVIOUS
    <2>1. CASE UNCHANGED goal
        BY <2>1
    <2>2. CASE Next
        BY <2>2, LifecycleInv, CounterInv DEF Next
    <2>3. QED
        BY <2>1, <2>2
<1>3. QED
    BY <1>1, <1>2, PTL DEF Spec

\* Type correctness of the goal record.
THEOREM TypeCorrect == Spec => []TypeOK
<1>1. Inv => TypeOK
    OBVIOUS
<1>2. QED
    BY Invariance, <1>1, PTL

\* The elapsed-time timer runs exactly while the goal is Active.
THEOREM TimerDiscipline == Spec => []TimerRunsExactlyWhileActive
<1>1. Inv => TimerRunsExactlyWhileActive
    OBVIOUS
<1>2. QED
    BY Invariance, <1>1, PTL

\* No pause reason outlives its pause.
THEOREM MessageDiscipline == Spec => []MessageOnlyWhilePaused
<1>1. Inv => MessageOnlyWhilePaused
    OBVIOUS
<1>2. QED
    BY Invariance, <1>1, PTL

\* The strategist's marker never runs ahead of the rejection streak.
THEOREM StrategistReachable == Spec => []StrategistNeverSilenced
<1>1. Inv => StrategistNeverSilenced
    OBVIOUS
<1>2. QED
    BY Invariance, <1>1, PTL

\* Terminal goals are final for every caller.
THEOREM Finality == Spec => TerminalIsFinal
<1>1. Inv /\ [Next]_goal => [EndsFinal]_goal
    <2> SUFFICES ASSUME Inv, Next PROVE EndsFinal
        OBVIOUS
    <2>1. CASE Create \/ ClearGoal
        BY <2>1 DEF Create, ClearGoal, Clear, EndsFinal
    <2>2. CASE ResumeGoal \/ CompleteGoal \/ BudgetLimitGoal
        BY <2>2 DEF ResumeGoal, Resume, CompleteGoal, Complete, BudgetLimitGoal, BudgetLimit,
                    Finish, EndsFinal
    <2>3. CASE Restart
        BY <2>3 DEF Restart, FromSnapshot, EndsFinal
    <2>4. ASSUME NEW status \in PausedStatuses, NEW message \in BOOLEAN,
                 PauseGoal(status, message)
          PROVE  EndsFinal
        BY <2>4 DEF PauseGoal, Pause, EndsFinal
    <2>5. CASE Reserve \/ Rollback \/ Accept \/ Reject \/ Advise \/ NoAdvice \/ Grant \/ Amend
               \/ InfraFailure \/ TurnSucceeded
        <3>1. goal'.status = goal.status
            BY <2>5, AttemptFacts, ResetStrategistFacts, RecordVerdictFacts, RecordStreakFacts,
               StrategistFacts, GrantFacts, AmenderFacts, InfraFacts
               DEF Reserve, Rollback, Accept, Reject, Advise, NoAdvice, Grant, Amend,
                   InfraFailure, TurnSucceeded
        <3>2. QED
            BY <3>1 DEF EndsFinal
    <2>6. ASSUME NEW gap \in Gaps, ObserveGap(gap) PROVE EndsFinal
        BY <2>6 DEF ObserveGap, RecordStall, EndsFinal
    <2>7. ASSUME NEW force \in BOOLEAN, FireStrategist(force) PROVE EndsFinal
        BY <2>7 DEF FireStrategist, ClaimStrategist, ResetStall, EndsFinal
    <2>8. ASSUME NEW c \in Criteria \cup {GoalWide}, DeferCriteria({c}) PROVE EndsFinal
        BY <2>8 DEF DeferCriteria, Defer, EndsFinal
    <2>9. QED
        BY <2>1, <2>2, <2>3, <2>4, <2>5, <2>6, <2>7, <2>8 DEF Next
<1>2. QED
    BY Invariance, <1>1, PTL DEF Spec, TerminalIsFinal

=============================================================================
