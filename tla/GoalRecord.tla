----------------------------- MODULE GoalRecord -----------------------------
(***************************************************************************)
(* GoalOrchestration and the GoalTracker methods that change it            *)
(* (goal_tracker.rs), as pure operators on a record.  GoalTracker calls    *)
(* them in any order; GoalSession calls them where the session does.       *)
(*                                                                         *)
(* Left out: identity, wording, paths, token and time accounting, the      *)
(* history log, and the projections shown in the UI.                       *)
(***************************************************************************)
EXTENDS Integers

CONSTANTS
    StallThreshold,    \* GOAL_CLASSIFIER_STALL_THRESHOLD
    CapBonus,          \* GOAL_STRATEGIST_CAP_BONUS
    StrategistEvery,   \* goal_strategist_every
    AmenderMaxRuns,    \* GOAL_AMENDER_MAX_RUNS
    InfraRetryMax      \* GOAL_INFRA_RETRY_MAX

ASSUME LadderConstants ==
    /\ StallThreshold \in Nat \ {0}
    /\ CapBonus \in Nat \ {0}
    /\ StrategistEvery \in Nat \ {0}
    /\ AmenderMaxRuns \in Nat
    /\ InfraRetryMax \in Nat

GoalWide == 0    \* a deferral that names no criterion (criteria count from 1)
NoGap == 0       \* no stable gap fingerprint (fingerprints count from 1)

PausedStatuses ==
    {"user_paused", "back_off_paused", "no_progress_paused", "infra_paused", "blocked"}
Terminal == {"complete", "budget_limited"}
Statuses == {"none", "active"} \cup PausedStatuses \cup Terminal

IsActive(g) == g.status = "active"
IsPaused(g) == g.status \in PausedStatuses
Exists(g) == g.status # "none"

NoGoal ==
    [status |-> "none", phase |-> "idle", timer |-> FALSE, message |-> FALSE,
     attempts |-> 0, verdict |-> "pending", gap |-> NoGap, stall |-> 0,
     consec |-> 0, fired |-> 0, bonus |-> 0, advice |-> FALSE,
     deferred |-> {}, amended |-> 0, infra |-> 0]

\* create_goal replaces whatever was there.
CreateGoal ==
    [status |-> "active", phase |-> "executing", timer |-> TRUE, message |-> FALSE,
     attempts |-> 0, verdict |-> "pending", gap |-> NoGap, stall |-> 0,
     consec |-> 0, fired |-> 0, bonus |-> 0, advice |-> FALSE,
     deferred |-> {}, amended |-> 0, infra |-> 0]

Clear(g) == NoGoal

-----------------------------------------------------------------------------
(* Lifecycle.                                                               *)

\* Mutant: the timer keeps running through a pause.
PauseKeepsTimer(g, status, message) ==
    IF IsActive(g)
    THEN [g EXCEPT !.status = status, !.message = message \/ g.message]
    ELSE g

\* pause / pause_with_message: only from Active; a pause without a message
\* leaves the old one alone.
Pause(g, status, message) ==
    IF IsActive(g)
    THEN [g EXCEPT !.status = status, !.timer = FALSE, !.message = message \/ g.message]
    ELSE g

\* Mutant: the streak restarts, the last fire is remembered.
ResetStrategistStreakOnly(g) ==
    [g EXCEPT !.consec = 0, !.bonus = 0, !.advice = FALSE]

ResetStrategist(g) ==
    [g EXCEPT !.consec = 0, !.fired = 0, !.bonus = 0, !.advice = FALSE]

ResetStall(g) == [g EXCEPT !.gap = NoGap, !.stall = 0]

Resume(g) ==
    IF IsPaused(g)
    THEN [ResetStall(ResetStrategist(g)) EXCEPT
              !.status = "active", !.timer = TRUE, !.message = FALSE, !.attempts = 0]
    ELSE g

\* Mutant: terminal goals can be finished again, as something else.
FinishAgain(g, status) ==
    IF Exists(g)
    THEN [ResetStrategist(g) EXCEPT
              !.status = status, !.phase = "idle", !.timer = FALSE, !.message = FALSE]
    ELSE g

\* complete and budget_limit differ only in the status they leave behind.
Finish(g, status) ==
    IF IsActive(g) \/ IsPaused(g)
    THEN [ResetStrategist(g) EXCEPT
              !.status = status, !.phase = "idle", !.timer = FALSE, !.message = FALSE]
    ELSE g

Complete(g) == Finish(g, "complete")
BudgetLimit(g) == Finish(g, "budget_limited")

\* from_snapshot: an in-flight phase does not survive a restart, and an
\* Active goal that was in one comes back paused.  The streak of infra
\* failures is not part of the snapshot.
FromSnapshot(g) ==
    LET parked == IF g.phase = "idle" THEN g
                  ELSE [g EXCEPT !.phase = "idle",
                                 !.status = IF IsActive(g) THEN "user_paused" ELSE g.status]
    IN  [parked EXCEPT !.timer = IsActive(parked), !.infra = 0]

-----------------------------------------------------------------------------
(* The verification ladder.                                                 *)

ReserveAttempt(g) == [g EXCEPT !.attempts = @ + 1]

\* rollback_classifier_attempt saturates at zero.
RollbackAttempt(g) == [g EXCEPT !.attempts = IF @ = 0 THEN 0 ELSE @ - 1]

\* resolve_goal_classifier_policy: the cap in force for one completion claim.
Cap(g, maxRuns) == maxRuns + g.bonus

RecordVerdict(g, verdict) == [g EXCEPT !.verdict = verdict]
RecordStreak(g) == [g EXCEPT !.consec = @ + 1]

\* record_classifier_stall, and whether the same gap came back too often.
RecordStall(g, gap) ==
    IF gap = NoGap THEN g
    ELSE [g EXCEPT !.gap = gap, !.stall = IF g.gap = gap THEN g.stall + 1 ELSE 1]

StallLimit(g) == IF g.bonus > 0 THEN StallThreshold + CapBonus ELSE StallThreshold
Stalled(g, gap) == gap # NoGap /\ RecordStall(g, gap).stall >= StallLimit(g)

\* claim_strategist_fire with strategist_should_fire.
ShouldFire(g, force) == force \/ g.consec >= g.fired + StrategistEvery
ClaimStrategist(g) == ResetStall([g EXCEPT !.fired = g.consec, !.bonus = CapBonus])

RevokeBonus(g) == [g EXCEPT !.bonus = 0]
RecordAdvice(g) == [g EXCEPT !.advice = TRUE]

MayAmend(g) == g.amended < AmenderMaxRuns
ClaimAmender(g) == [g EXCEPT !.amended = @ + 1]

\* defer_criterion is idempotent per criterion.
Defer(g, criteria) == [g EXCEPT !.deferred = @ \cup criteria]

IsDeferred(g, c) == GoalWide \in g.deferred \/ c \in g.deferred

\* all_remaining_work_deferred over the criteria 1..total.
AllDeferred(g, total) == total > 0 /\ \A c \in 1 .. total : IsDeferred(g, c)

\* Mutant: the stall count is cleared, the attempts are not.
GrantKeepsAttempts(g) == ResetStall(g)

\* grant_fresh_classifier_budget after a deferral freed it.
GrantFreshBudget(g) == ResetStall([g EXCEPT !.attempts = 0])

-----------------------------------------------------------------------------
(* Infrastructure failures of whole turns.                                  *)

RecordInfraFailure(g) == [g EXCEPT !.infra = @ + 1]
InfraRetryLeft(g) == g.infra <= InfraRetryMax
ClearInfraStreak(g) == [g EXCEPT !.infra = 0]

Goals ==
    [status : Statuses, phase : {"idle", "executing"},
     timer : BOOLEAN, message : BOOLEAN,
     attempts : Nat, verdict : {"pending", "achieved", "rejected"},
     gap : Nat, stall : Nat, consec : Nat, fired : Nat, bonus : Nat, advice : BOOLEAN,
     deferred : SUBSET Nat, amended : Nat, infra : Nat]

=============================================================================
