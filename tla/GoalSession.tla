----------------------------- MODULE GoalSession -----------------------------
(***************************************************************************)
(* A goal driven through the turns of one session: prompts and slash       *)
(* commands start turns, the planner writes plan.md, the implementer ticks *)
(* Exec boxes and claims completion, the turn-end drain asks the panel,    *)
(* the verification ladder amends, defers, changes strategy or stops, the  *)
(* gate decides, and the completion handler settles the turn.  Ctrl+C,     *)
(* send-now and the posture toggle interleave with all of it at the await  *)
(* points, which are the values of pc.                                     *)
(*                                                                         *)
(* One turn runs at a time; slash commands are prompts and wait for it.    *)
(* The stall level is arbitrary here: RoundLoop computes it.               *)
(***************************************************************************)
EXTENDS GoalRecord, RoundLedger, FiniteSets

CONSTANTS
    PlanSizes,         \* how many criteria the planner may write
    MaxRows,           \* bound on the rows of a plan
    Depends,           \* the dependencies the planner declares, per criterion
    MaxRuns,           \* goal_classifier_max_runs
    Gaps,              \* gap fingerprints a panel may report
    Answers,           \* panel answers: "achieved", "rejected", "blocked", "fail_open"
    PendingCap,        \* GOAL_CLASSIFIER_PENDING_QUEUE_CAP
    BlockedAttempts,   \* blocked reports before the run may stop
    FailureLimit,      \* GOAL_CONTINUATION_BACKOFF_THRESHOLD
    ClassifierEnabled, \* goal_classifier_enabled
    DebugAssertions,   \* the build evaluates debug_assert!
    HasBudget,         \* the goal has a token budget, which may run out
    RoundResults,      \* how a round may end: "ok", "refused", "failed", "infra", "auth"
    ModelOps,          \* what the implementer does: "toggle", "add_row", "claim", "blocked"
    UserOps,           \* what the user does besides prompting
    MaxTurns           \* bound on the turns of the session

ASSUME SessionConstants ==
    /\ PlanSizes \subseteq Nat
    /\ MaxRows \in Nat
    /\ \A n \in PlanSizes : n <= MaxRows
    /\ Depends \in [1 .. MaxRows -> SUBSET (1 .. MaxRows)]
    /\ MaxRuns \in Nat \ {0}
    /\ Gaps \subseteq Nat
    /\ Answers \subseteq {"achieved", "rejected", "blocked", "fail_open"}
    /\ PendingCap \in Nat \ {0}
    /\ BlockedAttempts \in Nat \ {0}
    /\ FailureLimit \in Nat \ {0}
    /\ {ClassifierEnabled, DebugAssertions, HasBudget} \subseteq BOOLEAN
    /\ RoundResults \subseteq {"ok", "refused", "failed", "infra", "auth"}
    /\ MaxTurns \in Nat

VARIABLES
    goal,      \* the goal record
    plan,      \* plan.md: rows, the ticked Exec and Audit boxes, edited by hand or not
    planned,   \* plan_file is recorded on the goal
    pc,        \* where the running turn awaits; "idle" between turns
    stage,     \* why the turn is there: see Stages
    left,      \* completion claims the running drain still has to process
    answer,    \* the panel's answer being applied
    pending,   \* pending_classifier_completions
    asked,     \* ledger: the finished criteria last asked about
    rounds,    \* doggy_rounds of this prompt
    blocked,   \* goal_blocked_streak
    failures,  \* goal_continuation_streak
    timers,    \* infra retries waiting for their back-off
    queued,    \* a goal retry turn waits in pending_inputs
    posture,   \* goal_posture
    ui,        \* the completion phase last shown
    turns      \* turns started

vars == <<goal, plan, planned, pc, stage, left, answer, pending, asked, rounds,
          blocked, failures, timers, queued, posture, ui, turns>>

\* Groups of variables that most steps leave alone.
turnVars == <<left, answer, asked, rounds>>
hostVars == <<failures, timers, queued, posture, turns>>

Rows(p) == 1 .. p.rows
NoPlan == [rows |-> 0, exec |-> {}, audit |-> {}, edited |-> FALSE]
FreshPlan(n) == [rows |-> n, exec |-> {}, audit |-> {}, edited |-> FALSE]

NoAnswer == [kind |-> "none", refuted |-> {}, unowned |-> FALSE, gap |-> NoGap]

\* A rejection names criteria, or has findings no criterion owns, or both, or
\* (a panel without structured findings) neither; the panel may name a number
\* the plan does not have.
PanelAnswers ==
    {a \in [kind : Answers, refuted : SUBSET (1 .. MaxRows), unowned : BOOLEAN,
            gap : Gaps \cup {NoGap}] :
        a.kind = "rejected" \/ a = [NoAnswer EXCEPT !.kind = a.kind]}

Init ==
    /\ goal = NoGoal /\ plan = NoPlan /\ planned = FALSE
    /\ pc = "idle" /\ stage = "none" /\ left = 0 /\ answer = NoAnswer
    /\ pending = 0 /\ asked = NotAsked /\ rounds = 0 /\ blocked = 0 /\ failures = 0
    /\ timers = 0 /\ queued = FALSE /\ posture = FALSE /\ ui = "none" /\ turns = 0

\* doggy_task_bound: the completion gate drives this turn.
Bound == posture /\ IsActive(goal)

\* require_exec_complete: every row ticked, and at least one.
ExecComplete(p) == p.rows > 0 /\ p.exec = Rows(p)

\* unclaimed_criteria: the rows the decision counts as explicit open work.
Unclaimed(g, p) == {c \in Rows(p) : c \notin p.exec /\ ~IsDeferred(g, c)}

\* acceptance_is_claimed: every live criterion ticked, nothing audited.
Claimed(g, p) ==
    LET live == {c \in Rows(p) : ~IsDeferred(g, c)}
    IN  live # {} /\ live \subseteq p.exec /\ p.audit = {}

\* has_reachable_open_criterion: an unfinished row nobody gave up on.
Reachable(g, p) ==
    \E c \in Rows(p) : c \notin (p.exec \cap p.audit) /\ ~IsDeferred(g, c)

\* load_criterion_graph: a hand-edited plan no longer matches its dependency
\* table and is scheduled serially.
DependsOn(p, c) ==
    IF p.edited THEN {d \in Rows(p) : d = c - 1} ELSE Depends[c] \cap Rows(p)

\* Mutant: only the direct dependents lose their audit.
WithDirectDependents(p, refuted) ==
    refuted \cup {c \in Rows(p) : DependsOn(p, c) \cap refuted # {}}

\* with_dependents: the refuted criteria and everything built on them, i.e. the
\* smallest superset that no outside row depends on.
WithDependents(p, refuted) ==
    LET all == Rows(p) \cup refuted
        closed == {s \in SUBSET all :
                      /\ refuted \subseteq s
                      /\ \A c \in Rows(p) \ s : DependsOn(p, c) \cap s = {}}
    IN  {c \in all : \A s \in closed : c \in s}

AuditAll(p) == [p EXCEPT !.audit = Rows(p)]
AuditNone(p) == [p EXCEPT !.audit = {}]

Localized(a) == ~a.unowned /\ a.refuted # {}

\* What a rejection takes away: all audit credit, unless every finding is
\* attributed to a criterion.
Rejected(p, a) ==
    IF Localized(a) THEN [p EXCEPT !.audit = @ \ WithDependents(p, a.refuted)]
    ELSE AuditNone(p)

-----------------------------------------------------------------------------
(* Starting turns.                                                          *)

\* A turn gets a fresh ledger and round counter.
StartTurn ==
    /\ pc = "idle"
    /\ turns < MaxTurns
    /\ turns' = turns + 1
    /\ asked' = NotAsked
    /\ rounds' = 0
    /\ left' = 0
    /\ answer' = NoAnswer

\* setup_goal: a fresh goal on top of whatever plan.md is on disk, then the
\* planner.
SetUpGoal ==
    /\ goal' = CreateGoal
    /\ planned' = FALSE
    /\ pending' = 0
    /\ blocked' = 0
    /\ failures' = 0
    /\ pc' = "planning"
    /\ stage' = "setup"
    /\ UNCHANGED <<plan, ui>>

RunRound ==
    /\ pc' = "round"
    /\ stage' = "none"
    /\ UNCHANGED <<goal, plan, planned, pending, blocked, failures, ui>>

\* The Goal posture turns any prompt into a goal unless one is Active.
PromptBody == IF posture /\ ~IsActive(goal) THEN SetUpGoal ELSE RunRound

Prompt ==
    /\ StartTurn
    /\ PromptBody
    /\ UNCHANGED <<timers, queued, posture>>

\* The queued retry runs like any other prompt.
RetryTurn ==
    /\ StartTurn
    /\ queued
    /\ queued' = FALSE
    /\ PromptBody
    /\ UNCHANGED <<timers, posture>>

SlashGoal ==
    /\ StartTurn
    /\ posture' = TRUE
    /\ SetUpGoal
    /\ UNCHANGED <<timers, queued>>

\* /goal resume: resume or nudge, re-arm the posture, plan if there is none.
SlashResume ==
    /\ "resume" \in UserOps
    /\ StartTurn
    /\ IsPaused(goal) \/ IsActive(goal)
    /\ goal' = Resume(goal)
    /\ failures' = 0
    /\ blocked' = 0
    /\ posture' = TRUE
    /\ IF IsPaused(goal) /\ ~planned THEN pc' = "planning" /\ stage' = "resume"
       ELSE pc' = "round" /\ stage' = "none"
    /\ UNCHANGED <<plan, planned, pending, timers, queued, ui>>

\* /goal pause sits inside a debug_assert!.
SlashPause ==
    /\ "pause" \in UserOps
    /\ StartTurn
    /\ IsActive(goal)
    /\ goal' = IF DebugAssertions THEN Pause(goal, "user_paused", FALSE) ELSE goal
    /\ pending' = 0
    /\ pc' = "settle"
    /\ stage' = "pause"
    /\ UNCHANGED <<plan, planned, blocked, failures, timers, queued, posture, ui>>

SlashClear ==
    /\ "clear" \in UserOps
    /\ StartTurn
    /\ goal' = Clear(goal)
    /\ pending' = 0
    /\ blocked' = 0
    /\ failures' = 0
    /\ pc' = "settle"
    /\ stage' = "ok"
    /\ UNCHANGED <<plan, planned, timers, queued, posture, ui>>

-----------------------------------------------------------------------------
(* Planning (maybe_run_goal_planner).                                       *)

\* Mutant: the new plan inherits the ticks of the one it replaces.
PlanWrittenOverTicks(n) ==
    /\ pc = "planning"
    /\ plan' = [plan EXCEPT !.rows = n, !.edited = FALSE]
    /\ planned' = TRUE
    /\ pc' = "round"
    /\ stage' = "none"
    /\ UNCHANGED <<goal, pending, blocked, ui, turnVars, hostVars>>

\* The planner, or after its retries the harness, wrote a plan.
PlanWritten(n) ==
    /\ pc = "planning"
    /\ plan' = FreshPlan(n)
    /\ planned' = TRUE
    /\ pc' = "round"
    /\ stage' = "none"
    /\ UNCHANGED <<goal, pending, blocked, ui, turnVars, hostVars>>

\* No plan could be written: the goal pauses.  A fresh goal's turn goes on to
\* the model all the same, a resumed one ends.
PlanFails ==
    /\ pc = "planning"
    /\ goal' = Pause(goal, "user_paused", TRUE)
    /\ pending' = 0
    /\ IF stage = "resume" THEN pc' = "settle" /\ stage' = "ok"
       ELSE pc' = "round" /\ stage' = "none"
    /\ UNCHANGED <<plan, planned, blocked, ui, turnVars, hostVars>>

-----------------------------------------------------------------------------
(* A model round: the implementer works on the plan and reports.            *)

ToggleExec(c) ==
    /\ pc = "round"
    /\ "toggle" \in ModelOps
    /\ c \in Rows(plan)
    /\ plan' = [plan EXCEPT !.exec = IF c \in @ THEN @ \ {c} ELSE @ \cup {c}]
    /\ UNCHANGED <<goal, planned, pc, stage, pending, blocked, ui, turnVars, hostVars>>

\* The implementer (or the user) appends a row to plan.md by hand.
AddRow ==
    /\ pc = "round"
    /\ "add_row" \in ModelOps
    /\ plan.rows < MaxRows
    /\ plan' = [plan EXCEPT !.rows = @ + 1, !.edited = TRUE]
    /\ UNCHANGED <<goal, planned, pc, stage, pending, blocked, ui, turnVars, hostVars>>

\* update_goal(completed: true) mid-turn.  It breaks the blocked streak even
\* when refused; with the classifier off it is accepted on the spot, otherwise
\* kept for the turn end, the oldest claim making room.
ClaimDone ==
    /\ pc = "round"
    /\ "claim" \in ModelOps
    /\ blocked' = 0
    /\ IF ExecComplete(plan) /\ ~ClassifierEnabled
       THEN /\ pending' = 0
            /\ plan' = AuditAll(plan)
            /\ goal' = IF Exists(goal) THEN ResetStrategist(RecordVerdict(goal, "achieved"))
                       ELSE goal
       ELSE /\ pending' = IF ExecComplete(plan) /\ IsActive(goal) /\ pending < PendingCap
                          THEN pending + 1 ELSE pending
            /\ UNCHANGED <<goal, plan>>
    /\ UNCHANGED <<planned, pc, stage, ui, turnVars, hostVars>>

\* defer_blocker_or_end_run: the blocker is deferred goal-wide; with criteria
\* in the plan nothing reachable is left and the run stops.
Blocks(g) == Defer(g, {GoalWide})
EndsRun(g, p) == AllDeferred(Blocks(g), p.rows)

\* update_goal(blocked_reason) mid-turn: the third in a row ends the run.
ReportBlocked ==
    /\ pc = "round"
    /\ "blocked" \in ModelOps
    /\ IF blocked + 1 < BlockedAttempts \/ ~IsActive(goal)
       THEN /\ blocked' = IF blocked < BlockedAttempts THEN blocked + 1 ELSE blocked
            /\ UNCHANGED <<goal, pending>>
       ELSE /\ blocked' = 0
            /\ goal' = IF EndsRun(goal, plan)
                       THEN Pause(Blocks(goal), "blocked", TRUE) ELSE Blocks(goal)
            /\ pending' = IF EndsRun(goal, plan) THEN 0 ELSE pending
    /\ UNCHANGED <<plan, planned, pc, stage, ui, turnVars, hostVars>>

\* A completed round goes to the gate if the task is bound, and a refused,
\* failed or unbound one ends the turn.
RoundEnds(result) ==
    /\ pc = "round"
    /\ IF result = "ok" /\ Bound
       THEN pc' = "drain" /\ stage' = "turn_end" /\ left' = pending /\ pending' = 0
       ELSE /\ pc' = "settle"
            /\ stage' = IF result = "refused" THEN "ok" ELSE result
            /\ UNCHANGED <<left, pending>>
    /\ UNCHANGED <<goal, plan, planned, blocked, ui, answer, asked, rounds, hostVars>>

-----------------------------------------------------------------------------
(* The turn-end drain: one completion claim after the other.                *)

\* The next claim is dropped when the goal is no longer Active or a box is
\* unticked again; otherwise it reserves an attempt and the panel runs.
DrainNext ==
    /\ pc = "drain"
    /\ left > 0
    /\ blocked' = 0
    /\ IF ~ExecComplete(plan)
       THEN left' = left - 1 /\ UNCHANGED <<goal, plan, pc>>
       ELSE IF ~ClassifierEnabled
       THEN /\ left' = left - 1
            /\ plan' = AuditAll(plan)
            /\ goal' = ResetStrategist(RecordVerdict(goal, "achieved"))
            /\ UNCHANGED pc
       ELSE IF ~IsActive(goal)
       THEN left' = 0 /\ UNCHANGED <<goal, plan, pc>>
       ELSE /\ left' = left - 1
            /\ goal' = ReserveAttempt(goal)
            /\ pc' = "verify"
            /\ UNCHANGED plan
    /\ UNCHANGED <<planned, stage, answer, pending, asked, rounds, ui, hostVars>>

\* The reserved attempt is refunded when its verification is dropped.
Refund(g) ==
    IF g.status \in {"back_off_paused", "no_progress_paused", "blocked"} THEN g
    ELSE RollbackAttempt(g)

\* The panel, or the plan's deterministic checks before it, answered; the slot
\* is no longer refunded from here on.
PanelReturns(a) ==
    /\ pc = "verify"
    /\ answer' = a
    /\ pc' = "apply"
    /\ UNCHANGED <<goal, plan, planned, stage, left, pending, asked, rounds, blocked, ui, hostVars>>

ApplyAchieved ==
    /\ pc = "apply"
    /\ answer.kind = "achieved"
    /\ pending' = 0
    /\ plan' = AuditAll(plan)
    /\ goal' = ResetStrategist(RecordVerdict(goal, "achieved"))
    /\ pc' = "drain"
    /\ UNCHANGED <<planned, stage, blocked, ui, turnVars, hostVars>>

\* Every refuter says the model cannot fix it: give the slot back, reset the
\* ladder, stop for the user.
ApplyBlocked ==
    /\ pc = "apply"
    /\ answer.kind = "blocked"
    /\ goal' = ResetStrategist(ResetStall(RollbackAttempt(RecordVerdict(goal, "rejected"))))
    /\ pc' = "stop"
    /\ UNCHANGED <<plan, planned, stage, pending, blocked, ui, turnVars, hostVars>>

\* The verification infrastructure failed: never accepted, no rung climbed.
ApplyFailOpen ==
    /\ pc = "apply"
    /\ answer.kind = "fail_open"
    /\ pending' = 0
    /\ goal' = RecordStreak(RecordVerdict(goal, "rejected"))
    /\ plan' = AuditNone(plan)
    /\ pc' = "drain"
    /\ UNCHANGED <<planned, stage, blocked, ui, turnVars, hostVars>>

\* What defer_refuted_or_end_run gives up on.
Deferral(a) == IF Localized(a) THEN a.refuted ELSE {GoalWide}
GiveUp(g) == Defer(g, Deferral(answer))
Exhausted(g, p) == AllDeferred(g, p.rows) \/ ~Reachable(g, p)

\* The ladder after a rejection, on goal g and plan p: at the cap the refuted
\* work is given up and the rest gets a fresh budget; a gap that repeats buys a
\* change of strategy, and one that survives it is given up too; nothing
\* reachable left stops the run.
Judge(g, p) ==
    LET noted == RecordStreak(RecordVerdict(g, "rejected"))
        capped == noted.attempts >= Cap(noted, MaxRuns)
        overCap == GiveUp(noted)
        afterCap == IF capped THEN GrantFreshBudget(overCap) ELSE noted
        stalled == Stalled(afterCap, answer.gap)
        counted == RecordStall(afterCap, answer.gap)
        tried == counted.bonus > 0
        overStall == GiveUp(counted)
        kept == IF stalled /\ tried THEN GrantFreshBudget(overStall) ELSE counted
    IN  /\ plan' = p
        /\ IF capped /\ Exhausted(overCap, p) THEN goal' = overCap /\ pc' = "stop"
           ELSE IF stalled /\ tried /\ Exhausted(overStall, p)
           THEN goal' = overStall /\ pc' = "stop"
           ELSE IF ShouldFire(kept, stalled /\ ~tried)
           THEN goal' = ClaimStrategist(kept) /\ pc' = "strategy"
           ELSE goal' = kept /\ pc' = "drain"

Amends == answer.unowned /\ MayAmend(goal)

\* A rejection takes audit credit away at once.  Findings no criterion owns go
\* to the amender first, if a run is left; the ladder comes after it.
ApplyRejected ==
    /\ pc = "apply"
    /\ answer.kind = "rejected"
    /\ IF Amends
       THEN /\ plan' = Rejected(plan, answer)
            /\ goal' = ClaimAmender(goal)
            /\ pc' = "amend"
       ELSE Judge(goal, Rejected(plan, answer))
    /\ UNCHANGED <<planned, stage, pending, blocked, ui, turnVars, hostVars>>

\* The amender appended criteria with both boxes open, or came back with none.
Amended(n) ==
    /\ pc = "amend"
    /\ plan.rows + n <= MaxRows
    /\ Judge(goal, [plan EXCEPT !.rows = @ + n])
    /\ UNCHANGED <<planned, stage, pending, blocked, ui, turnVars, hostVars>>

\* maybe_run_goal_strategist: the bonus is kept only for a delivered note.
StrategistReturns(advised) ==
    /\ pc = "strategy"
    /\ goal' = IF advised THEN RecordAdvice(goal) ELSE RevokeBonus(goal)
    /\ pc' = "drain"
    /\ UNCHANGED <<plan, planned, stage, pending, blocked, ui, turnVars, hostVars>>

\* The pause that ends a run with nothing reachable left; what it interrupts
\* is the drain or the gate's own cut-off.
Stop ==
    /\ pc = "stop"
    /\ goal' = Pause(goal, "blocked", TRUE)
    /\ pending' = 0
    /\ IF stage = "cut_off" THEN pc' = "settle" /\ stage' = "ok" /\ ui' = "paused"
       ELSE pc' = "drain" /\ UNCHANGED <<stage, ui>>
    /\ UNCHANGED <<plan, planned, blocked, turnVars, hostVars>>

\* The drain is through.  When it was the gate's own request and left the task
\* unbound, the gate shows "done" and ends the turn.
DrainDone ==
    /\ pc = "drain"
    /\ left = 0
    /\ IF stage = "turn_end" THEN pc' = "gate" /\ ui' = "checking" /\ UNCHANGED stage
       ELSE IF Bound THEN pc' = "decide" /\ UNCHANGED <<stage, ui>>
       ELSE pc' = "settle" /\ stage' = "ok" /\ ui' = "done"
    /\ UNCHANGED <<goal, plan, planned, pending, blocked, turnVars, hostVars>>

-----------------------------------------------------------------------------
(* The gate (run_doggy_round_end after its drain).                          *)

\* enforce_goal_token_budget ends the goal; so does the completion handler.
GateBudget ==
    /\ pc = "gate"
    /\ HasBudget
    /\ goal' = BudgetLimit(goal)
    /\ pending' = 0
    /\ pc' = "settle"
    /\ stage' = "ok"
    /\ ui' = "paused"
    /\ UNCHANGED <<plan, planned, blocked, turnVars, hostVars>>

\* Mutant: only the posture is looked at, not whether the goal is Active.
GateUnboundByPosture ==
    /\ pc = "gate"
    /\ ~posture
    /\ pc' = "settle"
    /\ stage' = "ok"
    /\ ui' = "paused"
    /\ UNCHANGED <<goal, plan, planned, pending, blocked, turnVars, hostVars>>

\* The drain or the user left nothing for the gate to drive.
GateUnbound ==
    /\ pc = "gate"
    /\ ~Bound
    /\ pc' = "settle"
    /\ stage' = "ok"
    /\ ui' = "paused"
    /\ UNCHANGED <<goal, plan, planned, pending, blocked, turnVars, hostVars>>

MustAsk == Claimed(goal, plan) /\ asked # plan.exec

\* doggy_request_acceptance_if_claimed: the gate claims for a model that did
\* not, once per set of finished criteria, through the same drain.
GateAsks ==
    /\ pc = "gate"
    /\ Bound
    /\ MustAsk
    /\ asked' = plan.exec
    /\ stage' = "request"
    /\ left' = pending + 1
    /\ pending' = 0
    /\ pc' = "drain"
    /\ UNCHANGED <<goal, plan, planned, answer, rounds, blocked, ui, hostVars>>

GatePasses ==
    /\ pc = "gate"
    /\ Bound
    /\ ~MustAsk
    /\ pc' = "decide"
    /\ UNCHANGED <<goal, plan, planned, stage, pending, blocked, ui, turnVars, hostVars>>

\* doggy_cut_off_stalled_work and doggy_end_run_at_round_cap hand the goal to
\* the deferral ladder; without criteria nothing can be deferred against.
CutOffRun(goesOn) ==
    /\ goal' = IF IsActive(goal) THEN Blocks(goal) ELSE goal
    /\ IF IsActive(goal) /\ EndsRun(goal, plan)
       THEN pc' = "stop" /\ stage' = "cut_off" /\ UNCHANGED ui
       ELSE IF IsActive(goal) /\ goesOn
       THEN pc' = "round" /\ stage' = "none" /\ ui' = "executing"
       ELSE pc' = "settle" /\ stage' = "ok" /\ ui' = "paused"

\* Mutant: the snapshot does not read the plan.
ViewWithoutPlan == [stop |-> "none", open |-> FALSE, verdict |-> goal.verdict]

\* doggy_snapshot_open and the last verdict.
View == [stop |-> "none", open |-> Unclaimed(goal, plan) # {}, verdict |-> goal.verdict]

\* Snapshot, observe, decide: the stall level is whatever the ledger says.
Decide(stall) ==
    LET decision == DecideAfterRound(View, stall)
        lastRound == rounds + 1 >= MaxRounds
    IN  /\ pc = "decide"
        /\ CASE decision.kind = "done" ->
                   /\ pc' = "marking"
                   /\ UNCHANGED <<goal, stage, rounds, ui>>
             [] decision.kind = "paused" ->
                   /\ CutOffRun(~lastRound)
                   /\ rounds' = IF pc' = "stop" THEN rounds ELSE rounds + 1
             [] decision.kind = "another" /\ lastRound ->
                   /\ CutOffRun(FALSE)
                   /\ rounds' = rounds + 1
             [] decision.kind = "another" /\ ~lastRound ->
                   /\ pc' = "round"
                   /\ stage' = "none"
                   /\ rounds' = rounds + 1
                   /\ ui' = IF decision.why = "fix" THEN "fixing" ELSE "executing"
                   /\ UNCHANGED goal
        /\ UNCHANGED <<plan, planned, left, answer, pending, asked, blocked, hostVars>>

\* doggy_mark_task_done: the only way to Complete.
MarkDone ==
    /\ pc = "marking"
    /\ goal' = IF IsActive(goal) THEN Complete(goal) ELSE goal
    /\ ui' = "done"
    /\ pc' = "settle"
    /\ stage' = "ok"
    /\ UNCHANGED <<plan, planned, pending, blocked, turnVars, hostVars>>

-----------------------------------------------------------------------------
(* The completion handler (run_loop.rs): infra recovery, then               *)
(* handle_turn_end.                                                         *)

\* The goal after recover_or_pause_after_infra_err.
AfterInfra(g, result) ==
    IF ~IsActive(g) \/ result \notin {"infra", "auth"} THEN g
    ELSE IF result = "infra" /\ InfraRetryLeft(RecordInfraFailure(g)) THEN RecordInfraFailure(g)
    ELSE Pause(IF result = "infra" THEN RecordInfraFailure(g) ELSE g, "infra_paused", TRUE)

\* Mutant: the last retry is granted but never scheduled.
RetriesOneShort(g, result) ==
    result = "infra" /\ IsActive(g) /\ RecordInfraFailure(g).infra < InfraRetryMax

\* A retry turn is scheduled.
Retries(g, result) == result = "infra" /\ IsActive(g) /\ InfraRetryLeft(RecordInfraFailure(g))

Succeeded(result) == result \in {"ok", "pause"}

Settle(budget) ==
    LET g == AfterInfra(goal, stage)
        tired == ~Succeeded(stage) /\ IsActive(g) /\ failures + 1 >= FailureLimit
        stops == tired /\ EndsRun(g, plan)
    IN  /\ pc = "settle"
        /\ budget => HasBudget /\ IsActive(g)
        /\ goal' = IF budget THEN BudgetLimit(IF Succeeded(stage) THEN ClearInfraStreak(g) ELSE g)
                   ELSE IF ~IsActive(g) THEN g
                   ELSE IF Succeeded(stage) THEN ClearInfraStreak(g)
                   ELSE IF stops THEN Pause(Blocks(g), "blocked", TRUE)
                   ELSE IF tired THEN Blocks(g) ELSE g
        /\ failures' = IF ~IsActive(g) THEN failures
                       ELSE IF Succeeded(stage) THEN 0
                       ELSE IF budget THEN failures
                       ELSE IF tired THEN 0 ELSE failures + 1
        /\ pending' = IF budget \/ stops \/ (IsActive(goal) /\ ~IsActive(g)) THEN 0 ELSE pending
        /\ timers' = IF Retries(goal, stage) THEN timers + 1 ELSE timers
        /\ pc' = "idle"
        /\ stage' = "none"
        /\ UNCHANGED <<plan, planned, left, answer, asked, rounds, blocked, queued, posture, ui, turns>>

\* A back-off ends: re-drive the goal unless it stopped meanwhile.
RetryFires ==
    /\ timers > 0
    /\ timers' = timers - 1
    /\ queued' = (queued \/ IsActive(goal))
    /\ UNCHANGED <<goal, plan, planned, pc, stage, left, answer, pending, asked, rounds,
                   blocked, failures, posture, ui, turns>>

-----------------------------------------------------------------------------
(* The user, at any await.                                                  *)

Running == pc \notin {"idle", "settle"}

\* Mutant: the guards do not run when the turn's future is dropped.
AbandonNothing(g) == g

\* Dropping the turn's future runs its drop guards: the reserved slot and the
\* unearned bonus go back.
Abandon(g) ==
    CASE pc = "verify" -> Refund(g)
      [] pc = "strategy" -> RevokeBonus(g)
      [] pc \notin {"verify", "strategy"} -> g

DropTurn ==
    /\ pc' = "idle"
    /\ stage' = "none"
    /\ left' = 0
    /\ answer' = NoAnswer
    /\ asked' = NotAsked
    /\ rounds' = 0

\* Mutant: Ctrl+C pauses the goal but keeps its deferred claims.
CancelKeepsPending ==
    /\ "cancel" \in UserOps
    /\ Running \/ (pc = "idle" /\ IsActive(goal) /\ ~queued)
    /\ goal' = Pause(Abandon(goal), "user_paused", FALSE)
    /\ DropTurn
    /\ UNCHANGED <<plan, planned, pending, blocked, ui, hostVars>>

\* Ctrl+C: abort the turn, then pause the goal.  (An idle session has already
\* started a queued retry.)
Cancel ==
    /\ "cancel" \in UserOps
    /\ Running \/ (pc = "idle" /\ IsActive(goal) /\ ~queued)
    /\ goal' = Pause(Abandon(goal), "user_paused", FALSE)
    /\ pending' = IF IsActive(goal) THEN 0 ELSE pending
    /\ DropTurn
    /\ UNCHANGED <<plan, planned, blocked, ui, hostVars>>

\* Send-now: abort the turn only; the goal stays Active for the next prompt.
SendNow ==
    /\ "send_now" \in UserOps
    /\ Running
    /\ goal' = Abandon(goal)
    /\ DropTurn
    /\ UNCHANGED <<plan, planned, pending, blocked, ui, hostVars>>

\* Shift+Tab.
TogglePosture ==
    /\ "posture" \in UserOps
    /\ posture' = ~posture
    /\ UNCHANGED <<goal, plan, planned, pc, stage, left, answer, pending, asked, rounds,
                   blocked, failures, timers, queued, ui, turns>>

-----------------------------------------------------------------------------

Implementer == (\E c \in 1 .. MaxRows : ToggleExec(c)) \/ AddRow \/ ClaimDone \/ ReportBlocked

\* Every step the harness takes by itself once a turn runs.
Harness ==
    \/ (\E n \in PlanSizes : PlanWritten(n)) \/ PlanFails
    \/ \E result \in RoundResults : RoundEnds(result)
    \/ DrainNext \/ DrainDone \/ ApplyAchieved \/ ApplyRejected \/ ApplyBlocked \/ ApplyFailOpen
    \/ \E a \in PanelAnswers : PanelReturns(a)
    \/ \E n \in 0 .. MaxRows : Amended(n)
    \/ \E advised \in BOOLEAN : StrategistReturns(advised)
    \/ Stop \/ GateBudget \/ GateUnbound \/ GateAsks \/ GatePasses \/ MarkDone
    \/ \E stall \in {"progressing", "reapproach", "cut_off"} : Decide(stall)
    \/ \E budget \in BOOLEAN : Settle(budget)

User ==
    \/ Prompt \/ SlashGoal \/ SlashResume \/ SlashPause \/ SlashClear
    \/ Cancel \/ SendNow \/ TogglePosture

Next == Harness \/ Implementer \/ User \/ RetryTurn \/ RetryFires

\* A turn that runs takes its next step: rounds, panels, planners, amenders
\* and strategists all answer, fail or time out.  Nothing is assumed of the
\* user, and nothing makes the implementer claim or report anything.
Spec == Init /\ [][Next]_vars /\ WF_vars(Harness)

-----------------------------------------------------------------------------
(* Properties.                                                              *)

Plans == [rows : Nat, exec : SUBSET Nat, audit : SUBSET Nat, edited : BOOLEAN]
Pcs == {"idle", "planning", "round", "drain", "verify", "apply", "amend", "strategy",
        "stop", "gate", "decide", "marking", "settle"}
Stages == {"none", "setup", "resume", "turn_end", "request", "cut_off", "pause",
           "ok", "failed", "infra", "auth"}

\* Every variable keeps its shape; counters stay natural and the audited and
\* ticked boxes are boxes of the plan.
TypeOK ==
    /\ goal \in Goals
    /\ plan \in Plans
    /\ plan.exec \cup plan.audit \subseteq Rows(plan)
    /\ pc \in Pcs
    /\ stage \in Stages
    /\ answer \in PanelAnswers \cup {NoAnswer}
    /\ {left, pending, rounds, blocked, failures, timers, turns} \subseteq Nat
    /\ asked \in SUBSET Nat
    /\ {planned, queued, posture} \subseteq BOOLEAN
    /\ ui \in {"none", "checking", "executing", "fixing", "paused", "done"}

\* A criterion keeps its audit mark only while everything the planner said it
\* is built on keeps its own: no order of verdicts and amendments leaves credit
\* resting on refuted work (with_dependents).
AuditRespectsDependencies ==
    ~plan.edited => \A c \in plan.audit : Depends[c] \cap Rows(plan) \subseteq plan.audit

\* A raised attempt cap is always paid for by a delivered change of strategy,
\* whoever fails or cancels the strategist (the bonus drop guard).
BonusEarned == goal.bonus > 0 => pc = "strategy" \/ goal.advice

\* No deferred completion claim outlives the Active goal it was made for: every
\* pause, stop, budget limit, clear and replacement drops the queue
\* (clear_pending_classifier_completions).
PendingOnlyWhileActive == pending > 0 => IsActive(goal)

\* The panel runs at most this often between two refills of the budget: the
\* raised cap, plus the further claims of the drain that reached it.  Holds
\* while no verification is cancelled and none fails open.
AttemptsBounded == goal.attempts <= MaxRuns + CapBonus + PendingCap

Life(g) ==
    CASE g.status = "active" -> "running"
      [] g.status = "complete" -> "done"
      [] g.status = "budget_limited" -> "exhausted"
      [] g.status = "none" -> "none"
      [] g.status \in PausedStatuses -> "paused"

Authority == INSTANCE CompletionAuthority WITH
    life <- Life(goal),
    accepted <- goal.verdict = "achieved",
    open <- Unclaimed(goal, plan) # {}

\* The session implements the completion authority: no interleaving of turns,
\* cancels, toggles and verdicts completes a goal whose last verdict is not
\* Achieved or that has a live criterion unclaimed.
ImplementsAuthority == Authority!Spec

\* Every turn ends, whatever the panel answers and the implementer does.
TurnEnds == (pc # "idle") ~> (pc = "idle")

\* An unattended run whose last turns failed for infrastructure reasons always
\* has a retry under way: a back-off running or a turn queued.  Holds while no
\* turn fails otherwise and the user does not cancel.
RetryNeverLost ==
    (pc = "idle" /\ IsActive(goal) /\ goal.infra > 0) => (timers > 0 \/ queued)

-----------------------------------------------------------------------------
(* What a comment of the code says, and the code does not keep.              *)

RetryKeepsGoal == (queued /\ ~queued') => goal' = goal

\* A retry re-drives the goal it was queued for and never sets up another one
\* in place of a goal that stopped meanwhile.
RetryNeverReplacesGoal == [][RetryKeepsGoal]_vars

=============================================================================
