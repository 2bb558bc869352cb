----------------------------- MODULE RoundLedger -----------------------------
(***************************************************************************)
(* The completion rules of xai-doggy-orchestrator (decide.rs) and the      *)
(* stall measure layered on top of them (progress.rs), as pure operators.  *)
(* RoundLoop drives them from an arbitrary world; GoalSession drives the   *)
(* decision from the goal's own state.                                     *)
(***************************************************************************)
EXTENDS Integers

CONSTANTS
    ReapproachAfter,   \* STALL_REAPPROACH_AFTER
    CutoffAfter,       \* STALL_CUTOFF_AFTER
    IdleCutoffAfter,   \* IDLE_CUTOFF_AFTER
    MaxRounds          \* DOGGY_MAX_ROUNDS_PER_PROMPT

ASSUME StallConstants ==
    /\ ReapproachAfter \in Nat \ {0}
    /\ CutoffAfter \in Nat
    /\ ReapproachAfter < CutoffAfter
    /\ IdleCutoffAfter \in Nat \ {0}

ASSUME RoundCapConstant == MaxRounds \in Nat \ {0}

-----------------------------------------------------------------------------
(* The ledger: cross-round state of one prompt.  The round number and the   *)
(* running totals only feed the wording of the next injection: left out.    *)

NoFingerprint == <<>>
NotAsked == {}      \* a claim names at least one finished criterion

NewLedger ==
    [last |-> NoFingerprint, repeats |-> 0, idle |-> 0, asked |-> NotAsked]

\* One round ended with this fingerprint; worked: it called at least one tool.
Observe(l, fingerprint, worked) ==
    [last |-> fingerprint,
     repeats |-> IF l.last = fingerprint THEN l.repeats + 1 ELSE 1,
     idle |-> IF worked THEN 0 ELSE l.idle + 1,
     asked |-> l.asked]

ResetStreaks(l) == [l EXCEPT !.last = NoFingerprint, !.repeats = 0, !.idle = 0]

\* The harness asks for acceptance once per set of finished criteria.
AlreadyRequestedFor(l, execed) == l.asked = execed
MarkRequested(l, execed) == [l EXCEPT !.asked = execed]

\* Mutant: escalates every ReapproachAfter repeats instead of from there on.
RepeatLevelPeriodic(l) ==
    IF l.repeats >= CutoffAfter THEN "cut_off"
    ELSE IF l.repeats > 0 /\ l.repeats % ReapproachAfter = 0 THEN "reapproach" ELSE "progressing"

RepeatLevel(l) ==
    IF l.repeats >= CutoffAfter THEN "cut_off"
    ELSE IF l.repeats >= ReapproachAfter THEN "reapproach" ELSE "progressing"

\* Mutant: one idle round too few.
IdleLevelEarly(l) ==
    IF l.idle + 1 >= IdleCutoffAfter THEN "cut_off"
    ELSE IF l.idle >= 1 THEN "reapproach" ELSE "progressing"

\* Mutant: one idle round too many.
IdleLevelLate(l) ==
    IF l.idle > IdleCutoffAfter THEN "cut_off"
    ELSE IF l.idle >= 1 THEN "reapproach" ELSE "progressing"

IdleLevel(l) ==
    IF l.idle >= IdleCutoffAfter THEN "cut_off"
    ELSE IF l.idle >= 1 THEN "reapproach" ELSE "progressing"

\* StallLevel::worst: the weaker signal never masks the stronger one.
Worst(a, b) ==
    IF "cut_off" \in {a, b} THEN "cut_off"
    ELSE IF "reapproach" \in {a, b} THEN "reapproach" ELSE "progressing"

StallLevel(l) == Worst(RepeatLevel(l), IdleLevel(l))

-----------------------------------------------------------------------------
(* The decision.  A view is what the host hands over after a round:         *)
(*   stop    "none", or why the round may not be judged at all (the host    *)
(*           checks these itself before it asks, see RoundLoop!GateStop)     *)
(*   open    some acceptance criterion is still explicit open work          *)
(*   verdict the panel's last word.                                         *)

Stops == {"none", "user_cancel", "budget", "infra"}
Verdicts == {"pending", "achieved", "rejected"}
Views == [stop : Stops, open : BOOLEAN, verdict : Verdicts]

Injections == {"continue", "fix", "reapproach"}
Pauses == {"user_cancel", "budget", "infra", "no_progress"}

RunAnotherRound(injection) == [kind |-> "another", why |-> injection]
TaskDone == [kind |-> "done", why |-> "accepted"]
TaskPaused(reason) == [kind |-> "paused", why |-> reason]

\* Mutant: ticked boxes are enough; nobody has to accept the work.
DecideOnTicks(view) ==
    CASE view.stop # "none" -> TaskPaused(view.stop)
      [] view.stop = "none" /\ view.open -> RunAnotherRound("continue")
      [] view.stop = "none" /\ ~view.open -> TaskDone

\* decide_completion: whether the task is done, before the stall measure.
DecideCompletion(view) ==
    CASE view.stop # "none" -> TaskPaused(view.stop)
      [] view.stop = "none" /\ view.open -> RunAnotherRound("continue")
      [] view.stop = "none" /\ ~view.open /\ view.verdict = "achieved" -> TaskDone
      [] view.stop = "none" /\ ~view.open /\ view.verdict = "rejected" -> RunAnotherRound("fix")
      [] view.stop = "none" /\ ~view.open /\ view.verdict = "pending" -> RunAnotherRound("continue")

\* Mutant: a stalled round is cut off even when it finished the task.
DecideStallFirst(view, stall) ==
    IF stall = "cut_off" THEN TaskPaused("no_progress") ELSE DecideCompletion(view)

\* decide_after_round: the stall measure may only downgrade another round.
DecideAfterRound(view, stall) ==
    LET decision == DecideCompletion(view)
    IN  CASE decision.kind # "another" \/ stall = "progressing" -> decision
          [] decision.kind = "another" /\ stall = "reapproach" -> RunAnotherRound("reapproach")
          [] decision.kind = "another" /\ stall = "cut_off" -> TaskPaused("no_progress")

-----------------------------------------------------------------------------
(* TaskMachine: the phase and status the host keeps beside the decision.    *)

IdleMachine == [phase |-> "idle", status |-> "idle", pause |-> "none"]
Start(m) == [phase |-> "executing", status |-> "active", pause |-> "none"]

Apply(m, decision) ==
    CASE decision.kind = "another" ->
             [phase |-> IF decision.why = "fix" THEN "fix" ELSE "executing",
              status |-> "active", pause |-> "none"]
      [] decision.kind = "done" ->
             [phase |-> "done", status |-> "done", pause |-> "none"]
      [] decision.kind = "paused" ->
             [phase |-> "paused", status |-> "paused", pause |-> decision.why]

MarkExecuting(m) == IF m.status = "active" THEN [m EXCEPT !.phase = "executing"] ELSE m

Machines ==
    [phase : {"idle", "executing", "fix", "done", "paused"},
     status : {"idle", "active", "done", "paused"},
     pause : Pauses \cup {"none"}]

=============================================================================
