------------------------------ MODULE RoundLoop ------------------------------
(***************************************************************************)
(* The round loop of one prompt (handle_prompt in turn.rs with the gate of *)
(* doggy_gate.rs): a model round runs, the gate observes it, decides, and  *)
(* either injects a follow-up and runs another round, accepts the task, or *)
(* ends the turn.                                                          *)
(*                                                                         *)
(* The world a round leaves behind is arbitrary here: which explicit work  *)
(* is open, what the panel last said, what the implementer claims          *)
(* finished, and everything else the gate watches (an observation:         *)
(* workspace files, checklist columns, tools called).  GoalSession ties    *)
(* open work, verdict and claims to the goal.                              *)
(***************************************************************************)
EXTENDS RoundLedger

CONSTANTS
    Observations,      \* what the gate can watch move, besides open work and verdict
    IdleObservations,  \* the observations of a round that called no tool
    Claims             \* sets of finished criteria the implementer may claim

ASSUME ObservationConstants ==
    /\ IdleObservations \subseteq Observations
    /\ NotAsked \notin Claims

VARIABLES
    pc,        \* "round": a model round is running; "ended": the turn is over
    ledger,    \* RoundLedger of this prompt
    machine,   \* TaskMachine of this prompt
    rounds,    \* doggy_rounds: rounds the gate asked for
    injected,  \* what the last follow-up asked the model to do
    view,      \* what the last decision was taken on
    cutoffs,   \* how often stalled work was cut off in this prompt
    criteria   \* the plan has parseable acceptance criteria

vars == <<pc, ledger, machine, rounds, injected, view, cutoffs, criteria>>

NoView == [stop |-> "none", open |-> TRUE, verdict |-> "pending"]
HostViews == {v \in Views : v.stop = "none"}

Init ==
    /\ pc = "round"
    /\ ledger = NewLedger
    /\ machine = Start(IdleMachine)
    /\ rounds = 0
    /\ injected = "none"
    /\ view = NoView
    /\ cutoffs = 0
    /\ criteria \in BOOLEAN

\* round_fingerprint: open work, verdict and the rest, compared verbatim.
Fingerprint(v, seen) == <<v.open, v.verdict, seen>>

Worked(seen) == seen \notin IdleObservations

\* DoggyRoundAction::Continue, then the absolute round cap of handle_prompt.
ContinueOrCap ==
    /\ rounds' = rounds + 1
    /\ pc' = IF rounds + 1 >= MaxRounds THEN "ended" ELSE "round"

EndTurn ==
    /\ pc' = "ended"
    /\ rounds' = rounds

\* Mutant: a round that moved something is not counted against the cap.
InjectUncounted(l, m, decision) ==
    /\ decision.kind = "another"
    /\ ledger' = l
    /\ machine' = MarkExecuting(m)
    /\ injected' = decision.why
    /\ cutoffs' = cutoffs
    /\ IF l.repeats = 1 /\ l.idle = 0 THEN pc' = "round" /\ rounds' = rounds ELSE ContinueOrCap

\* A follow-up is injected and the loop continues.
Inject(l, m, decision) ==
    /\ decision.kind = "another"
    /\ ledger' = l
    /\ machine' = MarkExecuting(m)
    /\ injected' = decision.why
    /\ cutoffs' = cutoffs
    /\ ContinueOrCap

\* doggy_cut_off_stalled_work: an unattributed deferral blocks every
\* criterion, so a plan with criteria has nothing reachable left and the run
\* ends; without criteria nothing can be deferred against and it goes on.
CutOff(l, m, decision) ==
    /\ decision = TaskPaused("no_progress")
    /\ machine' = m
    /\ cutoffs' = cutoffs + 1
    /\ IF criteria
       THEN ledger' = l /\ injected' = injected /\ EndTurn
       ELSE ledger' = ResetStreaks(l) /\ injected' = "cut_off" /\ ContinueOrCap

Done(l, m, decision) ==
    /\ decision = TaskDone
    /\ ledger' = l
    /\ machine' = m
    /\ UNCHANGED <<injected, cutoffs>>
    /\ EndTurn

\* The machine is (re)started when an earlier cut-off left it paused.
Started(m) == IF m.status = "active" THEN m ELSE Start(m)

\* doggy_request_acceptance_if_claimed asks the panel about a claim it was
\* not asked about last; what the panel answers is part of the view.
Requested(l, claim) ==
    IF claim = NotAsked \/ AlreadyRequestedFor(l, claim) THEN l ELSE MarkRequested(l, claim)

\* A successful round of a bound task ended: ask, observe, decide, act.
RoundEnd(v, seen, claim) ==
    LET l == Observe(Requested(ledger, claim), Fingerprint(v, seen), Worked(seen))
        decision == DecideAfterRound(v, StallLevel(l))
        m == Apply(Started(machine), decision)
    IN  /\ pc = "round"
        /\ view' = v
        /\ criteria' = criteria
        /\ \/ Inject(l, m, decision)
           \/ CutOff(l, m, decision)
           \/ Done(l, m, decision)

\* The budget ran out or the drain unbound the task: the gate pauses the
\* machine and ends the turn without judging the round.
GateStop(reason) ==
    /\ pc = "round"
    /\ machine' = Apply(Started(machine), TaskPaused(reason))
    /\ EndTurn
    /\ UNCHANGED <<ledger, injected, view, cutoffs, criteria>>

\* Asking for acceptance left the task unbound: nothing left to drive.
UnboundByRequest(claim) ==
    /\ pc = "round"
    /\ ~AlreadyRequestedFor(ledger, claim)
    /\ ledger' = MarkRequested(ledger, claim)
    /\ machine' = Started(machine)
    /\ EndTurn
    /\ UNCHANGED <<injected, view, cutoffs, criteria>>

\* The round failed, was refused, or the task was unbound meanwhile: the loop
\* breaks before the gate runs.
Break ==
    /\ pc = "round"
    /\ EndTurn
    /\ UNCHANGED <<ledger, machine, injected, view, cutoffs, criteria>>

Next ==
    \/ \E v \in HostViews, seen \in Observations, claim \in Claims \cup {NotAsked} :
           RoundEnd(v, seen, claim)
    \/ \E reason \in {"budget", "infra"} : GateStop(reason)
    \/ \E claim \in Claims : UnboundByRequest(claim)
    \/ Break

\* Every model round ends: the sampler completes, errors or times out.
Spec == Init /\ [][Next]_vars /\ WF_vars(Next)

-----------------------------------------------------------------------------
(* Properties.                                                              *)

Fingerprints == {NoFingerprint} \cup (BOOLEAN \X Verdicts \X Observations)

Ledgers ==
    [last : Fingerprints, repeats : Nat, idle : Nat, asked : Claims \cup {NotAsked}]

\* Every variable keeps its shape; the machine is one of decide.rs's states.
TypeOK ==
    /\ pc \in {"round", "ended"}
    /\ ledger \in Ledgers
    /\ machine \in Machines
    /\ rounds \in Nat
    /\ injected \in Injections \cup {"none", "cut_off"}
    /\ view \in Views
    /\ cutoffs \in Nat
    /\ criteria \in BOOLEAN

\* No round is ever started while the ledger already justifies a cut-off:
\* repeats and idle rounds are cut off when they reach their limit, however
\* they interleave with resets (progress.rs repeat_level / idle_level).
StallNeverOutrunsCutoff ==
    pc = "round" => /\ ledger.repeats < CutoffAfter
                    /\ ledger.idle < IdleCutoffAfter

\* The machine reports Done only for a turn that ended on a round without
\* explicit open work and with an Achieved verdict, and such a round always
\* ends the turn as Done, however alike the rounds before it looked
\* (decide.rs decide_after_round: the stall measure never overrides Done).
AcceptedExactlyWhenEarned ==
    LET earned == ~view.open /\ view.verdict = "achieved"
    IN  /\ machine.status = "done" => earned /\ pc = "ended"
        /\ earned => machine.status = "done"

MinStall == IF CutoffAfter < IdleCutoffAfter THEN CutoffAfter ELSE IdleCutoffAfter

\* Every cut-off is paid for with a full stall of its own: c cut-offs took at
\* least c times the shorter limit in rounds, the last one maybe uncounted,
\* because reset_streaks forgets both streaks.
CutOffsSpacedOut == cutoffs * MinStall <= rounds + 1

\* The gate never asks for more rounds than the cap, and a turn that used
\* them all has ended (DOGGY_MAX_ROUNDS_PER_PROMPT).
RoundsCapped ==
    /\ rounds <= MaxRounds
    /\ rounds = MaxRounds => pc = "ended"

KeepsEscalation ==
    (injected = "reapproach" /\ rounds' # rounds /\ injected' \in {"continue", "fix"}) =>
        (ledger'.last # ledger.last \/ ledger.idle > 0)

\* Once the gate escalated because rounds repeat, it falls back to a plain
\* continue or fix only after something it watches changed, or when the
\* escalation was for a tool-less round (repeat_level is sticky).
EscalationIsSticky == [][KeepsEscalation]_vars

\* Every prompt's round loop ends.
LoopTerminates == <>(pc = "ended")

=============================================================================
