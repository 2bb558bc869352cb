# Doggy: the completion authority and the queues around it, specified, checked and proved

Doggy is a terminal coding agent (a fork of a shell with sessions, tools, subagents and a
TUI) whose distinguishing part is *unattended goals*: the user states an objective, a
planner turns it into acceptance criteria, an implementer model works on them round after
round, a panel of skeptics audits every claim of completion, and a deterministic gate
(Doggy) alone decides when the goal is finished. This directory specifies that part: the
code that decides whether a run continues, stops or is accepted, and everything that can
interrupt it. Two queues that the session depends on are specified beside it: the prompt
queue, which decides what runs next and whom a cancel hits, and the upload queue, which must
not lose what it spilled to disk.

Paths below are relative to `src/crates/codegen/`; `session/` stands for
`xai-grok-shell/src/session/`, `impl/` for `session/acp_session_impl/`.

## 1. Inventory

### Modelled

| Component | State it keeps | Operations |
| --- | --- | --- |
| Completion rules and stall ledger, `xai-doggy-orchestrator/src/{decide,progress,state}.rs` | `TaskMachine` (status, phase, pause reason); `RoundLedger` (last fingerprint, repeat streak, idle streak, last criteria asked about) | `start`, `apply`, `mark_executing`, `decide_completion`, `decide_after_round`, `observe`, `reset_streaks`, `mark_verification_requested` |
| Round loop and gate, `impl/turn.rs`, `impl/doggy_gate.rs` | round counter, ledger and machine of the prompt, the completion phase shown | run a round, drain, request acceptance, decide, inject a follow-up, cut off, stop at the round cap, mark done |
| Goal record, `session/goal_tracker.rs` | status, timer, pause message, verification attempts and bonus, rejection streak, strategist marker and advice, gap stall, deferred criteria, amender runs, infra streak | 21 methods: create, pause, resume, complete, budget limit, clear, restore, reserve, roll back, record, defer, grant, claim ... |
| Verification ladder, `impl/goal.rs`, `impl/goal_support.rs` | deferred claims (`pending_classifier_completions`), the reserved attempt, blocked streak | drain claims, run the panel, apply Achieved / NotAchieved / Blocked / FailOpen, amend the plan, change strategy, defer, stop |
| Goal lifecycle, `impl/{slash_exec,tasks_cancel,turn_end,session_mode,run_loop}.rs` | goal posture, continuation streak, back-off timers, queued retry turn | prompt, `/goal`, pause, resume, clear, Ctrl+C, send-now, posture toggle, turn end, infra recovery |
| Skeptic panel, `session/goal_classifier.rs` | attempt number, verdict files on disk, the gatekeeper's session id, one result per seat | gate on deterministic checks, fail open, run the gatekeeper, fan out, read verdicts, fall back, aggregate, cancel |
| Acceptance checklist, `session/goal_acceptance_checklist.rs` | rows of `plan.md` with an Exec and an Audit box | tick, audit all, clear all, clear some |
| Criterion graph, `session/goal_criterion_graph.rs` | dependencies and write scopes per criterion | load and validate, fall back to serial, order conflicts, peel waves, invalidate dependents |
| Prompt queue and interjections, `impl/{prompt_queue,interjection,tasks_cancel,notification_drain,turn_end,run_loop}.rs` | `pending_inputs`, `running_task`, `current_prompt_id`, `pending_interjections`, pending notifications and the monitor buffer, the completion channel | prompt, send-now, interject, promote a row, remove, clear, reorder, auto-wake, notify, plain / teardown / rewind cancel, completion, flush, notification drain, promotion from detached tasks |
| Upload queue and spill recovery, `xai-file-utils/src/queue.rs`, `xai-grok-workspace/src/recovery.rs`, `xai-grok-shell/src/upload/trace.rs` | the spill directory (temp file and manifest per artifact), the bounded channel, `UploadQueueStats`, the worker's semaphore and failure breaker, the reconcile claim | enqueue (deferred and blocking), dispatch, retry, park, settle, drain and its deadline, crash, startup recovery, orphan cleanup, purge |

How they interact. `handle_prompt` owns a prompt: it creates goal, ledger and machine and
loops over rounds. After each round it calls the gate, which first drains the claims the
implementer made (the ladder runs the panel and writes verdict and audit boxes), may ask
for acceptance itself, then feeds open criteria and last verdict to the pure decision
functions, and injects a follow-up, hands the stall to the deferral ladder or completes the
goal. `handle_turn_end` settles the turn: continuation streak, infra back-off on a detached
task, budget. The goal record is shared behind a lock by all of them, `plan.md` by the
harness and the model. What becomes a turn at all comes from the prompt queue: the session
loop serves completions and commands one arm at a time, the running turn's task and two
kinds of detached tasks take the same state lock between the arm's locked sections. Traces
of a turn leave the process through the upload queue, whose worker and tasks run beside
everything else and whose directory is the only state a crash leaves behind.

What is hard here: every `.await` between reading and writing the goal can be interrupted
by a cancel or a send-now, which drops the turn's future and leaves clean-up to drop
guards; a posture toggle unbinds the gate in the middle of a turn; retries fire from
detached tasks; a dozen counters with different limits are reset on different paths; the
verdict is a field of the goal, not of the work it judged; and an unattended run that
neither stops nor makes progress spends tokens without anybody watching. In the prompt queue
a cancel takes the front under the lock, aborts the task after it and answers last, with
promotions and completions in between. In the upload queue the directory, the channel and
the counters are three views of the same items, changed one after the other, across crashes
and aborted drains.

Correctness, per component: the loop ends, cuts off stalled work in time and accepts
exactly what was earned (rules, loop); bookkeeping stays consistent under every order of
calls (record); attempts are bounded, bonus budget is earned, audit credit never rests on
refuted work (ladder); approval needs independent judges who answered, and missing answers
neither approve nor stop the run (panel); criteria that run together never write the same
file and every criterion gets to run (graph); nothing completes without an Achieved verdict, claims do not outlive
their goal, retries are not lost (lifecycle); the running turn is the front, a cancel
spares the prompts that wait, no prompt runs twice, every client is answered and no
interjection is stranded (prompt queue); nothing promised is lost, an idle queue is really
idle, blocked callers are answered and a drain ends (upload queue).

### Not modelled

Of the modelled components:

* the prompt queue's texts, versions, owners and broadcasts (`handle_edit_queued_prompt`
  changes nothing else), the cap `MAX_PENDING_NOTIFICATIONS`, `Shutdown`, and the synthetic
  prompts of the goal summary and the scheduler, which are queued like an auto-wake;
* the upload queue's deduplication by content (`uploads_in_flight`); `enqueue`, which
  `upload_trace_artifact` (`trace.rs:1553`) uses: the same core as `enqueue_bytes_blocking`
  without a manifest and with an inline upload when the channel is closed, so a crash loses the
  item by design and recovery never sees it; `enqueue_file*` and the file references, which
  nothing outside the queue's tests calls; and deletions that fail (`delete_pair` logs and goes
  on, so the pair meets the next recovery);
* what a restored session does about its goal when it starts: an Active goal re-arms the Goal
  posture, or is paused when `update_goal` is not registered
  (`maybe_reconcile_active_goal_without_harness`), and gets a plan when it has none;
* the panel's findings and reports, the checklist's markdown, the planner's retries, and the
  contents of an amendment.

The circuit breaker of the sampler, subagent coordination and the chat-state actor are
planned (section 2). Token and time accounting is arithmetic on unbounded sums; the budget
running out is a nondeterministic event here. Prompts, markdown parsing and rewriting, report
wording and TUI are text. Sampler, tools, sandbox, worktrees, auth, config, update and
telemetry are I/O or services around the session. `PROJECT.json` lists each with its reason.

The models cover a small share of the repository's 1.1 million lines, and always will: most
of them are terminal rendering and view state, tool implementations, configuration, protocol
types and vendored services, whose behaviour is text, layout or I/O and has no state machine
a model checker could say something about. What is modelled is the concurrent and stateful
code on which the unattended runs rest.

## 2. Plan

Done: RoundLedger and RoundLoop, GoalRecord and GoalTracker, SkepticPanel, CriterionGraph,
CompletionAuthority and GoalSession (which implements it), UploadQueue and PromptQueue, each
model-checked, and every safety property the runs check proved (section 5).

Next, in this order:

1. More theorems about states the runs do not name: a slot of the prompt queue's
   `send_now` set is a queued item's; a parked caller was told so.
2. `PlanAmendment` (`goal_replan.rs`): the amender's proposals, what is refused, how rows
   and dependencies are appended while the implementer edits the same file.
3. PromptQueue in place of GoalSession's single `queued` flag.
4. `CircuitBreaker`: closed / open / half-open under concurrent calls.
5. Planner retries (`goal_planner.rs`, `goal_support.rs`) and subagent spawn / cancel /
   usage.
6. Findings and their attribution in SkepticPanel, composed with GoalSession's
   `PanelReturns`.

## 3. Modules

| Module | Models | Uses |
| --- | --- | --- |
| `RoundLedger` | `decide.rs` and `progress.rs` as pure operators | |
| `RoundLoop` | the round loop of one prompt with the gate | `RoundLedger` |
| `RoundLoop_proofs` | its theorems | `RoundLoop` |
| `GoalRecord` | the fields and transitions of `GoalOrchestration` as operators on a record | |
| `GoalRecord_proofs` | what the transitions of the record do, as lemmas | `GoalRecord` |
| `GoalTracker` | the tracker as a component: its methods in any order, with restarts | `GoalRecord` |
| `GoalTracker_proofs` | its theorems | `GoalTracker`, `GoalRecord_proofs` |
| `SkepticPanel` | the verification stage of one goal, panel after panel | |
| `SkepticPanel_proofs` | its theorems | `SkepticPanel` |
| `CriterionGraph` | the dependency and scope contract over the criteria | |
| `CriterionGraph_proofs` | its theorems | `CriterionGraph` |
| `CompletionAuthority` | what the session promises about finishing a goal | |
| `GoalSession` | a goal through the turns of a session | `GoalRecord`, `RoundLedger`, `CompletionAuthority` |
| `GoalSession_proofs` | its theorems | `GoalSession`, `GoalRecord_proofs` |
| `UploadQueue` | the spill-to-disk upload queue and the startup reconcile of its directory | |
| `UploadQueue_proofs` | its theorems | `UploadQueue` |
| `PromptQueue` | the session loop's queue of prompts, interjections and notifications | |
| `PromptQueue_proofs` | its theorems | `PromptQueue` |
| `MC*` | model values and small sets | |

Definitions under a comment "Mutant: ..." are the plausible bugs of the mutation runs; no
specification uses them.

**RoundLedger, RoundLoop.** `machine` is `TaskMachine`, `ledger` is `RoundLedger`, `rounds`
is `doggy_rounds`, `view` the `RoundEndView` of the last decision. `RoundEnd` is the whole
of `run_doggy_round_end` for a bound task: request, observe, decide, act, and the cap check
of `handle_prompt` that follows. A fingerprint is the tuple the code hashes, compared
verbatim. What a round leaves behind is arbitrary (`HostViews`, `Observations`, `Claims`);
`criteria` says whether the plan has parseable criteria, which decides whether a cut-off
ends the run.

**GoalRecord, GoalTracker.** One record per goal; `timer` is `active_since.is_some()`,
`message` is `pause_message.is_some()`, `deferred` the set of deferred criteria with
`GoalWide` for an unattributed one. Fields that only feed reports, elapsed time and tokens
are left out. `Restart` persists and restores the record (`from_snapshot`). Counters that
the code leaves unbounded are capped by `MaxCount` in GoalTracker's guards.

**SkepticPanel.** `attempt` is `classifier_runs_attempted`, `files` the verdict files by
attempt and seat, `prior` is `skeptic0_session_id`, `known` the sessions of skeptic 0 that
were really started (resuming any other is an error), `run` and `result`
are the skeptics of the panel under way. A session id is fresh per panel and shared by the
resumed child and the cold one that replaces it. A verdict is the three fields the aggregation reads;
a file that is missing or does not parse is empty. Steps are those of `run_one_skeptic` for
each seat, interleaved, with writes of the file at any time before the skeptic ends. Left
out: evidence, findings, fingerprints, reports and telemetry (text); a reaped skeptic that
still writes after a cancel (it would only add to what `stale_verdict` shows); changes of
the panel size during a goal. The history variables `fresh` and `spawned` say which seats
wrote a file in this panel and bound the run; no action reads `fresh` except to tell a
skeptic that never started from one that ran.

**CriterionGraph.** One step is one iteration of a loop of the code, so that termination is
a property and not an assumption. A path of a scope cell is the sequence of its segments;
`ParseList`, `NormalizeScope` and `LiteralPrefix` do to it what the code does to the string:
split at the comma of a brace, drop leading dots, stop at the first wildcard. `Names` says which
files a planner means by the path, `Understood` which paths the code takes for that. `Reaches` is the least closed set instead of the code's stack, `Schedulable` is
"no set waits for itself" instead of the second peeling loop; the peeling loop itself is
`PeelWave`. Running a wave (`goal_fanout.rs`)
is reached only from `prepare_goal_continuation`, which nothing calls at this commit, so
`NoLostEdit` is what that fan-out will rely on; today the waves feed the criteria view and
the planner's and amender's validation.
`with_dependents` is called on the rejection path today.

**GoalSession.** The await points of a turn are the values of `pc`:

```
idle -> planning -> round -> drain -> verify -> apply -> amend -> strategy
                      ^        |                   \-> stop
                      |        v
                      +---- decide <- gate           decide -> marking -> settle -> idle
```

`stage` records why the turn is at a shared point (the turn-end drain, the gate's own
request, a cut-off; the result a turn settles with). Cancel and send-now are enabled at every
`pc` and run the drop guards (`Abandon`, `Refund`); the posture toggle is enabled at every
`pc` too, since it is handled by the session loop beside the running turn. Slash commands
are prompts and start turns. A hand-edited plan no longer matches its dependency table and
falls back to the serial graph.

Assumptions of GoalSession, all from how the session is built: the goal harness and the
planner are enabled and subagents can be spawned; the implementer edits Exec boxes and may
append rows, never Audit boxes; one turn runs at a time. The stall level in `Decide` is
arbitrary, because RoundLoop computes it from the ledger. A blocked report in the middle of
a turn defers and pauses in one step. The branch for a status that changed during
verification is unreachable: only a cancel can change it then, and a cancel drops the
verification.

**CompletionAuthority.** Three variables: the goal's life, whether the last verdict is
Achieved, whether a live criterion is unclaimed. `Accept` is the only way to `done`.
GoalSession maps `life` from the status, `accepted` from the recorded verdict, `open` from
`unclaimed_criteria`.

**PromptQueue.** `queue` is `pending_inputs`, whose front is the running turn as long as
`running` is set; `pin` is `current_prompt_id`, which the turn's scope guard clears before the
completion is posted. `arm` is where the loop stands in the arm it serves: an arm that awaits
is split at its locked sections, so `Sever` (the locked section of `cancel_running_task`),
`Abort` and `Respond` are three steps, and `Complete`, `Pop`, `Flush`, `Fallback`, `Start`,
`Drain` are those of a completion. Between them the turn's task (`Merge`, `InjectMonitor`,
`Consume`, `EndTurn`, `Unpin`, `Post`) and the detached promoters (`ResumePlan`, `Promote`)
run. The select is biased, so a command is served only with no completion waiting (`Ready`).
An id is a kind and a number; `Budgets` says how many inputs of each kind arrive. `Keep`, the
filter behind sweeps, removals and reorders, is a recursive function over the positions, the
form of a loop a proof can expand. An order a client asks for names each id once: the code looks
an id up with `position`, so naming it again changes nothing. Whether the
goal gate is up, a turn is blocked in a wait, or the window for a rewind is still open is
left open. A cancel, a rewind and a teardown all answer "cancelled", the teardown to every
client in the queue, as the code sends them the same `Cancelled`. What a turn's end does to the
goal is in GoalSession.

**UploadQueue.** `disk` is the spill directory, `item` the queue items in memory, one handed
off by the caller and one by a recovery for each artifact. A call is the steps between its
awaits: temp file (`Begin`), manifest and counters (`Count`), `try_send` (`Submit`), the inline
fallback (`InlineDone`). The worker is at its select, at the semaphore, cooling down, draining
the closed buffer, joining its tasks, or gone. A task goes through attempts, back-off, parking
(which gives the permit back and tells the caller) and the settlement, whose temp file,
manifest, `inflight` and `pending` change in the code's order. `DrainTimesOut` aborts worker and
tasks wherever they await. Recovery may drop any pair it lists: a read can fail at any time and
the manifest can fail validation, also over a whole, fresh pair; what it drops has an outcome
(`Faults`), the loss the code reports. A `Crash` keeps only the directory, and a temp file, never synced,
may tear. `Racing` says whose calls may run beside the reconcile: the workspace awaits it, the
shell detaches it. `failures` and `attempts` are capped at their limits, beyond which the code
does not tell values apart.

## 4. Runs

| Run | States | Shows |
| --- | --- | --- |
| `round_loop` | 21 k | with the code's limits 3/6/3 for escalation, cut-off and idle cut-off, over 13 rounds: no round starts on an exhausted streak; a prompt is Done exactly on an earned round; each cut-off is paid for by a full stall; escalation sticks while nothing changes; the loop ends |
| `goal_tracker` | 166 k | every order of tracker calls: timer, strategist marker, terminal states |
| `session_ladder` | 805 k | chains of two and three criteria, every panel answer, two pending claims, amendments, strategist, deferrals: audit credit follows dependencies, attempts stay within cap, bonus and pending queue, every turn ends, the authority is implemented |
| `session_user` | 3.3 M | every user operation at every await point, failed and refused rounds, hand-added rows, fail-open panels, budget exhaustion: claims never outlive the goal, bonus is earned, the authority is implemented |
| `session_recovery` | 432 k | four turns with infra and auth failures, back-offs, queued retries, toggles and budget: an Active goal with a failure streak always has a retry under way |
| `skeptic_panel` | 558 k | panels of one to four skeptics with every verdict, token, crash and resume, cancels and attempt resets: approval is independent, a stop is written down by every refuter, crashes never approve, the recorded gatekeeper stays one that can be resumed |
| `criterion_graph` | 1.1 M | every dependency relation over three criteria with nested, equal and disjoint scopes, wildcards, braces and dots, and tables with missing, repeated or misnumbered rows: no lost edit, every criterion scheduled, declared order kept, malformed tables serial, exact invalidation, all loops end |
| `prompt_queue` | 445 k | prompts, send-nows, interjections, auto-wakes, notifications and plan resumes under every cancel, removal, reorder and late completion: the running turn is the front, only a teardown takes or answers a prompt that waits, no prompt starts twice, every client is answered, no interjection is stranded |
| `upload_queue` | 4.7 M | two artifacts over two lives, with crashes, torn and unreadable files, refused manifests, aborted drains, expiry, a racing reconcile and a purge: nothing promised is lost, an idle queue is idle |
| `upload_shutdown` | 160 k | one life under fair scheduling: blocked callers are answered, a drain ends without its deadline |

Bounds. Three rows are the smallest plan in which a rejection has an indirect dependent;
two pending claims are the smallest queue in which a claim is applied to a goal an earlier
claim changed; two turns are needed for state that survives a turn; four turns exceed two infra retries by
two. `MaxSpawns` = 4 lets a sole judge run four panels, a pair two, and three or four
skeptics one; the smallest panels with a cold majority that tolerates dissent have four
seats. Three criteria are the smallest graph in which an added edge could close a cycle
through two declared ones. Thresholds are lowered to 1
or 2 in the session runs so that each rung of the ladder is climbed within them; RoundLoop keeps
the real limits except the round cap (100 in the code, 13 here: two full stalls of six and one round). Deadlock checking is off where a
prompt has ended, the session's turns are used up or the upload queue has shut down; the
tracker and the prompt queue are checked for deadlock, the latter with its idle state as the
explicit step `Quiet`.

PromptQueue: a history has up to four inputs, in eight mixes (`B1` to `B8`). Every pair of
kinds meets in one of them, two user prompts are what send-now stacking and reordering need,
two interjections what the order of a flush needs, and a resume is what starts a turn beside
the loop. One order, the later prompt first, is the only one that changes a queue of two.
UploadQueue: one blocking and one deferred artifact compete for one slot of the channel, one
permit and a disk budget of two with sizes one and two, so that each refusal, inline fallback,
full semaphore and trip of the breaker occurs; two attempts reach back-off and the last
attempt, two lives recovery and a crash during it. The fair run has one attempt and one life,
and no call beside the reconcile: crashes end every wait.

`AttemptsBounded` excludes fail-open answers, which consume attempts without a cap check
(listed as a hazard), and `RetryNeverLost` excludes cancels and other failures, after which
the code deliberately leaves no retry.

Fairness. RoundLoop has weak fairness of `Next`, GoalSession of the harness's own steps
(`Harness`), CriterionGraph of its loops: rounds, panels, planners, amenders and strategists
answer, fail or time out, and the loop then goes on by itself. Nothing is assumed of the user, of the implementer's
claims or of the back-off timer. PromptQueue has weak fairness of the loop's own steps, of the
end of every turn (rounds are capped, calls time out) and of every promoter; commands, merges
and what a turn consumes are not forced. UploadQueue has weak fairness of the worker and of
the calls and tasks of each artifact, and strong fairness of the two waits for a permit
(`Dispatch`, `Reacquire`), since tokio's semaphore is a FIFO queue; nothing is assumed of the
user, the clock, the credentials, drain's deadline or a crash.

### Findings

Two runs check what a comment says and TLC finds it violated; `PROJECT.json`
quotes the lines.

* `retry_replaces_goal`: a retry turn queued before Ctrl+C replaces the goal the user just
  paused by a new goal whose objective is the retry text.
* `stale_verdict`: verdict files are named by attempt and seat and never removed; a cancel
  refunds the attempt, so the next panel reads a cancelled panel's verdict as its own.

Observed while modelling, without a run of their own. Goals:

* `/goal pause` changes the state inside `debug_assert!` (`slash_exec.rs:841`); in a release
  build the goal stays Active under the message "Goal paused. Use /goal resume to continue.";
* a criterion already deferred buys another verification budget, although
  `grant_fresh_classifier_budget` (`goal_tracker.rs:1564`) says each grant costs one deferral;
* the third infra failure in a row ends the run (`turn.rs:1383`), although the recovery code
  (`turn_end.rs:410`) documents up to `GOAL_INFRA_RETRY_MAX` = 4 retries;
* the gate shows "done" whenever its own acceptance request leaves the task unbound, also
  when the rejection exhausted the ladder and the goal is Blocked;
* an Achieved verdict outlives the plan it judged: with the posture toggled to Auto the turn
  ends undecided, and a row added and ticked in the next turn is completed without an audit;
* a refuter without structured findings contributes nothing to `gaps_findings`, so a panel
  can look fully attributed although one of its refuters named no criterion;
* a gatekeeper that crashes refutes without confidence, so a crash of skeptic 0 cannot be
  decisive: the claim it would have rejected may still be approved by the cold majority;
* a panel that ends with skeptic 0 failed (no secure scratch root, a cold spawn that failed)
  overwrites the id of a session that could still be resumed with one nothing was started
  under (`goal.rs:1691`); the next gatekeeper then fails to resume and audits cold, without the
  memory of the earlier panels. `GatekeeperFollowsGoal` excepts exactly this case;
* brace patterns and a bare "." in a scope are compared as names, so two criteria that mean the
  same files can share a wave, against `goal_criterion_graph.rs:465`: "an undeclared scope, or a
  pattern this cannot reason about, counts as overlapping". TLC finds the overlap missed for
  `src/{a,b}` against `src/b`, where `parse_list` also splits the brace at its comma, and for
  `.` against any path; `NoLostEdit` is stated for the other paths;
* a send-now during planning leaves an Active goal to be judged against the `plan.md` of the
  goal before it (`goal.rs:1988`);
* `resume` leaves the infra failure streak where it was;
* a cancel between disarming the slot guard and recording the verdict (`goal.rs:630`) leaves
  the attempt consumed without a verdict, and one while the amender runs
  (`goal_support.rs:663`) leaves audit marks cleared under the previous verdict;
* a deferred criterion nobody ticks still fails `require_exec_complete`, so the run ends at
  the round cap;
* the criteria view is cached by modification time (`goal_tracker.rs:1529`), so an edit within
  the clock's granularity can go unseen; GoalSession reads the plan directly.

Prompt queue:

* the comment at `tasks_cancel.rs:373` says that a cancel always resolves the front as
  `Cancelled`, also "in the narrow windows where the front has no live task", and names a
  prompt that is next and not yet promoted. The code does; in those windows the front is never a
  client's prompt, though, because the arm that queued or uncovered it promotes it before the
  loop accepts a cancel, so what is cancelled there is a plan resume
  (`CancelHitsOnlyStarted`, `CancelSafe`). A teardown does answer `Cancelled` to prompts that
  never started;
* a promoter that runs between a cancel's locked section and its abort starts the next turn
  while the cancelled one still runs, and the cancel then clears the new turn's pin, so that
  an interjection becomes a prompt of its own instead of being merged;
* two interjections that arrive after the turn's pin is cleared and before its completion is
  served run in reverse order, since each is inserted right behind the front;
* the completion of a cancelled turn flushes the interjections buffered for the turn that
  runs by then;
* a plan-approval resume that waits in the queue beside an auto-wake is swept by the next user
  prompt with it;
* a rewind ends without draining the notifications it swept up; they wait for a later turn;
* the comment of `handle_interject_queued_prompt` (`prompt_queue.rs:459`) describes merging the
  row, the code promotes it and cancels the turn; `xai-prompt-queue/src/types.rs:10` promises
  that an edit with a stale version is a no-op, the code applies the last write.

Upload queue:

* `pending_bytes`, "Total bytes of pending temp files on disk" (`queue.rs:339`), keeps the bytes
  of an item whose file is purged or expires before its task starts, since a task gives back
  the size it finds then;
* the disk budget is checked without a reservation, so concurrent calls can exceed it together;
* `recovery.rs:8` says that it runs before any turn can race against the queue, the shell
  (`trace.rs:1198`) detaches it "so session setup never waits on disk or cloud I/O": a pair just written can be enqueued a second time, which uploads it twice
  and loses nothing;
* recovery deletes a whole, fresh pair when one read fails, also for a passing reason
  (`recovery.rs:145`, `:175`), although the same code leaves a pair the queue cannot take for
  the next start;
* an aborted drain leaves the counters of the dropped items as they were, so a later
  `wait_idle` of that handle times out;
* the breaker's reset after a cool-down also drops the failures counted during it.

## 5. Proofs

The proof modules hold for every value of the constants. Assumed of them is only what
their `ASSUME`s say, which TLC evaluates in each run: limits and thresholds are natural numbers, positive
where the code needs it, idle observations are observations, "not asked" is no claim, panel
sizes are positive, verdicts and tables are well formed as records, the outcomes of a panel
and of a round are the ones the code distinguishes, artifacts are finitely many and have
sizes, and a client's order names each prompt once (naming it again has no effect in
`handle_reorder_queue`, which looks ids up by their first position). Every invariant and every
action property that a run checks is stated by a theorem; what is left to TLC is liveness.

`RoundLoop_proofs` proves `TypeOK`, `StallNeverOutrunsCutoff`, `AcceptedExactlyWhenEarned`,
`CutOffsSpacedOut`, `RoundsCapped` and the action property
`EscalationIsSticky`. `CutOffsSpacedOut` is not inductive: the streak of the stall under
way has to be accounted for. `Spacing` strengthens it: while a round runs, the rounds
spent on past cut-offs and the length of either streak together never exceed the rounds
counted. `AcceptedExactlyWhenEarned` follows from the case analysis of the decision
(`DecisionCases`): an earned round yields Done whatever the stall level. Stickiness needs the
level to be monotone in the streak (`ReapproachCases`, `PlainOnlyWhenProgressing`).

`GoalRecord_proofs` says once what each transition of the goal record does to which fields
(`SameLife`, `SameLadder`, `SameStrategist`); the next two modules cite it.

`GoalTracker_proofs` proves the type invariant, `TimerRunsExactlyWhileActive`,
`MessageOnlyWhilePaused`, `StrategistNeverSilenced` and the action property
`TerminalIsFinal`. The conjunction of the four invariants is inductive; the actions are
split into lifecycle transitions and counter updates (`LifecycleInv`, `CounterInv`), over
lemmas on the two reset helpers and on `complete`.

`GoalSession_proofs` splits the steps of a turn into five phases (`Starts`, `Rounds`,
`Drains`, `Gates`, `Hosts`) and proves, for any plan sizes, dependencies and limits and every
interruption at every await point:

* `TypeOK`, with every counter a natural number;
* `AuditRespectsDependencies`. A localized rejection removes a set closed under dependents
  (`RejectionRespects`), so the support of what remains remains. An amendment adds rows, which
  would break it for credited rows that depend on a new one: the strengthening is that the amender
  starts from a plan without audit credit;
* `PendingOnlyWhileActive`. A pause or stop inside the ladder does not look at the claims; it
  need not, because from the drain to the mark the queue is empty (`PendingInv`);
* `BonusEarned`, with the bonus never more than one strategist's;
* `ImplementsAuthority`, the refinement of CompletionAuthority: the initial states map to its
  initial states and every step to one of its steps or a stutter (`LifeStep`). Only the mark
  finishes a goal, and `MarkInv` says that at `marking` the verdict is Achieved and no live
  criterion unclaimed: between decision and mark nothing else can move;
* `RetryNeverLost`, under the hypotheses that the user does not cut turns short and no round
  fails for another reason (`NoCancel`, `"failed" \notin RoundResults`): after either the code
  leaves no retry on purpose, so the property is false without them;
* `AttemptsBounded`, under the hypothesis `Undisturbed`: no cancel, send-now or posture toggle,
  and no panel that fails open. Each of them spends attempts outside the ladder (section 4,
  and the hazard at `goal.rs:944`). `AttemptInv` counts the claims still to be drained as attempts to come,
  and says that an Active goal outside the ladder has attempts left.

The configurations of `session_recovery` and `session_ladder` satisfy these hypotheses.

`SkepticPanel_proofs` proves the type invariant, `ApprovalIsIndependent`,
`BlockedOnlyOnWrittenBlockers`, `FailuresNeverApprove` and the action property
`GatekeeperFollowsGoal`, for panels of any size. The inductive invariant adds three facts: a result marked as a failure refutes
and a blocker comes from a written verdict (`VotesHonest`), a skeptic is done only where the
stage could have started it (`Started`), and a counted outcome is `PanelOutcome` of results
that no longer change (`Counted`). From there it is the arithmetic of a strict majority over
a finite set of cold seats. `FailuresNeverApprove` needs the same of a rejection (`Rejected`:
counted from the votes on the table, or decided by the checks before anyone voted) and that
the quorum is monotone (`QuorumIsMonotone`): with one approval fewer there is no new majority.
`GatekeeperFollowsGoal` needs that the child of a skeptic 0 that voted exists under the id the
panel will record, whichever of the two spawns it came from, and that a failure carries no
confidence, so that no panel ends early on one (`Remembered`).

`CriterionGraph_proofs` proves the type invariant, `NoLostEdit`, `AlwaysSchedulable`,
`DeclaredOrderKept`, `InvalidatesExactlyDependents` and `MalformedRunsSerially` for any number of
criteria and any tables, wildcards and braces. The comment in
`serialize_conflicts` argues that no cycle can arise "since edges always point from the
higher number to the lower one", which is not enough: declared edges may point upwards. The
reason is that the two criteria are unordered before the edge is added (`AddedWaitIsSafe`: a
set that waited for itself through the new edge would contain a path that orders them). The
serial graph is schedulable by a least element (`SerialSchedulable`). `NoLostEdit` follows
because members of one wave are unordered (`Layered`), unordered criteria have no
overlapping scopes once the loop returned (`Phased`), the scopes in force are the table's after
parsing (`ScopesInForce`), and what the code compares of an understood path is a prefix of every
file it names (`UnderstoodPath`, `NamedBegins`), where two prefixes of one file are comparable
(`SharedFileOverlaps`). Invalidation is sound at every step (`SpreadInv`) and complete when its loop
stops, since a set closed under dependents contains all that reach it. That the serial
fallback peels one criterion per wave rests on its chain ordering every pair, so that no
conflict edge is added (`SerialConflictFree`) and exactly the next one is free (`SerialPeel`).

`UploadQueue_proofs` proves, for any artifacts, sizes and limits:

* `TypeOK`, including that `pending`, `pending_bytes`, `inflight` and the permits, which the code
  keeps in unsigned atomics, never go below zero. `CountInv` ties each counter to a sum over
  the items: `pending` is exactly the number of items counted and not yet left, `inflight` lies
  between the items uploading and those together with the aborted ones, permits and held slots
  stay within the semaphore, and the bytes owed never exceed `pending_bytes`, which may be
  larger (section 4). A sum of naturals is the cardinality of a set of units (`Units`, `Total`),
  so that changing one item's weight is arithmetic of finite sets and no induction;
* `NothingLost`. The promise is made last: `LossInv` says that a caller on its way already has
  its files on disk or a known outcome, and that an item reaches its settlement, which
  removes the files, only with an outcome recorded. A pair that recovery drops, whole or not, is
  closed with one of the faults in the same step (`FaultsAreOutcomes`);
* `FlushIsTruthful`, from `CountInv`.

All rest on `StageInv`: a hand-off is of a fresh item, the buffer holds a queued item once,
and what is on the wire holds a permit.

`PromptQueue_proofs` proves `TypeOK`, `RunningIsFront` and the action properties
`CancelHitsOnlyStarted` and `StartedOnce`, for any number of inputs of each kind. That the running turn is the
front is inductive only for a queue without duplicates (`Sound`): a sweep that spares one
copy, or a completion that takes one, would leave the other. That needs every input to be
new when it arrives (`AllArrived`), and fresh while it is held outside the queue, as an
interjection, a notification or an entry still to be flushed (`HeldFresh`, `HeldOnce`). Of the
queue, exactly the running prompt has had a turn (`QueueFresh`), whence `StartedOnce`.
`cancel_running_task` resolves index 0 whether or not a task runs; `CancelSafe` says why that
spares waiting clients: whenever the loop can accept or carry out a cancel and nothing runs,
only plan resumes can be queued, because every arm that queues a client's prompt ends with a
promotion, and what a cancel other than a teardown still has to answer had begun. So the locked
section takes the running turn or a resume (`SeverSpares`), whoever moves beside it leaves the
clients' prompts alone (`OthersSpare`), and the answers go to a started turn
(`OnlyStartedTold`). What the filter `Keep` returns is proved without induction: a least length at which
its loop had no result, or a wrong one, would follow from the length before it
(`LeastNat`, `KeptExists`, `KeepAll`).

`TypeOK` of RoundLoop, GoalTracker, SkepticPanel, CriterionGraph and PromptQueue, `RoundsCapped`
and `MessageOnlyWhilePaused` are proved and not repeated in a run.

Only model-checked: liveness (`LoopTerminates`, `TurnEnds`, `LoopsEnd`,
`EveryPromptAnswered`, `NoAsideStranded`, `WaitersAnswered`, `DrainEnds`), which the prover does
not reach. The two findings are counterexamples, which are TLC's as well.
