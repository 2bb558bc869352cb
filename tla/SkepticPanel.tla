------------------------------ MODULE SkepticPanel ------------------------------
(***************************************************************************)
(* The verification stage of one goal (goal_classifier.rs): a panel of     *)
(* skeptics audits a claim of completion.  Skeptic 0, the gatekeeper, runs *)
(* first and is resumed from panel to panel; unless its refutation is      *)
(* decisive the cold skeptics 1 .. size - 1 then run concurrently.  Each   *)
(* writes a JSON verdict to a file named by attempt and seat and ends with *)
(* a token; the votes are counted once all have answered or failed.        *)
(*                                                                         *)
(* Evidence, prompts, findings and reports are text and left out.          *)
(***************************************************************************)
EXTENDS Integers, FiniteSets

CONSTANTS
    Sizes,      \* values of skeptic_count, after the clamp
    Verdicts,   \* the verdicts a skeptic can write
    MaxSpawns   \* bound on the skeptics spawned for the goal

ASSUME PanelAssumption ==
    /\ Sizes \subseteq Nat \ {0}
    /\ Verdicts \subseteq [refuted: BOOLEAN, high: BOOLEAN, blocking: BOOLEAN]
    /\ MaxSpawns \in Nat

VARIABLES
    size,     \* skeptics on the panel
    attempt,  \* classifier_runs_attempted
    prior,    \* skeptic0_session_id: the session the next skeptic 0 is resumed from
    known,    \* the child sessions of skeptic 0 that exist
    files,    \* the verdict files on disk, by attempt and seat
    stage,    \* where run_verification_stage is
    run,      \* what each skeptic of the panel is doing
    result,   \* the SkepticResult of each seat that is done
    outcome,  \* the outcome of the last verification
    fresh,    \* history: seats whose file was written by this panel's skeptic
    spawned   \* history: skeptics spawned so far

vars == <<size, attempt, prior, known, files, stage, run, result, outcome, fresh, spawned>>

(* A session id is fresh per panel: the number of skeptics spawned so far. *)
NoSession == 0

Seats == 0 .. size - 1
Attempts == 1 .. MaxSpawns

(* A file holds at most one verdict: {} when it is missing or does not     *)
(* parse (a missing field, empty evidence).  A token is {}, {TRUE}, {FALSE}.*)
Bodies == {{}} \cup {{v} : v \in Verdicts}
Tokens == {{}, {TRUE}, {FALSE}}

Results ==
    [refuted: BOOLEAN, high: BOOLEAN, blocking: BOOLEAN, from: {"json", "token", "failure"}]

-----------------------------------------------------------------------------
(* Reading a vote. *)

FallbackVote(refuted, from) ==
    [refuted |-> refuted, high |-> FALSE, blocking |-> FALSE, from |-> from]

(* Mutant: a skeptic without a verdict does not object. *)
FailureAbstains == FallbackVote(FALSE, "failure")

(* skeptic_failure: no verdict is a vote to refute. *)
SkepticFailure == FallbackVote(TRUE, "failure")

ReadVerdict(body, token) ==
    IF body # {}
    THEN LET v == CHOOSE v \in body : TRUE
         IN  [refuted |-> v.refuted, high |-> v.high, blocking |-> v.blocking, from |-> "json"]
    ELSE IF token # {} THEN FallbackVote(TRUE \in token, "token")
    ELSE SkepticFailure

-----------------------------------------------------------------------------
(* Counting the votes r of the seats S. *)

Refuting(S, r) == {i \in S : r[i].refuted}
Approving(S, r) == {i \in S : ~r[i].refuted}

(* Mutant: a majority of the cold seats that answered. *)
QuorumOfAnswers(S, r) ==
    LET cold == {i \in S \ {0} : r[i].from # "failure"}
    IN  IF S = {0} THEN Approving(S, r) # {}
        ELSE Cardinality(Approving(cold, r)) >= Cardinality(cold) \div 2 + 1

(* aggregate_skeptic_verdicts: a sole vote decides; otherwise a strict     *)
(* majority of the cold seats, skeptic 0 not counted.                      *)
Quorum(S, r) ==
    LET cold == S \ {0}
    IN  IF S = {0} THEN Approving(S, r) # {}
        ELSE Cardinality(Approving(cold, r)) >= Cardinality(cold) \div 2 + 1

DecisiveRefute(n, r) == n > 1 /\ r[0].refuted /\ r[0].high

ShortCircuits(n, r) == DecisiveRefute(n, r) /\ ~r[0].blocking

(* The seats whose results are aggregated. *)
Voters(n, r) == IF n = 1 \/ ShortCircuits(n, r) THEN {0} ELSE 0 .. n - 1

(* Mutant: one blocker is enough to stop for the user. *)
PanelOutcomeAnyBlocker(n, r) ==
    LET S == Voters(n, r)
    IN  IF Quorum(S, r) /\ ~DecisiveRefute(n, r) THEN "achieved"
        ELSE IF \E i \in Refuting(S, r) : r[i].blocking THEN "blocked"
        ELSE "not_achieved"

PanelOutcome(n, r) ==
    LET S == Voters(n, r)
    IN  IF Quorum(S, r) /\ ~DecisiveRefute(n, r) THEN "achieved"
        ELSE IF /\ Refuting(S, r) # {}
                /\ \A i \in Refuting(S, r) : r[i].blocking
             THEN "blocked"
        ELSE "not_achieved"

-----------------------------------------------------------------------------
Init ==
    /\ size \in Sizes
    /\ attempt = 0
    /\ prior = NoSession
    /\ known = {}
    /\ files = [a \in Attempts |-> [i \in Seats |-> {}]]
    /\ stage = "idle"
    /\ run = [i \in Seats |-> "idle"]
    /\ result = [i \in Seats |-> SkepticFailure]
    /\ outcome = "none"
    /\ fresh = {}
    /\ spawned = 0

(* A claim is verified: the drain reserves an attempt. *)
Reserve ==
    /\ stage = "idle" /\ spawned + size <= MaxSpawns /\ attempt < MaxSpawns
    /\ attempt' = attempt + 1
    /\ stage' = "gate"
    /\ run' = [i \in Seats |-> "idle"]
    /\ result' = [i \in Seats |-> SkepticFailure]
    /\ outcome' = "none"
    /\ fresh' = {}
    /\ spawned' = spawned + size
    /\ UNCHANGED <<size, prior, known, files>>

(* A deterministic check of the plan fails: rejected without a panel. *)
GateRejects ==
    /\ stage = "gate"
    /\ stage' = "idle" /\ outcome' = "not_achieved"
    /\ UNCHANGED <<size, attempt, prior, known, files, run, result, fresh, spawned>>

(* No subagent channel, unsafe path, unwritable patch file: no panel. *)
FailOpen ==
    /\ stage = "gate"
    /\ stage' = "idle" /\ outcome' = "fail_open"
    /\ UNCHANGED <<size, attempt, prior, known, files, run, result, fresh, spawned>>

(* Skeptic 0 starts, alone; a sole judge is never resumed. *)
Launch ==
    /\ stage = "gate"
    /\ stage' = "gatekeeper"
    /\ run' = [run EXCEPT ![0] = IF size > 1 /\ prior # NoSession THEN "resumed" ELSE "cold"]
    /\ UNCHANGED <<size, attempt, prior, known, files, result, outcome, fresh, spawned>>

(* Mutant: the cold fallback of a failed resume gets a session id of its own. *)
RunsUnderNewId(i) ==
    /\ run[i] = "cold" \/ (run[i] = "resumed" /\ prior \in known)
    /\ known' = IF i = 0 /\ ~(run[0] = "cold" /\ size > 1 /\ prior # NoSession)
                THEN known \cup {spawned} ELSE known

(* The child of seat i runs.  Resuming a session that does not exist is an *)
(* error, so a child resumed from one never gets this far.                 *)
Runs(i) ==
    /\ run[i] = "cold" \/ (run[i] = "resumed" /\ prior \in known)
    /\ known' = IF i = 0 THEN known \cup {spawned} ELSE known

(* A skeptic writes, or rewrites, its verdict file. *)
WriteVerdict(i, body) ==
    /\ Runs(i)
    /\ files' = [files EXCEPT ![attempt][i] = body]
    /\ fresh' = fresh \cup {i}
    /\ UNCHANGED <<size, attempt, prior, stage, run, result, outcome, spawned>>

Vote(i, r) ==
    /\ run' = [run EXCEPT ![i] = "done"]
    /\ result' = [result EXCEPT ![i] = r]
    /\ UNCHANGED <<size, attempt, prior, files, stage, outcome, fresh, spawned>>

(* A skeptic ends with a terminal response. *)
Return(i, token) ==
    /\ Runs(i)
    /\ Vote(i, ReadVerdict(files[attempt][i], token))

(* A resumed skeptic that fails is spawned again, cold, under the same     *)
(* session id and paths; a cold one that fails, or either one without a    *)
(* secure scratch root before it starts, has refuted; its child may have   *)
(* come into being first.                                                  *)
SpawnFails(i) ==
    \/ /\ run[i] = "resumed"
       /\ run' = [run EXCEPT ![i] = "cold"]
       /\ UNCHANGED <<size, attempt, prior, known, files, stage, result, outcome, fresh, spawned>>
    \/ /\ run[i] = "cold" \/ (run[i] = "resumed" /\ i \notin fresh)
       /\ Vote(i, SkepticFailure)
       /\ known' \in {known, IF i = 0 THEN known \cup {spawned} ELSE known}

(* The rest of the panel starts. *)
FanOut ==
    /\ stage = "gatekeeper" /\ run[0] = "done"
    /\ size > 1 /\ ~ShortCircuits(size, result)
    /\ stage' = "panel"
    /\ run' = [i \in Seats |-> IF i = 0 THEN "done" ELSE "cold"]
    /\ UNCHANGED <<size, attempt, prior, known, files, result, outcome, fresh, spawned>>

(* All votes are in: the outcome, and the gatekeeper to resume next time.  *)
(* Its id replaces the recorded one also when its child failed, before or  *)
(* after a failed resume, and left no session.                             *)
Conclude ==
    /\ \/ stage = "gatekeeper" /\ (size = 1 \/ ShortCircuits(size, result))
       \/ stage = "panel"
    /\ \A i \in Voters(size, result) : run[i] = "done"
    /\ outcome' = PanelOutcome(size, result)
    /\ prior' = IF size > 1 THEN spawned ELSE NoSession
    /\ stage' = "idle"
    /\ UNCHANGED <<size, attempt, known, files, run, result, fresh, spawned>>

(* Ctrl+C or send-now drops the future and reaps the skeptics; the slot    *)
(* guard refunds the attempt.  The verdict files stay.                     *)
Cancel ==
    /\ stage # "idle"
    /\ stage' = "idle"
    /\ attempt' = attempt - 1
    /\ run' = [i \in Seats |-> "idle"]
    /\ UNCHANGED <<size, prior, known, files, result, outcome, fresh, spawned>>

(* /goal resume, or a budget granted for a deferral, restarts the count. *)
ResetAttempts ==
    /\ stage = "idle" /\ attempt > 0
    /\ attempt' = 0
    /\ UNCHANGED <<size, prior, known, files, stage, run, result, outcome, fresh, spawned>>

Skeptic(i) == SpawnFails(i) \/ \E t \in Tokens : Return(i, t)

Harness == GateRejects \/ FailOpen \/ Launch \/ FanOut \/ Conclude

Next ==
    \/ Reserve
    \/ Harness
    \/ \E i \in Seats : Skeptic(i) \/ \E b \in Bodies : WriteVerdict(i, b)
    \/ Cancel
    \/ ResetAttempts

Spec == Init /\ [][Next]_vars

-----------------------------------------------------------------------------
(* Properties. *)

(* Every variable has its type. *)
TypeOK ==
    /\ size \in Sizes
    /\ attempt \in 0 .. MaxSpawns
    /\ prior \in 0 .. MaxSpawns
    /\ known \subseteq 0 .. MaxSpawns
    /\ files \in [Attempts -> [Seats -> Bodies]]
    /\ stage \in {"idle", "gate", "gatekeeper", "panel"}
    /\ run \in [Seats -> {"idle", "resumed", "cold", "done"}]
    /\ result \in [Seats -> Results]
    /\ outcome \in {"none", "achieved", "not_achieved", "blocked", "fail_open"}
    /\ fresh \subseteq Seats
    /\ spawned \in 0 .. MaxSpawns

(* run_verification_stage approves only on the answers of independent      *)
(* judges: more than half of the cold seats answered and approved, a       *)
(* crashed, lost or mute skeptic never among them, and the gatekeeper did  *)
(* not refute with high confidence.                                        *)
ApprovalIsIndependent ==
    outcome = "achieved" =>
        LET cold == IF size = 1 THEN {0} ELSE Seats \ {0}
        IN  /\ 2 * Cardinality({i \in cold : /\ run[i] = "done"
                                             /\ ~result[i].refuted
                                             /\ result[i].from # "failure"})
                 > Cardinality(cold)
            /\ size > 1 => ~(result[0].refuted /\ result[0].high)

(* The goal stops for the user only on verdicts that say so: in a Blocked  *)
(* panel every vote against is a written verdict with a blocker of its     *)
(* own, so no failed or half-answered skeptic can stop an unattended run.  *)
BlockedOnlyOnWrittenBlockers ==
    outcome = "blocked" =>
        /\ \E i \in Seats : run[i] = "done" /\ result[i].refuted
        /\ \A i \in Seats : run[i] = "done" /\ result[i].refuted =>
                                result[i].from = "json" /\ result[i].blocking

(* A failure never helps a claim: had any cold skeptic of a rejected panel *)
(* crashed instead of voting, the panel would have been rejected too.      *)
(* (A gatekeeper that crashes does help: it refutes without confidence.)   *)
FailuresNeverApprove ==
    outcome \in {"not_achieved", "blocked"} =>
        \A i \in Voters(size, result) \ {0} :
            run[i] = "done" =>
                PanelOutcome(size, [result EXCEPT ![i] = SkepticFailure]) # "achieved"

KeepsGatekeeper ==
    prior \in known =>
        prior' \in known' \/ (stage = "panel" /\ result[0].from = "failure")

(* The gatekeeper follows the goal: the session recorded for skeptic 0     *)
(* stays one that can be resumed, through failed resumes and their cold    *)
(* fallback, cancels, exits before the panel and resets of the attempts.   *)
(* It is lost only with a panel that ran to its end although its skeptic 0 *)
(* left no vote of its own (run_one_skeptic, panel_ran).                   *)
GatekeeperFollowsGoal == [][KeepsGatekeeper]_vars

(* "A cancelled verification leaves no partial verdict"                    *)
(* (run_verification_stage): an approval rests on this panel's own answers,*)
(* never on a verdict file an earlier panel left behind.                   *)
ApprovalIsCurrent ==
    outcome = "achieved" =>
        \A i \in Approving(Voters(size, result), result) :
            result[i].from = "json" => i \in fresh
=============================================================================
