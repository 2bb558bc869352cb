------------------------------ MODULE PromptQueue ------------------------------
(***************************************************************************)
(* The prompt queue of a session (prompt_queue.rs, interjection.rs,        *)
(* tasks_cancel.rs, notification_drain.rs, turn_end.rs, run_loop.rs).  One *)
(* loop serves completions and commands, one arm at a time; an arm gives   *)
(* up the state lock at every await, and between its locked sections the   *)
(* running turn's task and the tasks that promote on their own (MCP        *)
(* initialisation, a resumed plan approval) take steps.                    *)
(*                                                                         *)
(* Texts, versions, owners and the broadcasts are left out: a request with *)
(* a stale version or another owner's item changes nothing.  What the goal *)
(* loop, a blocking wait and the events already sent decide is left open:  *)
(* both outcomes are allowed.                                              *)
(***************************************************************************)
EXTENDS Integers, Sequences, SequencesExt

CONSTANTS
    MaxArrivals, \* bound on the inputs of one kind
    Budgets,     \* how many inputs of each kind a history has
    Orders       \* the orders a client asks for: sequences of user ids, an id
                 \* named again counting at its first place only

Kinds == {"user", "aside", "completion", "resume", "notice"}

(* The inputs of a kind are numbered down to one, in order of arrival.  A  *)
(* user prompt has a client waiting for its answer; an aside is an         *)
(* interjection; the others are synthetic, a completion being the          *)
(* auto-wake of a finished background task.                                *)
Ids == Kinds \X (1 .. MaxArrivals)
OfKind(k) == {k} \X (1 .. MaxArrivals)
Users == OfKind("user")
Asides == OfKind("aside")
Notices == OfKind("notice")
Synthetic(t) == t[1] \notin {"user", "aside"}
None == <<"none", 0>>

ASSUME QueueAssumption ==
    /\ MaxArrivals \in Nat
    /\ Budgets \subseteq [Kinds -> 0 .. MaxArrivals]
    /\ Orders \subseteq {o \in Seq(Users) : IsInjective(o)}

VARIABLES
    left,         \* left[k]: inputs of kind k still to come
    queue,        \* pending_inputs; the running turn stays at its front
    sendNow,      \* the queued items with send_now set
    running,      \* running_task
    pin,          \* current_prompt_id
    suppressed,   \* notifications_suppressed
    interjections,\* pending_interjections
    notices,      \* pending_notifications
    monitor,      \* MonitorEventBuffer
    turn,         \* where the task of each prompt is
    completions,  \* the completion channel
    answer,       \* what the client of each user prompt was told
    settled,      \* history: asides and notices merged into a turn or dropped on purpose
    arm,          \* where the loop is in its current arm
    spawned       \* tasks about to call maybe_start_running_task

state == <<queue, sendNow, running>>
signals == <<suppressed, notices, monitor>>
turns == <<turn, completions>>
history == <<left, answer, settled>>
vars == <<state, pin, interjections, signals, turns, history, arm, spawned>>

Live == {"running", "ending", "unpinned"}

Select == [at |-> "select", ids |-> <<>>, task |-> None, then |-> "select"]
At(place) == [Select EXCEPT !.at = place]

TypeOK ==
    /\ left \in [Kinds -> 0 .. MaxArrivals]
    /\ queue \in Seq(Ids)
    /\ sendNow \subseteq Ids
    /\ running \in Ids \cup {None}
    /\ pin \in Ids \cup {None}
    /\ suppressed \in BOOLEAN
    /\ interjections \in Seq(Asides)
    /\ notices \subseteq Notices /\ monitor \subseteq Notices
    /\ turn \in [Ids -> {"none", "over"} \cup Live]
    /\ completions \in Seq(Ids)
    /\ answer \in [Users -> {"unsent", "waiting", "completed", "cancelled", "removed"}]
    /\ settled \subseteq Asides \cup Notices
    /\ arm.at \in {"select", "pop", "flush", "fallback", "start", "drain",
                   "cancel", "abort", "respond"}
    /\ arm.then \in {"select", "drain", "plain", "kill", "rewind", "send_now"}
    /\ arm.ids \in Seq(Ids) /\ arm.task \in Ids \cup {None}
    /\ spawned \subseteq Ids \cup {None}

Init ==
    /\ left \in Budgets
    /\ queue = <<>> /\ sendNow = {} /\ running = None /\ pin = None
    /\ suppressed = FALSE
    /\ interjections = <<>> /\ notices = {} /\ monitor = {}
    /\ turn = [t \in Ids |-> "none"] /\ completions = <<>>
    /\ answer = [u \in Users |-> "unsent"] /\ settled = {}
    /\ arm = Select
    /\ spawned = {None}        \* the release at the end of MCP initialisation

-----------------------------------------------------------------------------
(* The queue under its lock. *)

(* The items of q in S, in order: SelectSeq, in a form a proof can expand. *)
Keep(q, S) ==
    LET Kept[i \in 0 .. Len(q)] ==
            IF i = 0 THEN <<>>
            ELSE IF q[i] \in S THEN Append(Kept[i - 1], q[i])
            ELSE Kept[i - 1]
    IN  Kept[Len(q)]

Without(q, S) == Keep(q, Ids \ S)

\* Mutant: the running turn's slot is swept as well.
SweepUnguarded(S) == Without(queue, S)
(* A sweep never takes the running turn's own slot. *)
Sweep(S) == Without(queue, S \ {running})

RunningIsAtFront(q) == q # <<>> /\ running # None /\ Head(q) = running

InsertAfterRunning(q, t) ==
    IF RunningIsAtFront(q) THEN <<Head(q), t>> \o Tail(q) ELSE <<t>> \o q

(* Send-now lands behind the running front and behind the sends stacked    *)
(* there already.                                                          *)
InsertSendNow(q, t) ==
    LET first == IF RunningIsAtFront(q) THEN 2 ELSE 1
        Free(i) == i > Len(q) \/ q[i] \notin sendNow
        at == CHOOSE i \in first .. Len(q) + 1 :
                Free(i) /\ \A j \in first .. i - 1 : ~Free(j)
    IN  InsertAt(q, at, t)

\* Mutant: the order applies to the running turn as well.
ReorderedUnpinned(order) ==
    Keep(order, ToSet(queue)) \o Without(queue, ToSet(order))
(* The running turn and everything that is not a client's prompt go first, *)
(* then the prompts the order names, then the rest.                        *)
Reordered(order) ==
    LET queued == (Users \cap ToSet(queue)) \ {running}
    IN  Without(queue, queued) \o Keep(order, queued) \o Keep(queue, queued \ ToSet(order))

(* maybe_start_running_task: the front becomes the running turn and stays. *)
MaybeStart ==
    IF running # None \/ queue = <<>>
    THEN UNCHANGED <<running, pin, turn>>
    ELSE /\ running' = Head(queue)
         /\ pin' = Head(queue)
         /\ turn' = [turn EXCEPT ![Head(queue)] = "running"]

-----------------------------------------------------------------------------
(* The arms of the loop that serve commands.  The select is biased: a      *)
(* completion is served first.                                             *)

Ready == arm = Select /\ completions = <<>>

Arrive(k) == <<k, left[k]>>
Accept(k) ==
    /\ left[k] > 0
    /\ left' = [left EXCEPT ![k] = @ - 1]

PreemptArmed == \E t \in ToSet(queue) : t[1] = "completion" /\ t # running

(* What follows a send-now: the running turn is cancelled, and the         *)
(* buffered interjections with it, unless the goal loop's gate is up.      *)
CancelOrStart ==
    \/ /\ running # None
       /\ arm' = [At("cancel") EXCEPT !.then = "send_now"]
       /\ interjections' = <<>>
       /\ settled' = settled \cup ToSet(interjections)
    \/ arm' = At("start") /\ UNCHANGED <<interjections, settled>>

(* SessionCommand::Prompt of a client and queue_input: queued synthetic    *)
(* prompts give way to it.  It is queued to run next when the client asks  *)
(* for that, or the turn is blocked in a wait and no user prompt is held.  *)
Prompt(now) ==
    LET u == Arrive("user")
        kept == IF PreemptArmed THEN Sweep({t \in Ids : Synthetic(t)}) ELSE queue
    IN  /\ Ready /\ Accept("user")
        /\ suppressed' = FALSE
        /\ answer' = [answer EXCEPT ![u] = "waiting"]
        /\ \/ /\ now
              /\ queue' = InsertSendNow(kept, u)
              /\ sendNow' = sendNow \cup {u}
              /\ CancelOrStart
           \/ /\ ~now
              /\ queue' = Append(kept, u)
              /\ arm' = At("start")
              /\ UNCHANGED <<sendNow, interjections, settled>>
        /\ UNCHANGED <<running, pin, notices, monitor, turns, spawned>>

(* The same command with a synthetic prompt id. *)
Wake ==
    /\ Ready /\ Accept("completion")
    /\ queue' = Append(queue, Arrive("completion"))
    /\ arm' = At("start")
    /\ UNCHANGED <<sendNow, running, pin, interjections, signals, turns,
                   answer, settled, spawned>>

(* SessionCommand::Interject goes by the pin: the running turn merges it,  *)
(* or it becomes a prompt of its own.                                      *)
Interject ==
    LET i == Arrive("aside")
    IN  /\ Ready /\ Accept("aside")
        /\ \/ /\ pin # None
              /\ interjections' = Append(interjections, i)
              /\ UNCHANGED arm
           \/ /\ pin = None
              /\ arm' = [At("fallback") EXCEPT !.ids = <<i>>]
              /\ UNCHANGED interjections
        /\ UNCHANGED <<state, pin, signals, turns, answer, settled, spawned>>

(* queue_interjection_fallback_prompt, last entry first. *)
Fallback ==
    /\ arm.at = "fallback"
    /\ queue' = InsertAfterRunning(queue, Last(arm.ids))
    /\ sendNow' = sendNow \cup {Last(arm.ids)}
    /\ arm' = IF Len(arm.ids) = 1 THEN [At("start") EXCEPT !.then = arm.then]
              ELSE [arm EXCEPT !.ids = Front(@)]
    /\ UNCHANGED <<running, pin, interjections, signals, turns, history, spawned>>

RemoveQueued(u) ==
    /\ Ready /\ u \in ToSet(queue) /\ u # running
    /\ queue' = Without(queue, {u})
    /\ sendNow' = sendNow \ {u}
    /\ answer' = [answer EXCEPT ![u] = "removed"]
    /\ UNCHANGED <<running, pin, interjections, signals, turns,
                   left, settled, arm, spawned>>

\* Mutant: the prompts are dropped without an answer.
ClearSilently(own) ==
    /\ Ready
    /\ queue' = Without(queue, own \ {running})
    /\ UNCHANGED <<sendNow, running, pin, interjections, signals, turns,
                   history, arm, spawned>>
(* The requester's queued prompts, each answered before it is dropped. *)
ClearQueue(own) ==
    LET cleared == (own \cap ToSet(queue)) \ {running}
    IN  /\ Ready /\ cleared # {}
        /\ queue' = Without(queue, cleared)
        /\ sendNow' = sendNow \ cleared
        /\ answer' = [u \in Users |-> IF u \in cleared THEN "removed" ELSE answer[u]]
        /\ UNCHANGED <<running, pin, interjections, signals, turns,
                       left, settled, arm, spawned>>

ReorderQueue(order) ==
    /\ Ready
    /\ queue' = Reordered(order)
    /\ UNCHANGED <<sendNow, running, pin, interjections, signals, turns,
                   history, arm, spawned>>

(* InterjectQueuedPrompt: the row is promoted to run next. *)
InterjectQueued(u) ==
    /\ Ready /\ u \in ToSet(queue) /\ u # running
    /\ queue' = InsertSendNow(Without(queue, {u}), u)
    /\ sendNow' = sendNow \cup {u}
    /\ CancelOrStart
    /\ UNCHANGED <<running, pin, signals, turns, left, answer, spawned>>

(* InjectNotification: mid-turn to the monitor buffer, which the turn      *)
(* reads, else to the pending ones.                                        *)
Notify ==
    LET n == Arrive("notice")
    IN  /\ Ready /\ Accept("notice")
        /\ \/ /\ \E t \in Ids : turn[t] \in Live
              /\ monitor' = monitor \cup {n}
              /\ UNCHANGED <<notices, arm>>
           \/ /\ notices' = notices \cup {n}
              /\ arm' = At("drain")
              /\ UNCHANGED monitor
        /\ UNCHANGED <<state, pin, interjections, suppressed, turns, answer, settled, spawned>>

Cancel(mode) ==
    /\ Ready
    /\ interjections' = <<>>
    /\ settled' = settled \cup ToSet(interjections)
    /\ arm' = [At("cancel") EXCEPT !.then = mode]
    /\ UNCHANGED <<state, pin, signals, turns, left, answer, spawned>>

-----------------------------------------------------------------------------
(* cancel_running_task: the locked section, the abort, the answers. *)

Ended(t) == IF t # None /\ turn[t] \in Live THEN [turn EXCEPT ![t] = "over"] ELSE turn

(* A rewind that finds the window open (no event of the prompt is out)     *)
(* takes the front back; otherwise the front alone is resolved, whether or *)
(* not a task runs, and a teardown takes the whole queue.                  *)
Sever(rewound) ==
    LET kill == arm.then = "kill"
        swept == notices \cup monitor
        taken == IF kill \/ queue = <<>> THEN queue ELSE <<Head(queue)>>
    IN  /\ arm.at = "cancel"
        /\ rewound => arm.then = "rewind" /\ queue # <<>>
        /\ running' = None
        /\ queue' = SubSeq(queue, Len(taken) + 1, Len(queue))
        /\ sendNow' = sendNow \ ToSet(taken)
        /\ monitor' = {}
        /\ notices' = IF kill THEN {} ELSE swept
        /\ settled' = IF kill THEN settled \cup swept \cup (Asides \cap ToSet(taken)) ELSE settled
        /\ suppressed' = ~rewound
        /\ turn' = IF rewound THEN Ended(running) ELSE turn
        /\ arm' = [at |-> "abort", ids |-> taken,
                   task |-> IF rewound THEN None ELSE running, then |-> arm.then]
        /\ UNCHANGED <<pin, interjections, completions, left, answer, spawned>>

Abort ==
    /\ arm.at = "abort"
    /\ turn' = Ended(arm.task)
    /\ arm' = [arm EXCEPT !.at = "respond"]
    /\ UNCHANGED <<state, pin, interjections, signals, completions, history, spawned>>

(* Every prompt taken is answered with the stop reason Cancelled: also by  *)
(* a rewind, and by a teardown the ones that never ran.                    *)
Respond ==
    /\ arm.at = "respond"
    /\ pin' = None
    /\ answer' = [u \in Users |-> IF u \in ToSet(arm.ids) THEN "cancelled" ELSE answer[u]]
    /\ suppressed' = (suppressed /\ arm.then # "send_now")
    /\ arm' = At("start")
    /\ UNCHANGED <<state, interjections, notices, monitor, turns, left, settled, spawned>>

-----------------------------------------------------------------------------
(* The completion arm: handle_completion, the flush of the interjections   *)
(* the turn did not merge, the next turn, the notifications.               *)

Complete ==
    /\ arm = Select /\ completions # <<>>
    /\ pin' = IF pin = Head(completions) THEN None ELSE pin
    /\ arm' = [At("pop") EXCEPT !.ids = <<Head(completions)>>]
    /\ completions' = Tail(completions)
    /\ UNCHANGED <<state, interjections, signals, turn, history, spawned>>

Owned == queue # <<>> /\ Head(queue) = arm.ids[1]

\* Mutant: any completion clears the running task.
PopNulling ==
    /\ arm.at = "pop"
    /\ queue' = IF Owned THEN Tail(queue) ELSE queue
    /\ sendNow' = sendNow \ {arm.ids[1]}
    /\ answer' = [u \in Users |-> IF Owned /\ u = arm.ids[1] THEN "completed" ELSE answer[u]]
    /\ running' = None
    /\ notices' = notices \cup monitor /\ monitor' = {}
    /\ arm' = At("flush")
    /\ UNCHANGED <<pin, interjections, suppressed, turns, left, settled, spawned>>
(* Only a completion of the front dequeues it, and only that or the        *)
(* running prompt's own clears the task: the completion of a turn that was *)
(* cancelled meanwhile is stale.                                           *)
Pop ==
    /\ arm.at = "pop"
    /\ queue' = IF Owned THEN Tail(queue) ELSE queue
    /\ sendNow' = sendNow \ {arm.ids[1]}
    /\ answer' = [u \in Users |-> IF Owned /\ u = arm.ids[1] THEN "completed" ELSE answer[u]]
    /\ running' = IF Owned \/ running = arm.ids[1] THEN None ELSE running
    /\ notices' = notices \cup monitor /\ monitor' = {}
    /\ arm' = At("flush")
    /\ UNCHANGED <<pin, interjections, suppressed, turns, left, settled, spawned>>

\* Mutant: the buffer is not flushed.
FlushNothing ==
    /\ arm.at = "flush"
    /\ arm' = [At("start") EXCEPT !.then = "drain"]
    /\ UNCHANGED <<state, pin, interjections, signals, turns, history, spawned>>
Flush ==
    /\ arm.at = "flush"
    /\ interjections' = <<>>
    /\ arm' = [at |-> IF interjections = <<>> THEN "start" ELSE "fallback",
               ids |-> interjections, task |-> None, then |-> "drain"]
    /\ UNCHANGED <<state, pin, signals, turns, history, spawned>>

Start ==
    /\ arm.at = "start"
    /\ MaybeStart
    /\ arm' = At(arm.then)
    /\ UNCHANGED <<queue, sendNow, interjections, signals, completions,
                   history, spawned>>

(* maybe_drain_notifications: one batched turn when idle, or nothing when  *)
(* the goal silences them.  The batch goes by one of its notices.          *)
Drain ==
    LET idle == running = None /\ queue = <<>> /\ ~suppressed
        swept == notices \cup monitor
    IN  /\ arm.at = "drain"
        /\ \/ /\ ~idle \/ swept = {}
              /\ arm' = Select
              /\ UNCHANGED <<queue, notices, monitor, settled>>
           \/ /\ idle /\ swept # {}
              /\ notices' = {} /\ monitor' = {}
              /\ \/ /\ settled' = settled \cup swept
                    /\ arm' = Select
                    /\ UNCHANGED queue
                 \/ LET batch == CHOOSE n \in swept : TRUE
                    IN  /\ queue' = <<batch>>
                        /\ settled' = settled \cup (swept \ {batch})
                        /\ arm' = At("start")
        /\ UNCHANGED <<sendNow, running, pin, interjections, suppressed, turns,
                       left, answer, spawned>>

-----------------------------------------------------------------------------
(* The task of a turn. *)

Merge(t) ==
    /\ turn[t] = "running" /\ interjections # <<>>
    /\ interjections' = <<>>
    /\ settled' = settled \cup ToSet(interjections)
    /\ UNCHANGED <<state, pin, signals, turns, left, answer, arm, spawned>>

InjectMonitor(t) ==
    /\ turn[t] = "running" /\ monitor # {}
    /\ monitor' = {}
    /\ settled' = settled \cup monitor
    /\ UNCHANGED <<state, pin, interjections, suppressed, notices, turns, left, answer, arm, spawned>>

(* A tool result tells the model that a background task is done: its       *)
(* auto-wake, if it is queued, and its notifications are dropped.          *)
Consume(t) ==
    /\ turn[t] = "running"
    /\ \E c \in OfKind("completion"), told \in SUBSET notices :
          /\ queue' = Sweep({c})
          /\ notices' = notices \ told
          /\ settled' = settled \cup told
    /\ UNCHANGED <<sendNow, running, pin, interjections, suppressed, monitor, turns,
                   left, answer, arm, spawned>>

(* After the last merge; the scope guard clears the pin, or an early       *)
(* return skips it; the result is posted.                                  *)
EndTurn(t) ==
    /\ turn[t] = "running"
    /\ turn' = [turn EXCEPT ![t] = "ending"]
    /\ UNCHANGED <<state, pin, interjections, signals, completions, history, arm, spawned>>

Unpin(t) ==
    /\ turn[t] = "ending"
    /\ turn' = [turn EXCEPT ![t] = "unpinned"]
    /\ pin' = IF pin = t THEN None ELSE pin
    /\ UNCHANGED <<state, interjections, signals, completions, history, arm, spawned>>

Post(t) ==
    /\ turn[t] \in {"ending", "unpinned"}
    /\ turn' = [turn EXCEPT ![t] = "over"]
    /\ completions' = Append(completions, t)
    /\ UNCHANGED <<state, pin, interjections, signals, history, arm, spawned>>

-----------------------------------------------------------------------------
(* Tasks beside the loop. *)

(* resume_plan_approval queues the decision as a prompt. *)
ResumePlan ==
    LET p == Arrive("resume")
    IN  /\ Accept("resume")
        /\ queue' = Append(queue, p)
        /\ spawned' = spawned \cup {p}
        /\ UNCHANGED <<sendNow, running, pin, interjections, signals, turns,
                       answer, settled, arm>>

Promote(h) ==
    /\ h \in spawned
    /\ MaybeStart
    /\ spawned' = spawned \ {h}
    /\ UNCHANGED <<queue, sendNow, interjections, signals, completions,
                   history, arm>>

(* Nothing left to do and nothing left to come. *)
Quiet ==
    /\ Ready /\ queue = <<>> /\ spawned = {} /\ (\A k \in Kinds : left[k] = 0)
    /\ UNCHANGED vars

-----------------------------------------------------------------------------
Command ==
    \/ \E now \in BOOLEAN : Prompt(now)
    \/ \E u \in Users : RemoveQueued(u) \/ InterjectQueued(u)
    \/ \E own \in SUBSET Users : ClearQueue(own)
    \/ \E order \in Orders : ReorderQueue(order)
    \/ \E mode \in {"plain", "kill", "rewind"} : Cancel(mode)
    \/ Wake \/ Interject \/ Notify

(* The steps the loop takes by itself once an arm is chosen. *)
Loop ==
    \/ Complete \/ Pop \/ Flush \/ Fallback \/ Start \/ Drain
    \/ Abort \/ Respond
    \/ \E rewound \in BOOLEAN : Sever(rewound)

Finish(t) == EndTurn(t) \/ Unpin(t) \/ Post(t)
TurnStep(t) ==
    \/ Merge(t) \/ InjectMonitor(t) \/ Consume(t) \/ Finish(t)

Next ==
    \/ Command \/ Loop \/ ResumePlan \/ Quiet
    \/ \E t \in Ids : TurnStep(t)
    \/ \E h \in Ids \cup {None} : Promote(h)

(* The loop and the spawned tasks are polled, and a turn ends: its rounds  *)
(* are bounded and its calls time out.  Commands and what a turn does on   *)
(* its way are not forced.                                                 *)
Fairness ==
    /\ WF_vars(Loop)
    /\ \A t \in Ids : WF_vars(Finish(t))
    /\ \A h \in Ids \cup {None} : WF_vars(Promote(h))

Spec == Init /\ [][Next]_vars
FairSpec == Spec /\ Fairness

-----------------------------------------------------------------------------
(* Properties. *)

\* The running turn is the front of the queue, whatever is inserted, swept,
\* reordered, removed or completed meanwhile: handle_completion pops the front
\* and a cancel resolves index 0, so any other item there would be answered in
\* its place.
RunningIsFront == running # None => queue # <<>> /\ Head(queue) = running

SparesWaiting ==
    arm.then # "kill" =>
        \A u \in Users : turn[u] = "none" =>
            /\ answer'[u] = "cancelled" => answer[u] = "cancelled"
            /\ arm.at = "cancel" /\ u \in ToSet(queue) => u \in ToSet(queue')

\* A prompt that waits for its turn survives a cancel: only a teardown takes it
\* from the queue or answers it as cancelled.  cancel_running_task resolves the
\* front whether or not a task runs, but in the windows without one the front
\* is never a client's prompt.
CancelHitsOnlyStarted == [][SparesWaiting]_vars

\* No prompt is given to the model twice: a turn starts only for a prompt that
\* never had one, also when the completion of a cancelled turn arrives late.
StartedOnce == [][running' \notin {running, None} => turn[running'] = "none"]_vars

\* Every client that sent a prompt gets its answer.
EveryPromptAnswered ==
    \A u \in Users : (answer[u] = "waiting") ~> (answer[u] # "waiting")

\* No interjection is stranded: the running turn merges it, a cancel discards
\* it, or it gets a turn of its own.
NoAsideStranded ==
    \A i \in Asides :
        (i \in ToSet(interjections) \cup ToSet(arm.ids)) ~> (i \in settled \/ turn[i] # "none")
=============================================================================
