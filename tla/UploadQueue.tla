------------------------------ MODULE UploadQueue ------------------------------
(***************************************************************************)
(* The spill-to-disk upload queue of xai-file-utils (queue.rs) and the     *)
(* startup reconcile of its directory (recovery.rs, upload/trace.rs).      *)
(* Callers write an artifact to disk and hand it to a background worker    *)
(* over a bounded channel; the worker dispatches items under a semaphore,  *)
(* one task each, with retries, parking on rejected credentials and a      *)
(* failure breaker; drain shuts it down; what a crash or an aborted drain  *)
(* leaves on disk is enqueued again by the next life.                      *)
(*                                                                         *)
(* Contents, paths and manifests are abstract: a temp file is absent, torn *)
(* or whole, a manifest is written atomically.  Ages are compared with one *)
(* limit only (max_age), so a pair or an item is old or not.               *)
(***************************************************************************)
EXTENDS Integers, Sequences, FiniteSets

CONSTANTS
    Artifacts,         \* the artifacts of the bounded history, one call each
    Blocking,          \* those sent with enqueue_blocking, not enqueue_bytes_blocking
    Size,              \* Size[a]: bytes of a
    MaxQueueBytes,     \* disk budget
    Capacity,          \* CHANNEL_CAPACITY
    MaxConcurrent,     \* permits of the worker's semaphore
    MaxAttempts,       \* UploadRetryPolicy.max_attempts
    Threshold,         \* CIRCUIT_BREAKER_THRESHOLD
    Racing,            \* those whose call may run beside the reconcile (the shell
                       \* detaches it; the workspace awaits it: none)
    MaxLives           \* bound on the lives of the process

ASSUME QueueAssumption ==
    /\ IsFiniteSet(Artifacts)
    /\ Blocking \subseteq Artifacts
    /\ Size \in [Artifacts -> Nat]
    /\ MaxQueueBytes \in Nat
    /\ Capacity \in Nat \ {0}
    /\ MaxConcurrent \in Nat \ {0}
    /\ MaxAttempts \in Nat \ {0}
    /\ Threshold \in Nat \ {0}
    /\ Racing \subseteq Artifacts
    /\ MaxLives \in Nat \ {0}

VARIABLES
    disk,       \* the spill directory: temp file, manifest and age of each artifact
    promised,   \* history: the caller was told the queue owns it durably
    outcome,    \* history: why the queue let go of it
    call,       \* where the caller of each artifact is
    waiter,     \* the completion channel of enqueue_blocking
    item,       \* the UploadQueueItem of each hand-off
    channel,    \* the mpsc buffer
    closed,     \* the receiver is closed
    senders,    \* a queue handle is alive
    pending, pendingBytes, inflight,  \* UploadQueueStats
    worker,     \* where upload_worker is
    shutdown,   \* drain() has sent the shutdown signal
    draining,   \* draining_flag
    permits,    \* free permits of the semaphore
    failures,   \* consecutive_failures
    claim,      \* SPILL_RECONCILE_STATE
    scan,       \* where the startup recovery is
    snapshot,   \* manifests it has still to look at
    lives       \* history: lives of the process so far

callers == <<promised, call, waiter>>
buffer == <<channel, closed, senders>>
stats == <<pending, pendingBytes, inflight>>
workers == <<worker, shutdown, draining, permits, failures>>
reconciler == <<claim, scan, snapshot, lives>>
vars == <<disk, outcome, callers, item, buffer, stats, workers, reconciler>>

(* An artifact is handed off by its caller and, in a later life or by a    *)
(* racing scan, by the recovery.                                           *)
Items == Artifacts \X {"live", "recovered"}
Art(i) == i[1]

Leaving == {"settling", "leaving"}
Running == {"spawned", "wire", "backoff", "parked", "woken", "resuming"} \cup Leaving
Unsettled == {"queued", "held"} \cup Running
Stages == {"none", "aborted", "done"} \cup Unsettled

NoItem == [stage |-> "none", attempts |-> 0, authRetried |-> FALSE, bytes |-> 0,
           old |-> FALSE, slot |-> FALSE, ok |-> FALSE]
AtStage(s) == [NoItem EXCEPT !.stage = s]

Absent == [temp |-> "absent", sidecar |-> FALSE, old |-> FALSE]
Least(m, n) == IF m < n THEN m ELSE n
OnDisk == {a \in Artifacts : disk[a].temp # "absent" \/ disk[a].sidecar}

TypeOK ==
    /\ disk \in [Artifacts -> [temp: {"absent", "torn", "whole"}, sidecar: BOOLEAN, old: BOOLEAN]]
    /\ promised \in [Artifacts -> BOOLEAN]
    /\ outcome \in [Artifacts -> {"none", "uploaded", "failed", "discarded", "lost"}]
    /\ call \in [Artifacts -> {"idle", "temp", "counted", "inline", "done"}]
    /\ waiter \in [Artifacts -> {"none", "waiting", "ok", "error", "closed"}]
    /\ item \in [Items -> [stage: Stages, attempts: 0 .. MaxAttempts, authRetried: BOOLEAN,
                           bytes: Nat, old: BOOLEAN, slot: BOOLEAN, ok: BOOLEAN]]
    /\ channel \in Seq(Items)
    /\ closed \in BOOLEAN /\ senders \in BOOLEAN
    /\ pending \in Nat /\ pendingBytes \in Nat /\ inflight \in Nat
    /\ worker \in {"select", "acquire", "cooldown", "drain", "join", "exited", "aborted"}
    /\ shutdown \in BOOLEAN /\ draining \in BOOLEAN
    /\ permits \in 0 .. MaxConcurrent
    /\ failures \in 0 .. Threshold
    /\ claim \in {"none", "recovery", "purge"}
    /\ scan \in {"off", "listed", "swept"}
    /\ snapshot \subseteq Artifacts
    /\ lives \in 1 .. MaxLives

Init ==
    /\ disk = [a \in Artifacts |-> Absent]
    /\ promised = [a \in Artifacts |-> FALSE]
    /\ outcome = [a \in Artifacts |-> "none"]
    /\ call = [a \in Artifacts |-> "idle"]
    /\ waiter = [a \in Artifacts |-> "none"]
    /\ item = [i \in Items |-> NoItem]
    /\ channel = <<>> /\ closed = FALSE /\ senders = TRUE
    /\ pending = 0 /\ pendingBytes = 0 /\ inflight = 0
    /\ worker = "select" /\ shutdown = FALSE /\ draining = FALSE
    /\ permits = MaxConcurrent /\ failures = 0
    /\ claim = "none" /\ scan = "off" /\ snapshot = {} /\ lives = 1

-----------------------------------------------------------------------------
(* The calls: enqueue_bytes_blocking and enqueue_blocking. *)

keepQueue == <<buffer, workers, reconciler>>

OverBudget(a) == pendingBytes + Size[a] > MaxQueueBytes

(* The temp file, then the budget gate, read without a reservation; over   *)
(* the budget the bytes are uploaded inline.  enqueue_blocking has no gate. *)
Begin(a) ==
    /\ senders /\ (a \in Racing \/ scan = "swept") /\ call[a] = "idle"
    /\ \/ /\ a \notin Blocking /\ OverBudget(a)
          /\ call' = [call EXCEPT ![a] = "done"]
          /\ UNCHANGED disk
       \/ /\ a \in Blocking \/ ~OverBudget(a)
          /\ call' = [call EXCEPT ![a] = "temp"]
          /\ disk' = [disk EXCEPT ![a].temp = "whole"]
    /\ UNCHANGED <<keepQueue, outcome, promised, waiter, item, stats>>

(* The manifest, then the counters, ahead of the hand-off; a manifest that *)
(* cannot be written takes the temp file with it.                          *)
Count(a) ==
    /\ call[a] = "temp"
    /\ \/ /\ disk' = [disk EXCEPT ![a].sidecar = TRUE]
          /\ call' = [call EXCEPT ![a] = "counted"]
          /\ pending' = pending + 1
          /\ pendingBytes' = pendingBytes + Size[a]
       \/ /\ disk' = [disk EXCEPT ![a].temp = "absent"]
          /\ call' = [call EXCEPT ![a] = "done"]
          /\ UNCHANGED <<pending, pendingBytes>>
    /\ UNCHANGED <<keepQueue, outcome, promised, waiter, item, inflight>>

(* try_send. *)
Accept(a) ==
    /\ ~closed /\ Len(channel) < Capacity
    /\ item' = [item EXCEPT ![<<a, "live">>] = AtStage("queued")]
    /\ channel' = Append(channel, <<a, "live">>)
    /\ call' = [call EXCEPT ![a] = "done"]
    /\ promised' = [promised EXCEPT ![a] = TRUE]
    /\ waiter' = [waiter EXCEPT ![a] = IF a \in Blocking THEN "waiting" ELSE "none"]
    /\ UNCHANGED <<disk, pending, pendingBytes>>

(* A refusal takes the counts back.  A closed channel is reported as an    *)
(* error and the files go; on a full one the upload runs inline, and       *)
(* enqueue_blocking streams its temp file and keeps its caller waiting.    *)
Refuse(a) ==
    /\ closed \/ Len(channel) >= Capacity
    /\ pending' = pending - 1
    /\ pendingBytes' = pendingBytes - Size[a]
    /\ LET inline == ~closed /\ a \in Blocking
       IN  /\ disk' = IF inline THEN [disk EXCEPT ![a].sidecar = FALSE]
                                ELSE [disk EXCEPT ![a] = Absent]
           /\ call' = [call EXCEPT ![a] = IF inline THEN "inline" ELSE "done"]
           /\ waiter' = [waiter EXCEPT ![a] = IF inline THEN "waiting" ELSE "none"]
    /\ UNCHANGED <<promised, item, channel>>

Submit(a) ==
    /\ call[a] = "counted"
    /\ Accept(a) \/ Refuse(a)
    /\ UNCHANGED <<outcome, closed, senders, inflight, workers, reconciler>>

(* spawn_inline_upload_owned_snapshot ends: the temp file goes, the caller *)
(* learns the result.                                                      *)
InlineDone(a) ==
    /\ call[a] = "inline"
    /\ call' = [call EXCEPT ![a] = "done"]
    /\ disk' = [disk EXCEPT ![a].temp = "absent"]
    /\ \E r \in {"ok", "error"} : waiter' = [waiter EXCEPT ![a] = r]
    /\ UNCHANGED <<keepQueue, outcome, promised, item, stats>>

-----------------------------------------------------------------------------
(* upload_worker. *)

keepCalls == <<disk, outcome, callers, senders, stats, reconciler>>

(* The breaker pauses dispatch for a cool-down, cut short by a shutdown. *)
Trip ==
    /\ worker = "select" /\ failures >= Threshold
    /\ worker' = "cooldown"
    /\ UNCHANGED <<keepCalls, item, channel, closed, shutdown, draining, permits, failures>>

CooldownEnds ==
    /\ worker = "cooldown"
    /\ worker' = "select" /\ failures' = 0
    /\ UNCHANGED <<keepCalls, item, channel, closed, shutdown, draining, permits>>

Receive ==
    /\ channel # <<>>
    /\ worker = "drain" \/ (worker = "select" /\ failures < Threshold)
    /\ worker' = "acquire"
    /\ item' = [item EXCEPT ![Head(channel)].stage = "held"]
    /\ channel' = Tail(channel)
    /\ UNCHANGED <<keepCalls, closed, shutdown, draining, permits, failures>>

(* dispatch_item: acquire a permit, spawn the task. *)
Dispatch ==
    /\ worker = "acquire" /\ permits > 0
    /\ \E i \in Items :
         /\ item[i].stage = "held"
         /\ item' = [item EXCEPT ![i].stage = "spawned", ![i].slot = TRUE]
    /\ permits' = permits - 1
    /\ worker' = IF draining THEN "drain" ELSE "select"
    /\ UNCHANGED <<keepCalls, channel, closed, shutdown, draining, failures>>

(* The shutdown signal, sent or dropped with the last handle, seen at the  *)
(* select or in the cool-down: close the receiver and drain what it        *)
(* buffers, past the breaker.                                              *)
BeginDrain ==
    /\ shutdown \/ ~senders
    /\ worker = "cooldown" \/ (worker = "select" /\ failures < Threshold)
    /\ worker' = "drain" /\ draining' = TRUE /\ closed' = TRUE
    /\ UNCHANGED <<keepCalls, item, channel, shutdown, permits, failures>>

(* Every handle is gone, or the closed buffer is empty: wait for the tasks. *)
StopReceiving ==
    /\ channel = <<>>
    /\ worker = "drain" \/ (worker = "select" /\ failures < Threshold /\ ~senders)
    /\ worker' = "join" /\ draining' = TRUE
    /\ UNCHANGED <<keepCalls, item, channel, closed, shutdown, permits, failures>>

Exit ==
    /\ worker = "join"
    /\ \A i \in Items : item[i].stage \notin Running
    /\ worker' = "exited" /\ closed' = TRUE
    /\ UNCHANGED <<keepCalls, item, channel, shutdown, draining, permits, failures>>

WorkerStep == Trip \/ CooldownEnds \/ Receive \/ BeginDrain \/ StopReceiving \/ Exit

(* drain(): the first call sends the signal. *)
Drain ==
    /\ ~shutdown /\ worker \notin {"exited", "aborted"}
    /\ shutdown' = TRUE
    /\ UNCHANGED <<keepCalls, item, channel, closed, worker, draining, permits, failures>>

(* The last queue handle is dropped; a call or a reconcile holds one. *)
DropHandles ==
    /\ senders /\ scan # "listed"
    /\ \A a \in Artifacts : call[a] \in {"idle", "inline", "done"}
    /\ senders' = FALSE
    /\ UNCHANGED <<disk, outcome, callers, item, channel, closed, stats, workers, reconciler>>

(* drain() gives up: the worker is aborted with its tasks, wherever they   *)
(* await.  Items vanish from memory, uncounted; their files stay.          *)
Abandoned == {i \in Items : item[i].stage \in Unsettled \ Leaving}

\* Mutant: dropping an item deletes its temp file.
DrainTimesOutDeleting ==
    /\ shutdown /\ worker \notin {"exited", "aborted"}
    /\ worker' = "aborted" /\ closed' = TRUE /\ channel' = <<>>
    /\ item' = [i \in Items |-> IF i \in Abandoned THEN AtStage("aborted") ELSE item[i]]
    /\ disk' = [a \in Artifacts |->
                  IF \E i \in Abandoned : Art(i) = a THEN [disk[a] EXCEPT !.temp = "absent"] ELSE disk[a]]
    /\ UNCHANGED <<outcome, callers, senders, stats, shutdown, draining, permits, failures, reconciler>>

DrainTimesOut ==
    /\ shutdown /\ worker \notin {"exited", "aborted"}
    /\ worker' = "aborted" /\ closed' = TRUE /\ channel' = <<>>
    /\ item' = [i \in Items |-> IF i \in Abandoned THEN AtStage("aborted") ELSE item[i]]
    /\ waiter' = [a \in Artifacts |->
                    IF waiter[a] = "waiting" /\ <<a, "live">> \in Abandoned THEN "closed" ELSE waiter[a]]
    /\ UNCHANGED <<disk, outcome, promised, call, senders, stats, shutdown, draining, permits,
                   failures, reconciler>>

-----------------------------------------------------------------------------
(* One upload task: process_item and upload_with_retries. *)

keepTask == <<promised, call, buffer, worker, shutdown, draining, reconciler>>

Answer(i, r) ==
    IF i[2] = "live" /\ waiter[Art(i)] = "waiting" THEN [waiter EXCEPT ![Art(i)] = r] ELSE waiter

(* What became of the artifact: uploaded, failed, discarded (past max_age,  *)
(* or by the opt-out) or lost; a success is not undone by a second item.    *)
Close(S, why) ==
    outcome' = [a \in Artifacts |->
                  IF a \in S /\ (outcome[a] = "none" \/ why = "uploaded") THEN why ELSE outcome[a]]

(* The outcome is known: the temp file goes first. *)
Complete(i, why) ==
    /\ item' = [item EXCEPT ![i].stage = "settling", ![i].ok = why = "uploaded"]
    /\ disk' = [disk EXCEPT ![Art(i)].temp = "absent"]
    /\ Close({Art(i)}, why)

(* The task starts: the bytes it will give back are the size of the file   *)
(* now; an item past max_age is dropped.                                   *)
Start(i) ==
    /\ item[i].stage = "spawned"
    /\ inflight' = inflight + 1
    /\ LET bytes == IF disk[Art(i)].temp = "absent" THEN 0 ELSE Size[Art(i)]
       IN  item' = [item EXCEPT ![i].stage = IF item[i].old THEN "settling" ELSE "wire",
                                ![i].attempts = 1, ![i].bytes = bytes]
    /\ IF item[i].old
       THEN /\ disk' = [disk EXCEPT ![Art(i)].temp = "absent"]
            /\ Close({Art(i)}, "discarded")
       ELSE UNCHANGED <<disk, outcome>>
    /\ UNCHANGED <<keepTask, waiter, pending, pendingBytes, permits, failures>>

(* An error that is not terminal counts for the breaker. *)
GiveUp(i) ==
    /\ Complete(i, "failed")
    /\ failures' = Least(failures + 1, Threshold)

Again(i) == [item EXCEPT ![i].stage = "wire", ![i].attempts = Least(@ + 1, MaxAttempts)]

(* An attempt answers.  A file that is gone is a retryable error. *)
Succeed(i) ==
    /\ item[i].stage = "wire" /\ disk[Art(i)].temp # "absent"
    /\ Complete(i, "uploaded")
    /\ failures' = 0
    /\ UNCHANGED <<keepTask, waiter, stats, permits>>

FailTerminally(i) ==
    /\ item[i].stage = "wire" /\ disk[Art(i)].temp # "absent"
    /\ Complete(i, "failed")
    /\ UNCHANGED <<keepTask, waiter, stats, permits, failures>>

\* Mutant: a parked item keeps its permit.
RejectedKeepsPermit(i) ==
    /\ item[i].stage = "wire" /\ disk[Art(i)].temp # "absent"
    /\ item' = IF item[i].authRetried THEN [item EXCEPT ![i].stage = "parked"]
                                      ELSE [Again(i) EXCEPT ![i].authRetried = TRUE]
    /\ UNCHANGED <<keepTask, disk, outcome, waiter, stats, permits, failures>>

(* The first rejection of the credentials is retried at once with fresh    *)
(* ones; the second parks the item, which gives its permit back.           *)
Rejected(i) ==
    /\ item[i].stage = "wire" /\ disk[Art(i)].temp # "absent"
    /\ IF item[i].authRetried
       THEN /\ item' = [item EXCEPT ![i].stage = "parked", ![i].slot = FALSE]
            /\ permits' = permits + 1
       ELSE /\ item' = [Again(i) EXCEPT ![i].authRetried = TRUE]
            /\ UNCHANGED permits
    /\ UNCHANGED <<keepTask, disk, outcome, waiter, stats, failures>>

FailRetryably(i) ==
    /\ item[i].stage = "wire"
    /\ IF item[i].attempts >= MaxAttempts
       THEN GiveUp(i)
       ELSE /\ item' = [item EXCEPT ![i].stage = "backoff"]
            /\ UNCHANGED <<disk, outcome, failures>>
    /\ UNCHANGED <<keepTask, waiter, stats, permits>>

BackoffEnds(i) ==
    /\ item[i].stage = "backoff"
    /\ item' = Again(i)
    /\ UNCHANGED <<keepTask, disk, outcome, waiter, stats, permits, failures>>

\* Mutant: parking does not tell the caller.
ParkWaitsSilently(i) ==
    /\ item[i].stage = "parked" /\ ~draining /\ ~item[i].old
    /\ \E next \in {"parked", "woken"} : item' = [item EXCEPT ![i].stage = next]
    /\ UNCHANGED <<keepTask, disk, outcome, waiter, stats, permits, failures>>

(* The park loop.  Draining, max_age and a resolver without recovery end   *)
(* it, in that order of checks; waiting tells the caller and may wake the  *)
(* item, which then waits for a permit and looks at neither again.         *)
ParkEnds(i) ==
    /\ \/ item[i].stage = "woken" /\ (draining \/ item[i].old)
       \/ item[i].stage = "parked"
    /\ GiveUp(i)
    /\ UNCHANGED <<keepTask, waiter, stats, permits>>

ParkWaits(i) ==
    /\ item[i].stage = "parked" /\ ~draining
    /\ waiter' = Answer(i, "error")
    /\ IF item[i].old
       THEN GiveUp(i)
       ELSE /\ \E next \in {"parked", "woken"} : item' = [item EXCEPT ![i].stage = next]
            /\ UNCHANGED <<disk, outcome, failures>>
    /\ UNCHANGED <<keepTask, stats, permits>>

Wake(i) ==
    /\ item[i].stage = "woken" /\ ~draining /\ ~item[i].old
    /\ item' = [item EXCEPT ![i].stage = "resuming"]
    /\ UNCHANGED <<keepTask, disk, outcome, waiter, stats, permits, failures>>

Reacquire(i) ==
    /\ item[i].stage = "resuming" /\ permits > 0
    /\ permits' = permits - 1
    /\ item' = [Again(i) EXCEPT ![i].slot = TRUE, ![i].authRetried = FALSE]
    /\ UNCHANGED <<keepTask, disk, outcome, waiter, stats, failures>>

\* Mutant: pending is dropped ahead of inflight.
SettlePendingFirst(i) ==
    /\ item[i].stage = "settling"
    /\ item' = [item EXCEPT ![i].stage = "leaving"]
    /\ disk' = [disk EXCEPT ![Art(i)] = Absent]
    /\ waiter' = Answer(i, IF item[i].ok THEN "ok" ELSE "error")
    /\ pending' = pending - 1
    /\ UNCHANGED <<keepTask, outcome, pendingBytes, inflight, permits, failures>>

\* Mutant: the permit is given back a second time.
LeaveWithPermit(i) ==
    /\ item[i].stage = "leaving"
    /\ item' = [item EXCEPT ![i] = AtStage("done")]
    /\ pending' = pending - 1
    /\ pendingBytes' = pendingBytes - item[i].bytes
    /\ permits' = permits + 1
    /\ UNCHANGED <<keepTask, disk, outcome, waiter, inflight, failures>>

(* The rest of the settlement: the manifest, the caller, then the counters *)
(* in the order of settle_pending; the permit goes last.  (The caller of   *)
(* an expired item is told after the counters; nothing awaits in between.) *)
Settle(i) ==
    /\ item[i].stage = "settling"
    /\ item' = [item EXCEPT ![i].stage = "leaving"]
    /\ disk' = [disk EXCEPT ![Art(i)] = Absent]
    /\ waiter' = Answer(i, IF item[i].ok THEN "ok" ELSE "error")
    /\ inflight' = inflight - 1
    /\ UNCHANGED <<keepTask, outcome, pending, pendingBytes, permits, failures>>

Leave(i) ==
    /\ item[i].stage = "leaving"
    /\ item' = [item EXCEPT ![i] = AtStage("done")]
    /\ pending' = pending - 1
    /\ pendingBytes' = pendingBytes - item[i].bytes
    /\ permits' = IF item[i].slot THEN permits + 1 ELSE permits
    /\ UNCHANGED <<keepTask, disk, outcome, waiter, inflight, failures>>

TaskStep(i) ==
    \/ Start(i) \/ Succeed(i) \/ FailTerminally(i) \/ Rejected(i) \/ FailRetryably(i)
    \/ BackoffEnds(i) \/ ParkEnds(i) \/ ParkWaits(i) \/ Wake(i) \/ Settle(i) \/ Leave(i)

-----------------------------------------------------------------------------
(* Time, crashes and the startup reconcile. *)

PairExpires(a) ==
    /\ a \in OnDisk /\ ~disk[a].old
    /\ disk' = [disk EXCEPT ![a].old = TRUE]
    /\ UNCHANGED <<outcome, callers, item, buffer, stats, workers, reconciler>>

(* A recovered item starts a clock of its own: it is never older than its pair. *)
ItemExpires(i) ==
    /\ item[i].stage \in Unsettled \ Leaving /\ ~item[i].old
    /\ disk[Art(i)].old \/ disk[Art(i)].temp = "absent"
    /\ item' = [item EXCEPT ![i].old = TRUE]
    /\ UNCHANGED <<disk, outcome, callers, buffer, stats, workers, reconciler>>

(* The process or its machine stops; temp files are not synced and may     *)
(* tear.                                                                   *)
Crash ==
    /\ lives < MaxLives /\ lives' = lives + 1
    /\ \E torn \in SUBSET {a \in Artifacts : disk[a].temp = "whole"} :
         disk' = [a \in Artifacts |->
                    IF a \in torn THEN [disk[a] EXCEPT !.temp = "torn"] ELSE disk[a]]
    /\ call' = [a \in Artifacts |-> IF call[a] = "idle" THEN "idle" ELSE "done"]
    /\ waiter' = [a \in Artifacts |-> IF waiter[a] = "waiting" THEN "none" ELSE waiter[a]]
    /\ item' = [i \in Items |-> NoItem]
    /\ channel' = <<>> /\ closed' = FALSE /\ senders' = TRUE
    /\ pending' = 0 /\ pendingBytes' = 0 /\ inflight' = 0
    /\ worker' = "select" /\ shutdown' = FALSE /\ draining' = FALSE
    /\ permits' = MaxConcurrent /\ failures' = 0
    /\ claim' = "none" /\ scan' = "off" /\ snapshot' = {}
    /\ UNCHANGED <<outcome, promised>>

keepReconcile == <<callers, closed, senders, inflight, workers, lives>>

(* run_startup_recovery lists the manifests first.  The workspace awaits   *)
(* it before any call, the shell detaches it beside them.                  *)
StartRecovery ==
    /\ claim = "none" /\ senders
    /\ claim' = "recovery" /\ scan' = "listed"
    /\ snapshot' = {a \in Artifacts : disk[a].sidecar}
    /\ UNCHANGED <<keepReconcile, disk, outcome, item, channel, pending, pendingBytes>>

Remove(S) == disk' = [a \in Artifacts |-> IF a \in S THEN Absent ELSE disk[a]]

(* One manifest.  A pair is reported lost when a file cannot be read or    *)
(* parsed, the pair is incomplete, its bytes do not match or the manifest  *)
(* fails validation (a name that is not safe, a key outside its session);  *)
(* a read can fail over a whole pair too.  A whole one may be too old.     *)
Incomplete(a) == ~disk[a].sidecar \/ disk[a].temp # "whole"
Faults(a) == {"lost"} \cup {why \in {"discarded"} : ~Incomplete(a) /\ disk[a].old}

NoRoom(a) == OverBudget(a) \/ closed \/ Len(channel) >= Capacity

(* A pair the queue cannot take is left for a later start. *)
RecoverOne(a) ==
    /\ scan = "listed" /\ a \in snapshot
    /\ snapshot' = snapshot \ {a}
    /\ \/ /\ Remove({a})
          /\ \E why \in Faults(a) : Close({a} \cap OnDisk, why)
          /\ UNCHANGED <<item, channel, pending, pendingBytes>>
       \/ /\ ~Incomplete(a) /\ ~disk[a].old /\ NoRoom(a)
          /\ UNCHANGED <<disk, outcome, item, channel, pending, pendingBytes>>
       \/ /\ ~Incomplete(a) /\ ~disk[a].old /\ ~NoRoom(a)
          /\ item' = [item EXCEPT ![<<a, "recovered">>] = AtStage("queued")]
          /\ channel' = Append(channel, <<a, "recovered">>)
          /\ pending' = pending + 1
          /\ pendingBytes' = pendingBytes + Size[a]
          /\ UNCHANGED <<disk, outcome>>
    /\ UNCHANGED <<keepReconcile, claim, scan>>

(* cleanup_orphans: every file past max_age, paired or not. *)
CleanupOrphans ==
    /\ snapshot = {}
    /\ scan = "listed" \/ (claim = "purge" /\ scan = "off")
    /\ scan' = "swept"
    /\ Remove({a \in Artifacts : disk[a].old})
    /\ Close({a \in OnDisk : disk[a].old}, "discarded")
    /\ UNCHANGED <<keepReconcile, claim, snapshot, item, channel, pending, pendingBytes>>

(* purge_spilled_items: collection is disabled, at startup or over a       *)
(* recovery that may still be running.                                     *)
Purge ==
    /\ claim = "none" \/ (Racing # {} /\ claim = "recovery")
    /\ claim' = "purge"
    /\ Remove(Artifacts)
    /\ Close(OnDisk, "discarded")
    /\ UNCHANGED <<keepReconcile, scan, snapshot, item, channel, pending, pendingBytes>>

-----------------------------------------------------------------------------
Next ==
    \/ \E a \in Artifacts : Begin(a) \/ Count(a) \/ Submit(a) \/ InlineDone(a)
                            \/ PairExpires(a) \/ RecoverOne(a)
    \/ Trip \/ CooldownEnds \/ Receive \/ Dispatch \/ BeginDrain \/ StopReceiving \/ Exit
    \/ Drain \/ DropHandles \/ DrainTimesOut
    \/ \E i \in Items : TaskStep(i) \/ Reacquire(i) \/ ItemExpires(i)
    \/ Crash \/ StartRecovery \/ CleanupOrphans \/ Purge

Spec == Init /\ [][Next]_vars

(* A task the runtime polls takes its step, a request is answered, the     *)
(* semaphore is a FIFO queue.  Nothing obliges the user, the clock, the    *)
(* credentials, drain's deadline or a crash.                               *)
CallStep(a) == Count(a) \/ Submit(a) \/ InlineDone(a)
ItemsOf(a) == {i \in Items : Art(i) = a}

Fairness ==
    /\ WF_vars(WorkerStep) /\ SF_vars(Dispatch)
    /\ \A a \in Artifacts :
         /\ WF_vars(CallStep(a) \/ \E i \in ItemsOf(a) : TaskStep(i))
         /\ SF_vars(\E i \in ItemsOf(a) : Reacquire(i))

FairSpec == Spec /\ Fairness

-----------------------------------------------------------------------------
(* Properties. *)

(* An artifact whose caller was told that the queue owns it (Enqueued, or  *)
(* an enqueue_blocking that is waited for) keeps its bytes and its         *)
(* manifest on disk until it is uploaded, refused by the server, expired,  *)
(* purged by the opt-out, or found by the recovery torn, unreadable or not *)
(* valid, each with a metric of its own: no crash, aborted drain, racing   *)
(* scan, refused re-enqueue or second item drops it otherwise.             *)
NothingLost ==
    \A a \in Artifacts :
        promised[a] /\ outcome[a] = "none" => disk[a].temp # "absent" /\ disk[a].sidecar

(* What wait_idle reports is true: pending never falls below the items     *)
(* actively uploading, and at zero no item of this life is unsettled.      *)
FlushIsTruthful ==
    /\ inflight <= pending
    /\ pending = 0 => \A i \in Items : item[i].stage \in {"none", "done"}

(* A caller of enqueue_blocking never hangs: it learns the outcome, that   *)
(* its item is parked, or that the queue is closed.                        *)
WaitersAnswered ==
    \A a \in Artifacts : waiter[a] = "waiting" ~> waiter[a] # "waiting"

(* A drain ends by itself, without its deadline: neither a cooling breaker *)
(* nor parked items nor a full semaphore hold up the shutdown.             *)
DrainEnds == shutdown ~> (worker \in {"exited", "aborted"} \/ ~shutdown)
=============================================================================
