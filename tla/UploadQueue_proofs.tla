------------------------- MODULE UploadQueue_proofs -------------------------
(***************************************************************************)
(* What holds of the upload queue for every set of artifacts, size, budget *)
(* and capacity, in every life of the process: nothing the queue promised  *)
(* is lost, what a flush reports is true, and no counter or semaphore ever *)
(* leaves its range.                                                       *)
(***************************************************************************)
EXTENDS UploadQueue, FiniteSetTheorems, TLAPS

-----------------------------------------------------------------------------
(* Sums over the items.  A sum of naturals is the cardinality of a set of  *)
(* units, n of them for an item of weight n, so that adding an item or     *)
(* changing its weight needs the arithmetic of finite sets only.           *)

Units(w) == {u \in Items \X (Nat \ {0}) : u[2] <= w[u[1]]}
Total(w) == Cardinality(Units(w))
Summable(w) == w \in [Items -> Nat] /\ IsFiniteSet(Units(w))

\* The units of one item.
LEMMA UnitsOf ==
    ASSUME NEW i \in Items, NEW n \in Nat
    PROVE  /\ IsFiniteSet({i} \X (1 .. n))
           /\ Cardinality({i} \X (1 .. n)) = n
<1>1. IsFiniteSet({i}) /\ Cardinality({i}) = 1
    BY FS_Singleton
<1>2. IsFiniteSet(1 .. n) /\ Cardinality(1 .. n) = n
    BY FS_Interval
<1>3. /\ IsFiniteSet({i} \X (1 .. n))
      /\ Cardinality({i} \X (1 .. n)) = Cardinality({i}) * Cardinality(1 .. n)
    BY <1>1, <1>2, FS_Product, Zenon
<1>4. QED
    BY <1>1, <1>2, <1>3

\* A total is a natural number.
LEMMA TotalType == ASSUME NEW w, Summable(w) PROVE Total(w) \in Nat
    BY FS_CardinalityType DEF Total, Summable

\* Nothing sums up to zero, and zero to nothing.
LEMMA TotalZero ==
    ASSUME NEW w \in [Items -> Nat]
    PROVE  /\ (\A i \in Items : w[i] = 0) => Summable(w) /\ Total(w) = 0
           /\ Summable(w) /\ Total(w) = 0 => \A i \in Items : w[i] = 0
<1>1. ASSUME \A i \in Items : w[i] = 0 PROVE Summable(w) /\ Total(w) = 0
    <2>1. Units(w) = {}
        BY <1>1 DEF Units
    <2>2. QED
        BY <2>1, FS_EmptySet DEF Summable, Total
<1>2. ASSUME Summable(w), Total(w) = 0, NEW i \in Items PROVE w[i] = 0
    <2>1. Units(w) = {}
        BY <1>2, FS_EmptySet DEF Summable, Total
    <2>2. w[i] # 0 => <<i, 1>> \in Units(w)
        BY DEF Units
    <2>3. QED
        BY <2>1, <2>2
<1>3. QED
    BY <1>1, <1>2

\* A total grows with its weights.
LEMMA TotalMonotone ==
    ASSUME NEW w, Summable(w), NEW v \in [Items -> Nat], \A i \in Items : v[i] <= w[i]
    PROVE  Summable(v) /\ Total(v) <= Total(w)
<1>1. Units(v) \subseteq Units(w)
    BY DEF Units, Summable
<1>2. QED
    BY <1>1, FS_Subset DEF Summable, Total

\* Changing one weight changes the total by as much.
LEMMA TotalUpdate ==
    ASSUME NEW w, Summable(w), NEW v \in [Items -> Nat], NEW k \in Items,
           \A i \in Items \ {k} : v[i] = w[i]
    PROVE  Summable(v) /\ Total(v) = Total(w) - w[k] + v[k]
<1> DEFINE Old == {k} \X (1 .. w[k])
           New == {k} \X (1 .. v[k])
           Rest == Units(w) \ Old
<1>0. w[k] \in Nat /\ v[k] \in Nat
    BY DEF Summable
<1>1. /\ IsFiniteSet(Old) /\ Cardinality(Old) = w[k]
      /\ IsFiniteSet(New) /\ Cardinality(New) = v[k]
    BY <1>0, UnitsOf
<1>2. Units(w) \cap Old = Old
    BY <1>0 DEF Units
<1>3. Units(v) = Rest \cup New
    <2>1. ASSUME NEW u \in Units(v) PROVE u \in Rest \cup New
        <3>1. CASE u[1] = k
            BY <1>0, <2>1, <3>1 DEF Units
        <3>2. CASE u[1] # k
            BY <1>0, <2>1, <3>2 DEF Units
        <3>3. QED
            BY <3>1, <3>2
    <2>2. New \subseteq Units(v)
        BY <1>0 DEF Units
    <2>3. ASSUME NEW u \in Rest PROVE u \in Units(v)
        <3>1. u[1] # k
            BY <1>0, <2>3 DEF Units
        <3>2. QED
            BY <2>3, <3>1 DEF Units
    <2>4. QED
        BY <2>1, <2>2, <2>3
<1>4. Rest \cap New = {}
    <2>1. ASSUME NEW u \in Rest PROVE u[1] # k
        BY <1>0, <2>1 DEF Units
    <2>2. QED
        BY <2>1
<1> HIDE DEF Old
<1>5. IsFiniteSet(Rest) /\ Cardinality(Rest) = Total(w) - w[k]
    <2>1. /\ IsFiniteSet(Units(w) \ Old)
          /\ Cardinality(Units(w) \ Old) = Cardinality(Units(w)) - Cardinality(Units(w) \cap Old)
        BY FS_Difference, Zenon DEF Summable
    <2>2. QED
        BY <1>1, <1>2, <2>1 DEF Total
<1>6. Cardinality(Rest \cap New) = 0
    BY <1>4, FS_EmptySet
<1> HIDE DEF Rest, New
<1>7. IsFiniteSet(Rest \cup New) /\ Cardinality(Rest \cup New) = Total(w) - w[k] + v[k]
    <2>1. Total(w) \in Nat
        BY TotalType
    <2>2. /\ IsFiniteSet(Rest \cup New)
          /\ Cardinality(Rest \cup New)
               = Cardinality(Rest) + Cardinality(New) - Cardinality(Rest \cap New)
        BY <1>1, <1>5, FS_Union
    <2>3. QED
        BY <1>0, <1>1, <1>5, <1>6, <2>1, <2>2
<1>8. QED
    BY <1>3, <1>7 DEF Summable, Total
-----------------------------------------------------------------------------
(* The steps of one item.                                                   *)

ItemRecord == [stage: Stages, attempts: 0 .. MaxAttempts, authRetried: BOOLEAN,
               bytes: Nat, old: BOOLEAN, slot: BOOLEAN, ok: BOOLEAN]
ItemsOK == item \in [Items -> ItemRecord]

\* Stages whose item is counted in inflight, and those that hold a permit.
Uploading == {"wire", "backoff", "parked", "woken", "resuming", "settling"}
Slotted == {"spawned", "wire", "backoff"}

\* A fresh item holds neither bytes nor a permit.
LEMMA FreshItem ==
    ASSUME NEW s \in Stages
    PROVE  /\ AtStage(s) \in ItemRecord /\ AtStage(s).stage = s
           /\ AtStage(s).bytes = 0 /\ ~AtStage(s).slot
           /\ NoItem \in ItemRecord /\ NoItem.stage = "none" /\ NoItem.bytes = 0 /\ ~NoItem.slot
<1>1. 0 \in 0 .. MaxAttempts
    BY QueueAssumption
<1>2. NoItem \in ItemRecord
    BY <1>1 DEF ItemRecord, NoItem, Stages
<1>3. NoItem.stage = "none" /\ NoItem.bytes = 0 /\ ~NoItem.slot
    BY DEF NoItem
<1>4. AtStage(s) \in ItemRecord
    BY <1>2 DEF AtStage, ItemRecord
<1>5. AtStage(s).stage = s /\ AtStage(s).bytes = 0 /\ ~AtStage(s).slot
    BY <1>2, <1>3 DEF AtStage, ItemRecord
<1>6. QED
    BY <1>2, <1>3, <1>4, <1>5

\* Only item i changes.
OnlyItem(i) == ItemsOK' /\ \A j \in Items \ {i} : item'[j] = item[j]

\* An item that is spawned, on the wire or backing off holds a permit.
SlotHeld == \A i \in Items : item[i].stage \in Slotted => item[i].slot

\* The permit goes with the slot of item i.
PermitMoves(i) ==
    \/ permits' = permits /\ (item'[i].slot <=> item[i].slot)
    \/ permits' = permits + 1 /\ item[i].slot /\ ~item'[i].slot
    \/ permits > 0 /\ permits' = permits - 1 /\ item'[i].slot

\* A step of an item by what it does to the counters: it starts, goes on,
\* settles or leaves.
Starts(i) ==
    /\ item[i].stage = "spawned" /\ item'[i].stage \in {"wire", "settling"}
    /\ item'[i].slot <=> item[i].slot
    /\ item'[i].bytes <= Size[Art(i)]
    /\ inflight' = inflight + 1
    /\ UNCHANGED <<pending, pendingBytes, permits>>
GoesOn(i) ==
    /\ \/ item[i].stage \in Uploading /\ item'[i].stage \in Uploading
       \/ item'[i].stage = item[i].stage
    /\ item[i].stage \in Unsettled
    /\ item'[i].bytes = item[i].bytes
    /\ PermitMoves(i)
    /\ UNCHANGED stats
Settles(i) ==
    /\ item[i].stage = "settling" /\ item'[i].stage = "leaving"
    /\ item'[i].bytes = item[i].bytes
    /\ item'[i].slot <=> item[i].slot
    /\ inflight' = inflight - 1
    /\ UNCHANGED <<pending, pendingBytes, permits>>
Leaves(i) ==
    /\ item[i].stage = "leaving" /\ item'[i].stage = "done" /\ ~item'[i].slot
    /\ pending' = pending - 1
    /\ pendingBytes' = pendingBytes - item[i].bytes
    /\ permits' = IF item[i].slot THEN permits + 1 ELSE permits
    /\ UNCHANGED inflight

ItemStep(i) == TaskStep(i) \/ Reacquire(i) \/ ItemExpires(i)

\* Every step of a task is one of the four, on its own item.
LEMMA ItemStepFacts ==
    ASSUME ItemsOK, SlotHeld, NEW i \in Items, ItemStep(i)
    PROVE  /\ OnlyItem(i)
           /\ Starts(i) \/ GoesOn(i) \/ Settles(i) \/ Leaves(i)
           /\ SlotHeld'
           /\ UNCHANGED keepTask
<1> USE DEF keepTask, buffer, reconciler, stats, Uploading, Slotted
<1>0. /\ item[i] \in ItemRecord /\ Art(i) \in Artifacts /\ Size[Art(i)] \in Nat
      /\ MaxAttempts \in Nat /\ MaxAttempts > 0
      /\ item[i].stage \in Slotted => item[i].slot
    BY QueueAssumption DEF ItemsOK, Items, Art, SlotHeld
<1>1. ASSUME NEW r \in ItemRecord, item' = [item EXCEPT ![i] = r],
             r.stage \in Slotted => r.slot
      PROVE  OnlyItem(i) /\ item'[i] = r /\ SlotHeld'
    BY <1>1 DEF OnlyItem, ItemsOK, SlotHeld
<1>2. CASE Start(i)
    <2> DEFINE b == IF disk[Art(i)].temp = "absent" THEN 0 ELSE Size[Art(i)]
               s == IF item[i].old THEN "settling" ELSE "wire"
               r == [item[i] EXCEPT !.stage = s, !.attempts = 1, !.bytes = b]
    <2>1. item' = [item EXCEPT ![i] = r]
        BY <1>0, <1>2 DEF Start, ItemsOK
    <2>2. b \in Nat /\ b <= Size[Art(i)] /\ s \in {"wire", "settling"}
        BY <1>0
    <2> HIDE DEF b, s
    <2>3. r \in ItemRecord /\ r.stage = s /\ r.bytes = b /\ (r.slot <=> item[i].slot)
        <3>1. s \in Stages /\ 1 \in 0 .. MaxAttempts
            BY <1>0, <2>2 DEF Stages, Unsettled, Running, Leaving
        <3>2. r.stage = s /\ r.bytes = b /\ (r.slot <=> item[i].slot)
            BY <1>0 DEF ItemRecord
        <3>3. r \in ItemRecord
            BY <1>0, <2>2, <3>1 DEF ItemRecord
        <3>4. QED
            BY <3>2, <3>3
    <2> HIDE DEF r
    <2>4. /\ item[i].stage = "spawned" /\ inflight' = inflight + 1
          /\ UNCHANGED <<pending, pendingBytes, permits, keepTask>>
        BY <1>2 DEF Start
    <2>5. OnlyItem(i) /\ item'[i] = r /\ SlotHeld'
        BY <1>0, <1>1, <2>1, <2>3, <2>4
    <2>6. QED
        BY <2>2, <2>3, <2>4, <2>5 DEF Starts
<1>3. ASSUME NEW r \in ItemRecord, item' = [item EXCEPT ![i] = r],
             r.bytes = item[i].bytes, item[i].stage \in Unsettled,
             r.stage = item[i].stage \/ {r.stage, item[i].stage} \subseteq Uploading,
             r.stage \in Slotted => r.slot,
             \/ permits' = permits /\ (r.slot <=> item[i].slot)
             \/ permits' = permits + 1 /\ item[i].slot /\ ~r.slot
             \/ permits > 0 /\ permits' = permits - 1 /\ r.slot,
             UNCHANGED <<stats, keepTask>>
      PROVE  OnlyItem(i) /\ SlotHeld' /\ GoesOn(i) /\ UNCHANGED keepTask
    BY <1>1, <1>3 DEF GoesOn, PermitMoves
<1>4. \A s \in Uploading : s \in Stages /\ s \in Unsettled
    BY DEF Stages, Unsettled, Running, Leaving
<1>5. ASSUME NEW why, Complete(i, why), item[i].stage \in Uploading,
             UNCHANGED <<stats, permits, keepTask>>
      PROVE  OnlyItem(i) /\ SlotHeld' /\ GoesOn(i) /\ UNCHANGED keepTask
    <2> DEFINE ok == why = "uploaded"
               r == [item[i] EXCEPT !.stage = "settling", !.ok = ok]
    <2>1. item' = [item EXCEPT ![i] = r]
        BY <1>0, <1>5 DEF Complete, ItemsOK
    <2>2. ok \in BOOLEAN
        OBVIOUS
    <2> HIDE DEF ok
    <2>3. r.stage = "settling" /\ r.bytes = item[i].bytes /\ (r.slot <=> item[i].slot)
        BY <1>0 DEF ItemRecord
    <2>4. r \in ItemRecord
        BY <1>0, <1>4, <2>2 DEF ItemRecord
    <2> HIDE DEF r
    <2>5. QED
        BY <1>3, <1>4, <1>5, <2>1, <2>3, <2>4
<1>6. CASE Succeed(i) \/ FailTerminally(i)
    BY <1>5, <1>6 DEF Succeed, FailTerminally
<1>7. ASSUME NEW s \in Uploading, item' = [item EXCEPT ![i].stage = s],
             item[i].stage \in Uploading, s \in Slotted => item[i].slot,
             UNCHANGED <<stats, permits, keepTask>>
      PROVE  OnlyItem(i) /\ SlotHeld' /\ GoesOn(i) /\ UNCHANGED keepTask
    <2> DEFINE r == [item[i] EXCEPT !.stage = s]
    <2>1. item' = [item EXCEPT ![i] = r]
        BY <1>0, <1>7 DEF ItemsOK
    <2>2. r.stage = s /\ r.bytes = item[i].bytes /\ (r.slot <=> item[i].slot)
        BY <1>0 DEF ItemRecord
    <2>3. r \in ItemRecord
        BY <1>0, <1>4 DEF ItemRecord
    <2> HIDE DEF r
    <2>4. QED
        BY <1>3, <1>4, <1>7, <2>1, <2>2, <2>3
<1>8. CASE FailRetryably(i)
    BY <1>0, <1>5, <1>7, <1>8 DEF FailRetryably, GiveUp
<1>9. CASE ParkEnds(i)
    BY <1>5, <1>9 DEF ParkEnds, GiveUp
<1>10. CASE ParkWaits(i)
    BY <1>5, <1>7, <1>10 DEF ParkWaits, GiveUp
<1>11. CASE Wake(i)
    BY <1>7, <1>11 DEF Wake
<1>12. PICK n \in 0 .. MaxAttempts :
           Again(i) = [item EXCEPT ![i] = [item[i] EXCEPT !.stage = "wire", !.attempts = n]]
    <2>1. item[i].attempts \in 0 .. MaxAttempts
        BY <1>0 DEF ItemRecord
    <2>2. Least(item[i].attempts + 1, MaxAttempts) \in 0 .. MaxAttempts
        BY <1>0, <2>1 DEF Least
    <2>3. Again(i) = [item EXCEPT ![i] = [item[i] EXCEPT !.stage = "wire",
                         !.attempts = Least(item[i].attempts + 1, MaxAttempts)]]
        BY <1>0 DEF Again, ItemsOK
    <2>4. QED
        BY <2>2, <2>3
<1>13. CASE BackoffEnds(i)
    <2> DEFINE r == [item[i] EXCEPT !.stage = "wire", !.attempts = n]
    <2>1. r.stage = "wire" /\ r.bytes = item[i].bytes /\ (r.slot <=> item[i].slot)
        BY <1>0 DEF ItemRecord
    <2>2. r \in ItemRecord
        BY <1>0, <1>4 DEF ItemRecord
    <2>3. item' = [item EXCEPT ![i] = r]
        BY <1>12, <1>13 DEF BackoffEnds
    <2> HIDE DEF r
    <2>4. /\ item[i].stage = "backoff" /\ UNCHANGED <<stats, permits, keepTask>>
        BY <1>13 DEF BackoffEnds
    <2>5. QED
        BY <1>0, <1>3, <1>4, <2>1, <2>2, <2>3, <2>4
<1>14. CASE Reacquire(i)
    <2> DEFINE q == [item[i] EXCEPT !.stage = "wire", !.attempts = n]
               r == [q EXCEPT !.slot = TRUE, !.authRetried = FALSE]
    <2>1. q \in ItemRecord /\ q.stage = "wire" /\ q.bytes = item[i].bytes
        BY <1>0, <1>4 DEF ItemRecord
    <2>2. item' = [item EXCEPT ![i] = r]
        BY <1>0, <1>12, <1>14 DEF Reacquire, ItemsOK
    <2> HIDE DEF q
    <2>3. r.stage = "wire" /\ r.bytes = item[i].bytes /\ r.slot
        BY <2>1 DEF ItemRecord
    <2>4. r \in ItemRecord
        BY <2>1 DEF ItemRecord
    <2> HIDE DEF r
    <2>5. /\ item[i].stage = "resuming" /\ permits > 0 /\ permits' = permits - 1
          /\ UNCHANGED <<stats, keepTask>>
        BY <1>14 DEF Reacquire
    <2>6. QED
        BY <1>3, <1>4, <2>2, <2>3, <2>4, <2>5
<1>15. CASE Rejected(i)
    <2>1. item[i].stage = "wire" /\ item[i].slot /\ UNCHANGED <<stats, keepTask>>
        BY <1>0, <1>15 DEF Rejected
    <2>2. CASE item[i].authRetried
        <3> DEFINE r == [item[i] EXCEPT !.stage = "parked", !.slot = FALSE]
        <3>1. item' = [item EXCEPT ![i] = r] /\ permits' = permits + 1
            BY <1>0, <1>15, <2>2 DEF Rejected, ItemsOK
        <3>2. r.stage = "parked" /\ r.bytes = item[i].bytes /\ ~r.slot
            BY <1>0 DEF ItemRecord
        <3>3. r \in ItemRecord
            BY <1>0, <1>4 DEF ItemRecord
        <3> HIDE DEF r
        <3>4. QED
            BY <1>3, <1>4, <2>1, <3>1, <3>2, <3>3
    <2>3. CASE ~item[i].authRetried
        <3> DEFINE q == [item[i] EXCEPT !.stage = "wire", !.attempts = n]
                   r == [q EXCEPT !.authRetried = TRUE]
        <3>1. /\ q \in ItemRecord /\ q.stage = "wire" /\ q.bytes = item[i].bytes
              /\ q.slot <=> item[i].slot
            BY <1>0, <1>4 DEF ItemRecord
        <3>2. item' = [item EXCEPT ![i] = r] /\ permits' = permits
            BY <1>0, <1>12, <1>15, <2>3 DEF Rejected, ItemsOK
        <3> HIDE DEF q
        <3>3. r.stage = "wire" /\ r.bytes = item[i].bytes /\ (r.slot <=> item[i].slot)
            BY <3>1 DEF ItemRecord
        <3>4. r \in ItemRecord
            BY <3>1 DEF ItemRecord
        <3> HIDE DEF r
        <3>5. QED
            BY <1>3, <1>4, <2>1, <3>2, <3>3, <3>4
    <2>4. QED
        BY <2>2, <2>3
<1>16. CASE ItemExpires(i)
    <2> DEFINE r == [item[i] EXCEPT !.old = TRUE]
    <2>1. /\ item' = [item EXCEPT ![i] = r] /\ item[i].stage \in Unsettled
          /\ UNCHANGED <<stats, permits, keepTask>>
        BY <1>0, <1>16 DEF ItemExpires, ItemsOK, callers, workers
    <2>2. r.stage = item[i].stage /\ r.bytes = item[i].bytes /\ (r.slot <=> item[i].slot)
        BY <1>0 DEF ItemRecord
    <2>3. r \in ItemRecord
        BY <1>0 DEF ItemRecord
    <2> HIDE DEF r
    <2>4. QED
        BY <1>0, <1>3, <2>1, <2>2, <2>3
<1>17. CASE Settle(i)
    <2> DEFINE r == [item[i] EXCEPT !.stage = "leaving"]
    <2>1. /\ item' = [item EXCEPT ![i] = r] /\ item[i].stage = "settling"
          /\ inflight' = inflight - 1 /\ UNCHANGED <<pending, pendingBytes, permits, keepTask>>
        BY <1>0, <1>17 DEF Settle, ItemsOK
    <2>2. r.stage = "leaving" /\ r.bytes = item[i].bytes /\ (r.slot <=> item[i].slot)
        BY <1>0 DEF ItemRecord
    <2>3. r \in ItemRecord
        BY <1>0 DEF ItemRecord, Stages, Unsettled, Running, Leaving
    <2> HIDE DEF r
    <2>4. OnlyItem(i) /\ item'[i] = r /\ SlotHeld'
        BY <1>1, <2>1, <2>2, <2>3
    <2>5. QED
        BY <2>1, <2>2, <2>4 DEF Settles
<1>18. CASE Leave(i)
    <2>1. /\ item' = [item EXCEPT ![i] = AtStage("done")] /\ item[i].stage = "leaving"
          /\ pending' = pending - 1 /\ pendingBytes' = pendingBytes - item[i].bytes
          /\ permits' = IF item[i].slot THEN permits + 1 ELSE permits
          /\ UNCHANGED <<inflight, keepTask>>
        BY <1>18 DEF Leave
    <2>2. AtStage("done") \in ItemRecord /\ AtStage("done").stage = "done" /\ ~AtStage("done").slot
        BY FreshItem DEF Stages
    <2>3. OnlyItem(i) /\ item'[i] = AtStage("done") /\ SlotHeld'
        BY <1>1, <2>1, <2>2
    <2>4. QED
        BY <2>1, <2>2, <2>3 DEF Leaves
<1>19. QED
    BY <1>2, <1>6, <1>8, <1>9, <1>10, <1>11, <1>13, <1>14, <1>15, <1>16, <1>17, <1>18
       DEF ItemStep, TaskStep
-----------------------------------------------------------------------------
(* Type correctness but for the counters.                                   *)

Pair == [temp: {"absent", "torn", "whole"}, sidecar: BOOLEAN, old: BOOLEAN]
Outcomes == {"uploaded", "failed", "discarded", "lost"}
FilesOK == disk \in [Artifacts -> Pair] /\ outcome \in [Artifacts -> Outcomes \cup {"none"}]
CallersOK ==
    /\ promised \in [Artifacts -> BOOLEAN]
    /\ call \in [Artifacts -> {"idle", "temp", "counted", "inline", "done"}]
    /\ waiter \in [Artifacts -> {"none", "waiting", "ok", "error", "closed"}]
FlagsOK ==
    /\ closed \in BOOLEAN /\ senders \in BOOLEAN
    /\ worker \in {"select", "acquire", "cooldown", "drain", "join", "exited", "aborted"}
    /\ shutdown \in BOOLEAN /\ draining \in BOOLEAN
    /\ failures \in 0 .. Threshold
ReconcileOK ==
    /\ claim \in {"none", "recovery", "purge"}
    /\ scan \in {"off", "listed", "swept"}
    /\ snapshot \subseteq Artifacts
    /\ lives \in 1 .. MaxLives
BufferOK == ItemsOK /\ channel \in Seq(Items)
Shape == FilesOK /\ CallersOK /\ FlagsOK /\ ReconcileOK /\ BufferOK

\* The worker's own steps, and the reconcile's, leave every item alone.
Quiet == \/ Trip \/ CooldownEnds \/ BeginDrain \/ StopReceiving \/ Exit
         \/ Drain \/ DropHandles
Reconciles == StartRecovery \/ CleanupOrphans \/ Purge \/ \E a \in Artifacts : PairExpires(a)
Calls(a) == Begin(a) \/ Count(a) \/ Submit(a) \/ InlineDone(a)

\* Every step is one of these.
LEMMA Steps ==
    Next <=> \/ \E a \in Artifacts : Calls(a) \/ RecoverOne(a)
             \/ Quiet \/ Receive \/ Dispatch \/ DrainTimesOut
             \/ \E i \in Items : ItemStep(i)
             \/ Reconciles \/ Crash
    BY DEF Next, Calls, Quiet, Reconciles, ItemStep

\* What the quiet steps keep.
LEMMA QuietFacts ==
    ASSUME Quiet
    PROVE  /\ UNCHANGED <<disk, outcome, callers, item, channel, stats, permits, reconciler>>
           /\ FlagsOK => FlagsOK'
<1> USE DEF callers, stats, reconciler, keepCalls
<1>1. UNCHANGED <<disk, outcome, callers, item, channel, stats, permits, reconciler>>
    BY DEF Quiet, Trip, CooldownEnds, BeginDrain, StopReceiving, Exit, Drain, DropHandles,
           workers
<1>2. ASSUME FlagsOK PROVE FlagsOK'
    <2> USE DEF Quiet, Trip, CooldownEnds, BeginDrain, StopReceiving, Exit, Drain, DropHandles,
                workers, FlagsOK
    <2>1. failures' \in {0, failures} /\ failures' \in 0 .. Threshold
        BY <1>2, QueueAssumption
    <2>2. worker' \in {worker, "cooldown", "select", "drain", "join", "exited"}
        OBVIOUS
    <2>3. /\ closed' \in BOOLEAN /\ senders' \in BOOLEAN
          /\ shutdown' \in BOOLEAN /\ draining' \in BOOLEAN
        BY <1>2, Zenon
    <2>4. QED
        BY <1>2, <2>1, <2>2, <2>3
<1>3. QED
    BY <1>1, <1>2

\* A reconcile touches files, outcomes and its own state, and no item.
LEMMA ReconcileFacts ==
    ASSUME Reconciles
    PROVE  UNCHANGED <<callers, item, buffer, stats, workers, lives>>
    BY DEF Reconciles, StartRecovery, CleanupOrphans, Purge, PairExpires, keepReconcile,
           buffer, stats, reconciler

\* Closing the books on a set of artifacts.
LEMMA CloseFacts ==
    ASSUME FilesOK, NEW S, NEW why \in Outcomes, Close(S, why)
    PROVE  /\ outcome' \in [Artifacts -> Outcomes \cup {"none"}]
           /\ \A a \in Artifacts :
                 /\ outcome[a] # "none" => outcome'[a] # "none"
                 /\ a \in S => outcome'[a] # "none"
    BY DEF Close, FilesOK, Outcomes

\* Whatever the recovery finds wrong is an outcome.
LEMMA FaultsAreOutcomes == \A a : Faults(a) \subseteq Outcomes
    BY DEF Faults, Outcomes

\* Removing the files of a set of artifacts.
LEMMA RemoveFacts ==
    ASSUME FilesOK, NEW S, Remove(S)
    PROVE  /\ disk' \in [Artifacts -> Pair]
           /\ \A a \in Artifacts : a \notin S => disk'[a] = disk[a]
    BY DEF Remove, FilesOK, Pair, Absent

\* Writing one file of a pair, or removing it.
LEMMA PairFacts ==
    ASSUME FilesOK, NEW a \in Artifacts
    PROVE  /\ [disk EXCEPT ![a].temp = "whole"] \in [Artifacts -> Pair]
           /\ [disk EXCEPT ![a].temp = "absent"] \in [Artifacts -> Pair]
           /\ [disk EXCEPT ![a].sidecar = TRUE] \in [Artifacts -> Pair]
           /\ [disk EXCEPT ![a].sidecar = FALSE] \in [Artifacts -> Pair]
           /\ [disk EXCEPT ![a].old = TRUE] \in [Artifacts -> Pair]
           /\ [disk EXCEPT ![a] = Absent] \in [Artifacts -> Pair]
<1>1. ASSUME NEW p \in Pair PROVE [disk EXCEPT ![a] = p] \in [Artifacts -> Pair]
    BY <1>1 DEF FilesOK
<1>2. disk[a] \in Pair
    BY DEF FilesOK
<1>3. /\ [disk[a] EXCEPT !.temp = "whole"] \in Pair
      /\ [disk[a] EXCEPT !.temp = "absent"] \in Pair
      /\ [disk[a] EXCEPT !.sidecar = TRUE] \in Pair
      /\ [disk[a] EXCEPT !.sidecar = FALSE] \in Pair
      /\ [disk[a] EXCEPT !.old = TRUE] \in Pair
      /\ Absent \in Pair
    BY <1>2 DEF Pair, Absent
<1>4. QED
    BY <1>1, <1>3

\* What a task does to the files of its artifact: it touches them only once
\* their outcome is known.
LEMMA ItemFiles ==
    ASSUME FilesOK, ItemsOK, NEW i \in Items, ItemStep(i)
    PROVE  /\ FilesOK'
           /\ \A a \in Artifacts : outcome[a] # "none" => outcome'[a] # "none"
           /\ \A a \in Artifacts : \/ disk'[a] = disk[a]
                                   \/ outcome'[a] # "none"
                                   \/ a = Art(i) /\ item[i].stage = "settling"
           /\ item'[i].stage = "settling" => outcome'[Art(i)] # "none"
<1>0. Art(i) \in Artifacts /\ {"uploaded", "failed", "discarded"} \subseteq Outcomes
    BY DEF Items, Art, Outcomes
<1>1. ASSUME disk' = [disk EXCEPT ![Art(i)].temp = "absent"],
             NEW why \in {"uploaded", "failed", "discarded"}, Close({Art(i)}, why)
      PROVE  /\ FilesOK'
             /\ \A a \in Artifacts : outcome[a] # "none" => outcome'[a] # "none"
             /\ \A a \in Artifacts : disk'[a] = disk[a] \/ outcome'[a] # "none"
             /\ outcome'[Art(i)] # "none"
    <2>1. FilesOK'
        BY <1>0, <1>1, PairFacts, CloseFacts DEF FilesOK
    <2>2. \A a \in Artifacts : a # Art(i) => disk'[a] = disk[a]
        BY <1>0, <1>1 DEF FilesOK
    <2>3. QED
        BY <1>0, <1>1, <2>1, <2>2, CloseFacts
<1>2. ASSUME UNCHANGED <<disk, outcome>>, item'[i].stage # "settling"
      PROVE  /\ FilesOK'
             /\ \A a \in Artifacts : outcome[a] # "none" => outcome'[a] # "none"
             /\ \A a \in Artifacts : disk'[a] = disk[a] \/ outcome'[a] # "none"
    BY <1>2 DEF FilesOK
<1>3. CASE Start(i)
    <2>1. CASE item[i].old
        BY <1>1, <1>3, <2>1 DEF Start
    <2>2. CASE ~item[i].old
        <3>1. UNCHANGED <<disk, outcome>> /\ item'[i].stage = "wire"
            BY <1>3, <2>2 DEF Start, ItemsOK, ItemRecord
        <3>2. QED
            BY <1>2, <3>1
    <2>3. QED
        BY <2>1, <2>2
<1>4. CASE Succeed(i) \/ FailTerminally(i) \/ ParkEnds(i)
    BY <1>1, <1>4 DEF Succeed, FailTerminally, ParkEnds, GiveUp, Complete
<1>5. CASE FailRetryably(i)
    <2>1. CASE item[i].attempts >= MaxAttempts
        BY <1>1, <1>5, <2>1 DEF FailRetryably, GiveUp, Complete
    <2>2. CASE ~(item[i].attempts >= MaxAttempts)
        <3>1. UNCHANGED <<disk, outcome>> /\ item'[i].stage = "backoff"
            BY <1>5, <2>2 DEF FailRetryably, ItemsOK, ItemRecord
        <3>2. QED
            BY <1>2, <3>1
    <2>3. QED
        BY <2>1, <2>2
<1>6. CASE ParkWaits(i)
    <2>1. CASE item[i].old
        BY <1>1, <1>6, <2>1 DEF ParkWaits, GiveUp, Complete
    <2>2. CASE ~item[i].old
        <3>1. UNCHANGED <<disk, outcome>> /\ item'[i].stage \in {"parked", "woken"}
            BY <1>6, <2>2 DEF ParkWaits, ItemsOK, ItemRecord
        <3>2. QED
            BY <1>2, <3>1
    <2>3. QED
        BY <2>1, <2>2
<1>7. CASE Rejected(i) \/ BackoffEnds(i) \/ Wake(i) \/ Reacquire(i)
    <2>1. UNCHANGED <<disk, outcome>>
        BY <1>7 DEF Rejected, BackoffEnds, Wake, Reacquire
    <2>2. item'[i].stage \in {"parked", "wire", "resuming"}
        BY <1>7 DEF Rejected, BackoffEnds, Wake, Reacquire, Again, ItemsOK, ItemRecord
    <2>3. QED
        BY <1>2, <2>1, <2>2
<1>8. CASE ItemExpires(i)
    <2>1. UNCHANGED <<disk, outcome>>
        BY <1>8 DEF ItemExpires
    <2>2. item'[i].stage = item[i].stage /\ item[i].stage # "settling"
        BY <1>8 DEF ItemExpires, ItemsOK, ItemRecord, Leaving
    <2>3. QED
        BY <1>2, <2>1, <2>2
<1>9. CASE Settle(i)
    <2>1. /\ disk' = [disk EXCEPT ![Art(i)] = Absent] /\ outcome' = outcome
          /\ item[i].stage = "settling" /\ item'[i].stage = "leaving"
        BY <1>9 DEF Settle, ItemsOK, ItemRecord
    <2>2. FilesOK' /\ \A a \in Artifacts : a # Art(i) => disk'[a] = disk[a]
        BY <1>0, <2>1, PairFacts DEF FilesOK
    <2>3. QED
        BY <2>1, <2>2
<1>10. CASE Leave(i)
    <2>1. UNCHANGED <<disk, outcome>> /\ item'[i].stage = "done"
        <3>1. item'[i] = AtStage("done") /\ UNCHANGED <<disk, outcome>>
            BY <1>10 DEF Leave, ItemsOK
        <3>2. QED
            BY <3>1, FreshItem DEF Stages
    <2>2. QED
        BY <1>2, <2>1
<1>11. QED
    BY <1>3, <1>4, <1>5, <1>6, <1>7, <1>8, <1>9, <1>10 DEF ItemStep, TaskStep
\* The files and the outcomes keep their shape.
LEMMA FilesTyped == ASSUME Shape, Next PROVE FilesOK'
<1> USE DEF Shape
<1>1. ASSUME UNCHANGED <<disk, outcome>> PROVE FilesOK'
    BY <1>1 DEF FilesOK
<1>2. ASSUME NEW a \in Artifacts, Calls(a) PROVE FilesOK'
    <2>1. outcome' = outcome
        BY <1>2 DEF Calls, Begin, Count, Submit, InlineDone
    <2>2. disk' \in {disk, [disk EXCEPT ![a].temp = "whole"], [disk EXCEPT ![a].temp = "absent"],
                     [disk EXCEPT ![a].sidecar = TRUE], [disk EXCEPT ![a].sidecar = FALSE],
                     [disk EXCEPT ![a] = Absent]}
        BY <1>2 DEF Calls, Begin, Count, Submit, Accept, Refuse, InlineDone
    <2>3. QED
        BY <2>1, <2>2, PairFacts DEF FilesOK
<1>3. ASSUME NEW a \in Artifacts, RecoverOne(a) PROVE FilesOK'
    <2>1. CASE UNCHANGED <<disk, outcome>>
        BY <1>1, <2>1
    <2>2. CASE Remove({a}) /\ \E why \in Outcomes : Close({a} \cap OnDisk, why)
        BY <2>2, RemoveFacts, CloseFacts DEF FilesOK
    <2>3. QED
        BY <1>3, <2>1, <2>2, FaultsAreOutcomes DEF RecoverOne
<1>4. CASE Quiet \/ Receive \/ Dispatch \/ DrainTimesOut
    BY <1>1, <1>4, QuietFacts DEF Receive, Dispatch, DrainTimesOut, keepCalls
<1>5. ASSUME NEW i \in Items, ItemStep(i) PROVE FilesOK'
    BY <1>5, ItemFiles DEF BufferOK
<1>6. CASE Reconciles
    <2>1. CASE StartRecovery
        BY <1>1, <2>1 DEF StartRecovery
    <2>2. ASSUME NEW a \in Artifacts, PairExpires(a) PROVE FilesOK'
        BY <2>2, PairFacts DEF PairExpires, FilesOK
    <2>3. ASSUME NEW S, NEW T, NEW why \in Outcomes, Remove(S), Close(T, why) PROVE FilesOK'
        BY <2>3, RemoveFacts, CloseFacts DEF FilesOK
    <2>4. CASE CleanupOrphans \/ Purge
        BY <2>3, <2>4 DEF CleanupOrphans, Purge, Outcomes
    <2>5. QED
        BY <1>6, <2>1, <2>2, <2>4 DEF Reconciles
<1>7. CASE Crash
    <2>1. PICK torn \in SUBSET {a \in Artifacts : disk[a].temp = "whole"} :
              disk' = [a \in Artifacts |->
                         IF a \in torn THEN [disk[a] EXCEPT !.temp = "torn"] ELSE disk[a]]
        BY <1>7 DEF Crash
    <2>2. \A a \in Artifacts : disk[a] \in Pair /\ [disk[a] EXCEPT !.temp = "torn"] \in Pair
        BY DEF FilesOK, Pair
    <2>3. disk' \in [Artifacts -> Pair]
        BY <2>1, <2>2
    <2>4. QED
        BY <1>7, <2>3 DEF Crash, FilesOK
<1>8. QED
    BY <1>2, <1>3, <1>4, <1>5, <1>6, <1>7, Steps

\* So do the callers.
LEMMA CallersTyped == ASSUME Shape, Next PROVE CallersOK'
<1> USE DEF Shape, CallersOK, callers
<1>1. ASSUME NEW a \in Artifacts, Calls(a) PROVE CallersOK'
    <2>1. CASE Begin(a)
        BY <2>1 DEF Begin
    <2>2. CASE Count(a)
        BY <2>2 DEF Count
    <2>3. CASE Submit(a)
        <3>1. CASE Accept(a)
            <4>1. call' \in [Artifacts -> {"idle", "temp", "counted", "inline", "done"}]
                BY <3>1 DEF Accept
            <4>2. waiter' \in [Artifacts -> {"none", "waiting", "ok", "error", "closed"}]
                BY <3>1 DEF Accept
            <4>3. promised' \in [Artifacts -> BOOLEAN]
                BY <3>1 DEF Accept
            <4>4. QED
                BY <4>1, <4>2, <4>3
        <3>2. CASE Refuse(a)
            BY <3>2 DEF Refuse
        <3>3. QED
            BY <2>3, <3>1, <3>2 DEF Submit
    <2>4. CASE InlineDone(a)
        BY <2>4 DEF InlineDone
    <2>5. QED
        BY <1>1, <2>1, <2>2, <2>3, <2>4 DEF Calls
<1>2. ASSUME NEW a \in Artifacts, RecoverOne(a) PROVE CallersOK'
    BY <1>2 DEF RecoverOne, keepReconcile
<1>3. CASE Quiet \/ Receive \/ Dispatch
    BY <1>3, QuietFacts DEF Receive, Dispatch, keepCalls
<1>4. CASE DrainTimesOut
    BY <1>4 DEF DrainTimesOut
<1>5. ASSUME NEW i \in Items, ItemStep(i) PROVE CallersOK'
    <2>1. UNCHANGED <<promised, call>>
        BY <1>5 DEF ItemStep, TaskStep, Start, Succeed, FailTerminally, Rejected, FailRetryably,
                    BackoffEnds, ParkEnds, ParkWaits, Wake, Settle, Leave, Reacquire, ItemExpires,
                    keepTask
    <2>2. waiter' = waiter \/ \E r \in {"ok", "error"} : waiter' = Answer(i, r)
        BY <1>5 DEF ItemStep, TaskStep, Start, Succeed, FailTerminally, Rejected, FailRetryably,
                    BackoffEnds, ParkEnds, ParkWaits, Wake, Settle, Leave, Reacquire, ItemExpires
    <2>3. \A r \in {"ok", "error"} :
              Answer(i, r) \in [Artifacts -> {"none", "waiting", "ok", "error", "closed"}]
        BY DEF Answer
    <2>4. QED
        BY <2>1, <2>2, <2>3
<1>6. CASE Reconciles
    BY <1>6, ReconcileFacts
<1>7. CASE Crash
    BY <1>7 DEF Crash
<1>8. QED
    BY <1>1, <1>2, <1>3, <1>4, <1>5, <1>6, <1>7, Steps
\* So do the worker's flags, the failure count within the breaker's threshold.
LEMMA FlagsTyped == ASSUME Shape, Next PROVE FlagsOK'
<1> USE DEF Shape
<1>1. ASSUME UNCHANGED <<closed, senders, worker, shutdown, draining, failures>> PROVE FlagsOK'
    BY <1>1 DEF FlagsOK
<1>2. ASSUME NEW a \in Artifacts, Calls(a) \/ RecoverOne(a) PROVE FlagsOK'
    <2>1. UNCHANGED <<closed, senders, worker, shutdown, draining, failures>>
        BY <1>2 DEF Calls, Begin, Count, Submit, InlineDone, RecoverOne, keepQueue, keepReconcile,
                    buffer, workers
    <2>2. QED
        BY <1>1, <2>1
<1>3. CASE Quiet
    BY <1>3, QuietFacts
<1>4. CASE Receive \/ Dispatch
    <2>1. /\ worker' \in {"acquire", "drain", "select"}
          /\ UNCHANGED <<closed, senders, shutdown, draining, failures>>
        BY <1>4 DEF Receive, Dispatch, keepCalls
    <2>2. QED
        BY <2>1 DEF FlagsOK
<1>5. CASE DrainTimesOut
    <2>1. worker' = "aborted" /\ UNCHANGED <<senders, shutdown, draining, failures>>
        BY <1>5 DEF DrainTimesOut
    <2>2. closed' \in BOOLEAN
        BY <1>5, Zenon DEF DrainTimesOut
    <2>3. QED
        BY <2>1, <2>2 DEF FlagsOK
<1>6. ASSUME NEW i \in Items, ItemStep(i) PROVE FlagsOK'
    <2>1. UNCHANGED <<closed, senders, worker, shutdown, draining>>
        BY <1>6 DEF ItemStep, TaskStep, Start, Succeed, FailTerminally, Rejected, FailRetryably,
                    BackoffEnds, ParkEnds, ParkWaits, Wake, Settle, Leave, Reacquire, ItemExpires,
                    keepTask, buffer, workers
    <2>2. failures' \in {0, failures, Least(failures + 1, Threshold)}
        BY <1>6 DEF ItemStep, TaskStep, Start, Succeed, FailTerminally, Rejected, FailRetryably,
                    BackoffEnds, ParkEnds, ParkWaits, Wake, Settle, Leave, Reacquire, ItemExpires,
                    GiveUp, workers
    <2>3. failures' \in 0 .. Threshold
        BY <2>2, QueueAssumption DEF Least, FlagsOK
    <2>4. QED
        BY <2>1, <2>3 DEF FlagsOK
<1>7. CASE Reconciles
    BY <1>1, <1>7, ReconcileFacts DEF buffer, workers
<1>8. CASE Crash
    <2>1. failures' \in 0 .. Threshold /\ worker' = "select"
        BY <1>8, QueueAssumption DEF Crash
    <2>2. /\ closed' \in BOOLEAN /\ senders' \in BOOLEAN
          /\ shutdown' \in BOOLEAN /\ draining' \in BOOLEAN
        BY <1>8, Zenon DEF Crash
    <2>3. QED
        BY <2>1, <2>2 DEF FlagsOK
<1>9. QED
    BY <1>2, <1>3, <1>4, <1>5, <1>6, <1>7, <1>8, Steps

\* So does the reconcile.
LEMMA ReconcileTyped == ASSUME Shape, Next PROVE ReconcileOK'
<1> USE DEF Shape, ReconcileOK, reconciler
<1>1. ASSUME UNCHANGED reconciler PROVE ReconcileOK'
    BY <1>1
<1>2. ASSUME NEW a \in Artifacts, Calls(a) PROVE ReconcileOK'
    <2>1. UNCHANGED reconciler
        BY <1>2 DEF Calls, Begin, Count, Submit, InlineDone, keepQueue
    <2>2. QED
        BY <1>1, <2>1
<1>3. ASSUME NEW a \in Artifacts, RecoverOne(a) PROVE ReconcileOK'
    <2>1. snapshot' = snapshot \ {a} /\ UNCHANGED <<claim, scan, lives>>
        BY <1>3 DEF RecoverOne, keepReconcile
    <2>2. QED
        BY <2>1
<1>4. CASE Quiet \/ Receive \/ Dispatch \/ DrainTimesOut
    <2>1. UNCHANGED reconciler
        BY <1>4, QuietFacts DEF Receive, Dispatch, DrainTimesOut, keepCalls
    <2>2. QED
        BY <1>1, <2>1
<1>5. ASSUME NEW i \in Items, ItemStep(i) PROVE ReconcileOK'
    <2>1. UNCHANGED reconciler
        BY <1>5 DEF ItemStep, TaskStep, Start, Succeed, FailTerminally, Rejected, FailRetryably,
                    BackoffEnds, ParkEnds, ParkWaits, Wake, Settle, Leave, Reacquire, ItemExpires,
                    keepTask
    <2>2. QED
        BY <1>1, <2>1
<1>6. CASE Reconciles
    <2>1. /\ claim' \in {claim, "recovery", "purge"} /\ scan' \in {scan, "listed", "swept"}
          /\ snapshot' \in {snapshot, {a \in Artifacts : disk[a].sidecar}} /\ lives' = lives
        BY <1>6 DEF Reconciles, StartRecovery, CleanupOrphans, Purge, PairExpires, keepReconcile
    <2>2. QED
        BY <2>1
<1>7. CASE Crash
    <2>1. claim' = "none" /\ scan' = "off" /\ snapshot' = {} /\ lives' = lives + 1
          /\ lives < MaxLives
        BY <1>7 DEF Crash
    <2>2. QED
        BY <2>1, QueueAssumption
<1>8. QED
    BY <1>2, <1>3, <1>4, <1>5, <1>6, <1>7, Steps
-----------------------------------------------------------------------------
(* Which stage an item can be in.                                           *)

\* A caller that has not handed off has no item; a manifest the recovery has
\* still to look at has none either.
CallsFresh ==
    \A a \in Artifacts :
        call[a] \in {"idle", "temp", "counted"} => item[<<a, "live">>].stage = "none"
RecoveryFresh ==
    /\ claim = "none" => snapshot = {}
    /\ \A a \in Artifacts :
           a \in snapshot \/ claim = "none" => item[<<a, "recovered">>].stage = "none"

\* The buffer holds each queued item once.
ChannelQueued ==
    \A k \in 1 .. Len(channel) :
        /\ item[channel[k]].stage = "queued"
        /\ \A m \in 1 .. Len(channel) : channel[m] = channel[k] => m = k

StageInv == CallsFresh /\ RecoveryFresh /\ ChannelQueued /\ SlotHeld

\* Every hand-off is of a fresh item, and a queued item leaves the buffer by
\* its head.
LEMMA StageStep ==
    ASSUME Shape, StageInv, Next PROVE BufferOK' /\ StageInv'
<1> USE DEF Shape, BufferOK, StageInv
<1>0. /\ \A a \in Artifacts : <<a, "live">> \in Items /\ <<a, "recovered">> \in Items
      /\ \A i \in Items : item[i] \in ItemRecord
      /\ "queued" \in Stages /\ "aborted" \in Stages
    BY DEF Items, ItemsOK, Stages, Unsettled
<1>1. ASSUME ItemsOK', SlotHeld',
             \A j \in Items : item[j].stage = "none" => item'[j].stage = "none",
             \A a \in Artifacts : call'[a] \in {"idle", "temp", "counted"}
                                      => call[a] \in {"idle", "temp", "counted"},
             UNCHANGED <<claim, snapshot>>
      PROVE  CallsFresh' /\ RecoveryFresh'
    BY <1>0, <1>1 DEF CallsFresh, RecoveryFresh
<1>2. ASSUME ItemsOK', UNCHANGED channel,
             \A j \in Items : item[j].stage = "queued" => item'[j].stage = "queued"
      PROVE  channel' \in Seq(Items) /\ ChannelQueued'
    BY <1>2 DEF ChannelQueued
<1>3. ASSUME NEW i \in Items, item[i].stage = "none",
             item' = [item EXCEPT ![i] = AtStage("queued")], channel' = Append(channel, i)
      PROVE  /\ BufferOK' /\ ChannelQueued' /\ SlotHeld'
             /\ \A j \in Items \ {i} : item'[j] = item[j]
    <2>1. AtStage("queued") \in ItemRecord /\ AtStage("queued").stage = "queued"
        BY <1>0, FreshItem
    <2>2. ItemsOK' /\ \A j \in Items \ {i} : item'[j] = item[j]
        BY <1>3, <2>1 DEF ItemsOK
    <2>3. item'[i].stage = "queued"
        BY <1>3, <2>1 DEF ItemsOK
    <2>4. SlotHeld'
        BY <1>3, <2>2, <2>3 DEF SlotHeld, Slotted
    <2>5. /\ channel' \in Seq(Items) /\ Len(channel') = Len(channel) + 1
          /\ channel'[Len(channel) + 1] = i
          /\ \A k \in 1 .. Len(channel) : channel'[k] = channel[k] /\ channel[k] \in Items
        BY <1>3
    <2>6. \A k \in 1 .. Len(channel) : channel[k] # i
        BY <1>3 DEF ChannelQueued
    <2>7. ChannelQueued'
        <3> SUFFICES ASSUME NEW k \in 1 .. Len(channel'), NEW m \in 1 .. Len(channel')
                     PROVE  /\ item'[channel'[k]].stage = "queued"
                            /\ channel'[m] = channel'[k] => m = k
            BY DEF ChannelQueued
        <3>1. Len(channel) \in Nat
            OBVIOUS
        <3>2. CASE k = Len(channel) + 1
            BY <2>3, <2>5, <2>6, <3>1, <3>2
        <3>3. CASE k \in 1 .. Len(channel)
            BY <2>2, <2>5, <2>6, <3>1, <3>3 DEF ChannelQueued
        <3>4. QED
            BY <2>5, <3>1, <3>2, <3>3
    <2>8. QED
        BY <2>2, <2>4, <2>5, <2>7
<1>4. ASSUME NEW a \in Artifacts, Calls(a) PROVE BufferOK' /\ StageInv'
    <2>1. /\ \A b \in Artifacts \ {a} : call'[b] = call[b]
          /\ call'[a] \in {"idle", "temp", "counted"} => call[a] \in {"idle", "temp", "counted"}
        BY <1>4 DEF Calls, Begin, Count, Submit, Accept, Refuse, InlineDone, CallersOK
    <2>2. UNCHANGED <<claim, snapshot>>
        BY <1>4 DEF Calls, Begin, Count, Submit, InlineDone, keepQueue, reconciler
    <2>3. CASE Submit(a) /\ Accept(a)
        <3>1. /\ item[<<a, "live">>].stage = "none" /\ call'[a] = "done"
              /\ item' = [item EXCEPT ![<<a, "live">>] = AtStage("queued")]
              /\ channel' = Append(channel, <<a, "live">>)
            BY <2>3 DEF Submit, Accept, CallsFresh, CallersOK
        <3>2. /\ BufferOK' /\ ChannelQueued' /\ SlotHeld'
              /\ \A j \in Items \ {<<a, "live">>} : item'[j] = item[j]
            BY <1>0, <1>3, <3>1
        <3>3. CallsFresh'
            BY <1>0, <2>1, <3>1, <3>2 DEF CallsFresh
        <3>4. RecoveryFresh'
            BY <1>0, <2>2, <3>2 DEF RecoveryFresh
        <3>5. QED
            BY <3>2, <3>3, <3>4
    <2>4. CASE ~(Submit(a) /\ Accept(a))
        <3>1. UNCHANGED <<item, channel>>
            BY <1>4, <2>4 DEF Calls, Begin, Count, Submit, Refuse, InlineDone, keepQueue, buffer
        <3>2. ItemsOK' /\ SlotHeld'
            BY <3>1 DEF ItemsOK, SlotHeld
        <3>3. QED
            BY <1>1, <1>2, <2>1, <2>2, <3>1, <3>2
    <2>5. QED
        BY <2>3, <2>4
<1>5. ASSUME NEW a \in Artifacts, RecoverOne(a) PROVE BufferOK' /\ StageInv'
    <2>1. /\ a \in snapshot /\ snapshot' = snapshot \ {a} /\ UNCHANGED <<claim, call>>
        BY <1>5 DEF RecoverOne, keepReconcile, callers
    <2>2. claim # "none" /\ item[<<a, "recovered">>].stage = "none"
        BY <2>1 DEF RecoveryFresh
    <2>3. CASE UNCHANGED <<item, channel>>
        <3>1. ItemsOK' /\ SlotHeld' /\ ChannelQueued' /\ channel' \in Seq(Items)
            BY <2>3 DEF ItemsOK, SlotHeld, ChannelQueued
        <3>2. CallsFresh' /\ RecoveryFresh'
            BY <2>1, <2>2, <2>3 DEF CallsFresh, RecoveryFresh
        <3>3. QED
            BY <3>1, <3>2
    <2>4. CASE /\ item' = [item EXCEPT ![<<a, "recovered">>] = AtStage("queued")]
               /\ channel' = Append(channel, <<a, "recovered">>)
        <3>1. /\ BufferOK' /\ ChannelQueued' /\ SlotHeld'
              /\ \A j \in Items \ {<<a, "recovered">>} : item'[j] = item[j]
            BY <1>0, <1>3, <2>2, <2>4
        <3>2. CallsFresh'
            BY <1>0, <2>1, <3>1 DEF CallsFresh
        <3>3. RecoveryFresh'
            BY <1>0, <2>1, <2>2, <3>1 DEF RecoveryFresh
        <3>4. QED
            BY <3>1, <3>2, <3>3
    <2>5. QED
        BY <1>5, <2>3, <2>4 DEF RecoverOne
<1>6. CASE Quiet
    BY <1>6, QuietFacts DEF callers, reconciler, ItemsOK, CallsFresh, RecoveryFresh,
                            ChannelQueued, SlotHeld
<1>7. CASE Reconciles
    <2>1. UNCHANGED <<item, channel, call>>
        BY <1>7, ReconcileFacts DEF callers, buffer
    <2>2. \/ claim' # "none" /\ claim = "none"
          \/ claim' # "none" /\ snapshot' = snapshot
          \/ UNCHANGED <<claim, snapshot>>
        BY <1>7 DEF Reconciles, StartRecovery, CleanupOrphans, Purge, PairExpires, reconciler
    <2>3. BufferOK' /\ CallsFresh' /\ ChannelQueued' /\ SlotHeld'
        BY <2>1 DEF ItemsOK, CallsFresh, ChannelQueued, SlotHeld
    <2>4. RecoveryFresh'
        BY <2>1, <2>2 DEF RecoveryFresh
    <2>5. QED
        BY <2>3, <2>4
<1>8. CASE Receive
    <2> DEFINE h == Head(channel)
               r == [item[h] EXCEPT !.stage = "held"]
    <2>1. channel # <<>> /\ item' = [item EXCEPT ![h].stage = "held"] /\ channel' = Tail(channel)
          /\ UNCHANGED <<call, claim, snapshot>>
        BY <1>8 DEF Receive, keepCalls, callers, reconciler
    <2>2. /\ h \in Items /\ h = channel[1] /\ Len(channel) \in Nat /\ Len(channel) > 0
          /\ channel' \in Seq(Items) /\ Len(channel') = Len(channel) - 1
          /\ \A k \in 1 .. Len(channel') : channel'[k] = channel[k + 1] /\ channel[k + 1] \in Items
        BY <2>1
    <2> HIDE DEF h
    <2>3. item[h].stage = "queued" /\ item[h] \in ItemRecord
        BY <1>0, <2>2 DEF ChannelQueued
    <2>4. r.stage = "held" /\ item' = [item EXCEPT ![h] = r]
        BY <2>1, <2>2, <2>3 DEF ItemRecord, ItemsOK
    <2>5. r \in ItemRecord
        BY <2>3 DEF ItemRecord, Stages, Unsettled
    <2> HIDE DEF r
    <2>6. ItemsOK' /\ item'[h].stage = "held" /\ \A j \in Items \ {h} : item'[j] = item[j]
        BY <2>2, <2>4, <2>5 DEF ItemsOK
    <2>7. SlotHeld'
        BY <2>6 DEF SlotHeld, Slotted
    <2>8. CallsFresh' /\ RecoveryFresh'
        BY <1>1, <2>1, <2>3, <2>6, <2>7
    <2>9. ChannelQueued'
        <3> SUFFICES ASSUME NEW k \in 1 .. Len(channel'), NEW m \in 1 .. Len(channel')
                     PROVE  /\ item'[channel'[k]].stage = "queued"
                            /\ channel'[m] = channel'[k] => m = k
            BY DEF ChannelQueued
        <3>1. /\ 1 \in 1 .. Len(channel) /\ k + 1 \in 1 .. Len(channel) /\ m + 1 \in 1 .. Len(channel)
              /\ k + 1 # 1
            BY <2>2
        <3>2. /\ channel[k + 1] # h /\ item[channel[k + 1]].stage = "queued"
              /\ channel[m + 1] = channel[k + 1] => m + 1 = k + 1
            BY <2>2, <3>1 DEF ChannelQueued
        <3>3. QED
            BY <2>2, <2>6, <3>1, <3>2
    <2>10. QED
        BY <2>2, <2>6, <2>7, <2>8, <2>9
<1>9. CASE Dispatch
    <2>1. PICK i \in Items : /\ item[i].stage = "held"
                             /\ item' = [item EXCEPT ![i].stage = "spawned", ![i].slot = TRUE]
        BY <1>9 DEF Dispatch
    <2> DEFINE r == [item[i] EXCEPT !.stage = "spawned", !.slot = TRUE]
    <2>2. item' = [item EXCEPT ![i] = r]
        BY <1>0, <2>1 DEF ItemsOK
    <2>3. r.stage = "spawned" /\ r.slot
        BY <1>0 DEF ItemRecord
    <2>4. r \in ItemRecord
        BY <1>0 DEF ItemRecord, Stages, Unsettled, Running
    <2> HIDE DEF r
    <2>5. ItemsOK' /\ item'[i] = r /\ \A j \in Items \ {i} : item'[j] = item[j]
        BY <2>2, <2>4 DEF ItemsOK
    <2>6. SlotHeld'
        BY <2>3, <2>5 DEF SlotHeld
    <2>7. UNCHANGED <<call, claim, snapshot, channel>>
        BY <1>9 DEF Dispatch, keepCalls, callers, reconciler
    <2>8. QED
        BY <1>1, <1>2, <2>1, <2>5, <2>6, <2>7
<1>10. CASE DrainTimesOut
    <2>1. /\ item' = [i \in Items |-> IF i \in Abandoned THEN AtStage("aborted") ELSE item[i]]
          /\ channel' = <<>> /\ UNCHANGED <<call, claim, snapshot>>
        BY <1>10 DEF DrainTimesOut, reconciler
    <2>2. AtStage("aborted") \in ItemRecord /\ AtStage("aborted").stage = "aborted"
        BY <1>0, FreshItem
    <2>3. ItemsOK'
        BY <1>0, <2>1, <2>2 DEF ItemsOK
    <2>4. \A i \in Items : /\ i \in Abandoned => item'[i].stage = "aborted"
                           /\ i \notin Abandoned => item'[i] = item[i]
        BY <2>1, <2>2
    <2>5. SlotHeld'
        BY <2>4 DEF SlotHeld, Slotted
    <2>6. \A i \in Items : item[i].stage = "none" => i \notin Abandoned
        BY DEF Abandoned, Unsettled, Running, Leaving
    <2>7. CallsFresh' /\ RecoveryFresh'
        BY <1>1, <2>1, <2>3, <2>4, <2>5, <2>6
    <2>8. channel' \in Seq(Items) /\ ChannelQueued'
        BY <2>1 DEF ChannelQueued
    <2>9. QED
        BY <2>3, <2>5, <2>7, <2>8
<1>11. ASSUME NEW i \in Items, ItemStep(i) PROVE BufferOK' /\ StageInv'
    <2>1. /\ ItemsOK' /\ SlotHeld' /\ \A j \in Items \ {i} : item'[j] = item[j]
          /\ UNCHANGED <<call, claim, snapshot, channel>>
        BY <1>11, ItemStepFacts DEF OnlyItem, keepTask, buffer, reconciler
    <2>2. \/ item[i].stage \notin {"none", "queued"}
          \/ item[i].stage # "none" /\ item'[i].stage = item[i].stage
        BY <1>11, ItemStepFacts DEF Starts, GoesOn, Settles, Leaves, Uploading, Unsettled, Running,
                                    Leaving
    <2>3. QED
        BY <1>1, <1>2, <2>1, <2>2
<1>12. CASE Crash
    <2>1. /\ item' = [i \in Items |-> NoItem] /\ channel' = <<>>
          /\ claim' = "none" /\ snapshot' = {}
        BY <1>12 DEF Crash
    <2>2. NoItem \in ItemRecord /\ NoItem.stage = "none"
        BY <1>0, FreshItem
    <2>3. ItemsOK' /\ \A i \in Items : item'[i].stage = "none"
        BY <2>1, <2>2 DEF ItemsOK
    <2>4. SlotHeld' /\ CallsFresh' /\ RecoveryFresh'
        BY <1>0, <2>1, <2>3 DEF SlotHeld, Slotted, CallsFresh, RecoveryFresh
    <2>5. channel' \in Seq(Items) /\ ChannelQueued'
        BY <2>1 DEF ChannelQueued
    <2>6. QED
        BY <2>3, <2>4, <2>5
<1>13. QED
    BY <1>4, <1>5, <1>6, <1>7, <1>8, <1>9, <1>10, <1>11, <1>12, Steps
\* The shape and the stages, in every state.
LEMMA ShapeInvariant == Spec => [](Shape /\ StageInv)
<1>1. Init => Shape /\ StageInv
    <2> SUFFICES ASSUME Init PROVE Shape /\ StageInv
        OBVIOUS
    <2>1. NoItem \in ItemRecord /\ NoItem.stage = "none"
        BY FreshItem DEF Stages
    <2>2. ItemsOK /\ \A i \in Items : item[i].stage = "none"
        BY <2>1 DEF Init, ItemsOK
    <2>3. BufferOK /\ ChannelQueued /\ SlotHeld /\ CallsFresh /\ RecoveryFresh
        BY <2>2 DEF Init, BufferOK, ChannelQueued, SlotHeld, Slotted, CallsFresh, RecoveryFresh,
                    Items
    <2>4. FilesOK /\ CallersOK
        BY DEF Init, FilesOK, CallersOK, Pair, Absent, Outcomes
    <2>5. FlagsOK
        <3>1. failures \in 0 .. Threshold /\ worker = "select"
            BY QueueAssumption DEF Init
        <3>2. /\ closed \in BOOLEAN /\ senders \in BOOLEAN
              /\ shutdown \in BOOLEAN /\ draining \in BOOLEAN
            BY Zenon DEF Init
        <3>3. QED
            BY <3>1, <3>2 DEF FlagsOK
    <2>6. ReconcileOK
        BY QueueAssumption DEF Init, ReconcileOK
    <2>7. QED
        BY <2>3, <2>4, <2>5, <2>6 DEF Shape, StageInv
<1>2. Shape /\ StageInv /\ [Next]_vars => (Shape /\ StageInv)'
    <2>1. ASSUME Shape, StageInv, Next PROVE (Shape /\ StageInv)'
        BY <2>1, FilesTyped, CallersTyped, FlagsTyped, ReconcileTyped, StageStep DEF Shape
    <2>2. ASSUME Shape, StageInv, UNCHANGED vars PROVE (Shape /\ StageInv)'
        <3> USE <2>2 DEF Shape, StageInv, vars
        <3>1. FilesOK' /\ CallersOK'
            BY DEF FilesOK, CallersOK, callers
        <3>2. FlagsOK' /\ ReconcileOK'
            BY DEF FlagsOK, ReconcileOK, buffer, workers, reconciler
        <3>3. BufferOK' /\ ChannelQueued' /\ SlotHeld'
            BY DEF BufferOK, ItemsOK, ChannelQueued, SlotHeld, buffer
        <3>4. CallsFresh' /\ RecoveryFresh'
            BY DEF CallsFresh, RecoveryFresh, callers, reconciler
        <3>5. QED
            BY <3>1, <3>2, <3>3, <3>4
    <2>3. QED
        BY <2>1, <2>2
<1>3. QED
    BY <1>1, <1>2, PTL DEF Spec

-----------------------------------------------------------------------------
(* Nothing is lost.                                                         *)

\* The promise is made last: a caller still on its way has its files on disk
\* or a known outcome, and an item settles only what has one.
LossInv ==
    /\ NothingLost
    /\ \A a \in Artifacts :
         /\ promised[a] => call[a] = "done"
         /\ call[a] = "temp" => outcome[a] # "none" \/ disk[a].temp # "absent"
         /\ call[a] = "counted" =>
                outcome[a] # "none" \/ (disk[a].temp # "absent" /\ disk[a].sidecar)
    /\ \A i \in Items : item[i].stage = "settling" => outcome[Art(i)] # "none"

\* The files of a survive the step.
Survives(a) ==
    /\ disk[a].temp # "absent" => disk'[a].temp # "absent"
    /\ disk[a].sidecar => disk'[a].sidecar

\* No step loses a promised artifact: its pair stays on disk until an outcome
\* is recorded for it.
LEMMA LossStep ==
    ASSUME Shape, StageInv, LossInv, Next PROVE LossInv'
<1> USE DEF LossInv, NothingLost
<1>0. FilesOK /\ CallersOK /\ ItemsOK /\ SlotHeld /\ \A i \in Items : Art(i) \in Artifacts
    BY DEF Shape, StageInv, BufferOK, Items, Art
<1>1. ASSUME \A a \in Artifacts : outcome[a] # "none" => outcome'[a] # "none",
             \A a \in Artifacts : Survives(a) \/ outcome'[a] # "none",
             \A i \in Items : item'[i].stage = "settling" => outcome'[Art(i)] # "none",
             UNCHANGED <<promised, call>>
      PROVE  LossInv'
    BY <1>1 DEF Survives
<1>2. ASSUME \A i \in Items : item'[i].stage = "settling" => item[i].stage = "settling",
             \A a \in Artifacts : Survives(a), UNCHANGED <<promised, call, outcome>>
      PROVE  LossInv'
    BY <1>0, <1>1, <1>2
<1>3. ASSUME NEW S, NEW why \in Outcomes, Remove(S), Close(S \cap OnDisk, why),
             UNCHANGED <<promised, call, item>>
      PROVE  LossInv'
    <2>1. \A a \in Artifacts : outcome[a] # "none" => outcome'[a] # "none"
        BY <1>0, <1>3, CloseFacts
    <2>2. ASSUME NEW a \in Artifacts PROVE Survives(a) \/ outcome'[a] # "none"
        <3>1. CASE a \in S /\ a \in OnDisk
            BY <1>0, <1>3, <3>1, CloseFacts
        <3>2. CASE a \in S /\ a \notin OnDisk
            BY <3>2 DEF Survives, OnDisk
        <3>3. CASE a \notin S
            BY <1>0, <1>3, <3>3, RemoveFacts DEF Survives
        <3>4. QED
            BY <3>1, <3>2, <3>3
    <2>3. QED
        BY <1>0, <1>1, <1>3, <2>1, <2>2
<1>4. ASSUME NEW a \in Artifacts, Calls(a) PROVE LossInv'
    <2>0. UNCHANGED outcome /\ disk[a] \in Pair
        BY <1>0, <1>4 DEF Calls, Begin, Count, Submit, InlineDone, FilesOK
    <2>1. ASSUME item' = item \/ item' = [item EXCEPT ![<<a, "live">>] = AtStage("queued")],
                 \A b \in Artifacts \ {a} :
                     disk'[b] = disk[b] /\ call'[b] = call[b] /\ promised'[b] = promised[b],
                 promised'[a] => call'[a] = "done"
                                 /\ (outcome[a] # "none" \/ (disk'[a].temp # "absent" /\ disk'[a].sidecar)),
                 call'[a] = "temp" => outcome[a] # "none" \/ disk'[a].temp # "absent",
                 call'[a] = "counted" =>
                     outcome[a] # "none" \/ (disk'[a].temp # "absent" /\ disk'[a].sidecar)
          PROVE  LossInv'
        <3>1. \A i \in Items : item'[i].stage = "settling" => item[i].stage = "settling"
            <4>1. AtStage("queued").stage = "queued"
                BY FreshItem DEF Stages, Unsettled
            <4>2. QED
                BY <1>0, <2>1, <4>1 DEF ItemsOK
        <3>2. QED
            BY <1>0, <2>0, <2>1, <3>1
    <2>2. CASE Begin(a)
        <3>1. /\ item' = item /\ promised' = promised /\ call[a] = "idle"
              /\ \/ call'[a] = "done"
                 \/ call'[a] = "temp" /\ disk'[a].temp = "whole"
              /\ \A b \in Artifacts \ {a} : disk'[b] = disk[b] /\ call'[b] = call[b]
            BY <1>0, <2>0, <2>2 DEF Begin, FilesOK, CallersOK, Pair
        <3>2. ~promised[a]
            BY <3>1
        <3>3. QED
            BY <2>1, <3>1, <3>2
    <2>3. CASE Count(a)
        <3>1. /\ item' = item /\ promised' = promised /\ call[a] = "temp"
              /\ \/ call'[a] = "done"
                 \/ call'[a] = "counted" /\ disk'[a].temp = disk[a].temp /\ disk'[a].sidecar
              /\ \A b \in Artifacts \ {a} : disk'[b] = disk[b] /\ call'[b] = call[b]
            BY <1>0, <2>0, <2>3 DEF Count, FilesOK, CallersOK, Pair
        <3>2. ~promised[a]
            BY <3>1
        <3>3. QED
            BY <2>1, <3>1, <3>2
    <2>4. CASE Submit(a) /\ Accept(a)
        <3>1. /\ item' = [item EXCEPT ![<<a, "live">>] = AtStage("queued")]
              /\ call[a] = "counted" /\ call'[a] = "done" /\ disk' = disk
              /\ \A b \in Artifacts \ {a} : promised'[b] = promised[b] /\ call'[b] = call[b]
            BY <1>0, <2>4 DEF Submit, Accept, CallersOK
        <3>2. QED
            BY <2>1, <3>1
    <2>5. CASE Submit(a) /\ Refuse(a)
        <3>1. /\ item' = item /\ promised' = promised
              /\ call[a] = "counted" /\ call'[a] \in {"inline", "done"}
              /\ \A b \in Artifacts \ {a} : disk'[b] = disk[b] /\ call'[b] = call[b]
            BY <1>0, <2>5 DEF Submit, Refuse, FilesOK, CallersOK
        <3>2. ~promised[a]
            BY <3>1
        <3>3. QED
            BY <2>1, <3>1, <3>2
    <2>6. CASE InlineDone(a)
        <3>1. /\ item' = item /\ promised' = promised
              /\ call[a] = "inline" /\ call'[a] = "done"
              /\ \A b \in Artifacts \ {a} : disk'[b] = disk[b] /\ call'[b] = call[b]
            BY <1>0, <2>6 DEF InlineDone, FilesOK, CallersOK
        <3>2. ~promised[a]
            BY <3>1
        <3>3. QED
            BY <2>1, <3>1, <3>2
    <2>7. QED
        BY <1>4, <2>2, <2>3, <2>4, <2>5, <2>6 DEF Calls, Submit
<1>5. ASSUME NEW a \in Artifacts, RecoverOne(a) PROVE LossInv'
    <2>1. UNCHANGED <<promised, call>>
        BY <1>5 DEF RecoverOne, keepReconcile, callers
    <2>2. CASE /\ Remove({a})
               /\ \E why \in Outcomes : Close({a} \cap OnDisk, why)
               /\ item' = item
        BY <1>3, <2>1, <2>2
    <2>3. CASE UNCHANGED <<disk, outcome, item>>
        BY <1>2, <2>1, <2>3 DEF Survives
    <2>4. CASE /\ item' = [item EXCEPT ![<<a, "recovered">>] = AtStage("queued")]
               /\ UNCHANGED <<disk, outcome>>
        <3>1. AtStage("queued").stage = "queued"
            BY FreshItem DEF Stages, Unsettled
        <3>2. \A i \in Items : item'[i].stage = "settling" => item[i].stage = "settling"
            BY <1>0, <2>4, <3>1 DEF ItemsOK
        <3>3. QED
            BY <1>2, <2>1, <2>4, <3>2 DEF Survives
    <2>5. QED
        BY <1>5, <2>2, <2>3, <2>4, FaultsAreOutcomes DEF RecoverOne
<1>6. CASE Quiet
    BY <1>2, <1>6, QuietFacts DEF Survives, callers
<1>7. CASE Receive \/ Dispatch
    <2>1. UNCHANGED <<disk, outcome, promised, call>>
        BY <1>7 DEF Receive, Dispatch, keepCalls, callers
    <2>2. CASE Receive
        <3>1. item' = [item EXCEPT ![Head(channel)].stage = "held"]
            BY <2>2 DEF Receive
        <3>2. \A i \in Items : item'[i].stage = "settling" => item[i].stage = "settling"
            BY <1>0, <3>1 DEF ItemsOK, ItemRecord
        <3>3. QED
            BY <1>2, <2>1, <3>2 DEF Survives
    <2>3. CASE Dispatch
        <3>1. PICK i \in Items :
                  item' = [item EXCEPT ![i].stage = "spawned", ![i].slot = TRUE]
            BY <2>3 DEF Dispatch
        <3>2. \A j \in Items : item'[j].stage = "settling" => item[j].stage = "settling"
            BY <1>0, <3>1 DEF ItemsOK, ItemRecord
        <3>3. QED
            BY <1>2, <2>1, <3>2 DEF Survives
    <2>4. QED
        BY <1>7, <2>2, <2>3
<1>8. CASE DrainTimesOut
    <2>1. /\ item' = [i \in Items |-> IF i \in Abandoned THEN AtStage("aborted") ELSE item[i]]
          /\ UNCHANGED <<disk, outcome, promised, call>>
        BY <1>8 DEF DrainTimesOut
    <2>2. AtStage("aborted").stage = "aborted"
        BY FreshItem DEF Stages
    <2>3. \A i \in Items : item'[i].stage = "settling" => item[i].stage = "settling"
        BY <2>1, <2>2
    <2>4. QED
        BY <1>2, <2>1, <2>3 DEF Survives
<1>9. ASSUME NEW i \in Items, ItemStep(i) PROVE LossInv'
    <2>1. UNCHANGED <<promised, call>> /\ \A j \in Items \ {i} : item'[j] = item[j]
        BY <1>0, <1>9, ItemStepFacts DEF keepTask, OnlyItem
    <2>2. /\ \A a \in Artifacts : outcome[a] # "none" => outcome'[a] # "none"
          /\ \A a \in Artifacts : \/ disk'[a] = disk[a]
                                  \/ outcome'[a] # "none"
                                  \/ a = Art(i) /\ item[i].stage = "settling"
          /\ item'[i].stage = "settling" => outcome'[Art(i)] # "none"
        BY <1>0, <1>9, ItemFiles
    <2>3. \A a \in Artifacts : Survives(a) \/ outcome'[a] # "none"
        BY <2>2 DEF Survives
    <2>4. \A j \in Items : item'[j].stage = "settling" => outcome'[Art(j)] # "none"
        BY <1>0, <2>1, <2>2
    <2>5. QED
        BY <1>1, <2>1, <2>2, <2>3, <2>4
<1>10. CASE Reconciles
    <2>1. UNCHANGED <<promised, call, item>>
        BY <1>10, ReconcileFacts DEF callers
    <2>2. CASE StartRecovery
        BY <1>2, <2>1, <2>2 DEF StartRecovery, Survives
    <2>3. CASE CleanupOrphans
        <3>1. {a \in OnDisk : disk[a].old} = {a \in Artifacts : disk[a].old} \cap OnDisk
            BY DEF OnDisk
        <3>2. QED
            BY <1>3, <2>1, <2>3, <3>1 DEF CleanupOrphans, Outcomes
    <2>4. CASE Purge
        <3>1. OnDisk = Artifacts \cap OnDisk
            BY DEF OnDisk
        <3>2. QED
            BY <1>3, <2>1, <2>4, <3>1 DEF Purge, Outcomes
    <2>5. ASSUME NEW a \in Artifacts, PairExpires(a) PROVE LossInv'
        <3>1. outcome' = outcome /\ \A b \in Artifacts : Survives(b)
            BY <1>0, <2>5 DEF PairExpires, Survives, FilesOK, Pair
        <3>2. QED
            BY <1>2, <2>1, <3>1
    <2>6. QED
        BY <1>10, <2>2, <2>3, <2>4, <2>5 DEF Reconciles
<1>11. CASE Crash
    <2>1. \A a \in Artifacts : Survives(a)
        <3>1. PICK torn \in SUBSET {a \in Artifacts : disk[a].temp = "whole"} :
                  disk' = [a \in Artifacts |->
                             IF a \in torn THEN [disk[a] EXCEPT !.temp = "torn"] ELSE disk[a]]
            BY <1>11 DEF Crash
        <3>2. QED
            BY <1>0, <3>1 DEF Survives, FilesOK, Pair
    <2>2. /\ UNCHANGED <<outcome, promised>>
          /\ \A a \in Artifacts : call'[a] = IF call[a] = "idle" THEN "idle" ELSE "done"
        BY <1>11 DEF Crash
    <2>3. \A i \in Items : item'[i].stage = "none"
        BY <1>11 DEF Crash, NoItem
    <2>4. QED
        BY <2>1, <2>2, <2>3 DEF Survives
<1>12. QED
    BY <1>4, <1>5, <1>6, <1>7, <1>8, <1>9, <1>10, <1>11, Steps

\* An artifact the queue promised to own keeps its bytes and its manifest on
\* disk until its outcome is known, through crashes, aborted drains, racing
\* scans and refused re-enqueues.
THEOREM PromisesSurvive == Spec => []NothingLost
<1>1. Init => LossInv
    BY DEF Init, LossInv, NothingLost, NoItem
<1>2. Shape /\ StageInv /\ LossInv /\ [Next]_vars => LossInv'
    <2>1. ASSUME LossInv, UNCHANGED vars PROVE LossInv'
        BY <2>1 DEF LossInv, NothingLost, vars, callers
    <2>2. QED
        BY <2>1, LossStep
<1>3. LossInv => NothingLost
    BY DEF LossInv
<1>4. QED
    BY <1>1, <1>2, <1>3, ShapeInvariant, PTL DEF Spec
-----------------------------------------------------------------------------
(* The counters.                                                            *)

\* The call behind item i is counted ahead of its hand-off.
Counted(i) == i[2] = "live" /\ call[Art(i)] = "counted"
Holds(i) == item[i].stage \in Unsettled \cup {"aborted"} \/ Counted(i)

\* What each item contributes: to pending, to inflight (an aborted item may
\* have been counted and is never taken off), to the permits in use, and to
\* pendingBytes (what its settlement will take off).
holding == [i \in Items |-> IF Holds(i) THEN 1 ELSE 0]
uploading == [i \in Items |-> IF item[i].stage \in Uploading THEN 1 ELSE 0]
aloft == [i \in Items |-> IF item[i].stage \in Uploading \cup {"aborted"} THEN 1 ELSE 0]
slots == [i \in Items |-> IF item[i].slot THEN 1 ELSE 0]
owed == [i \in Items |-> IF ~Holds(i) THEN 0
                         ELSE IF item[i].stage \in {"none", "queued", "held", "spawned"}
                              THEN Size[Art(i)] ELSE item[i].bytes]

CountInv ==
    /\ Summable(holding) /\ pending = Total(holding)
    /\ Summable(uploading) /\ Summable(aloft)
    /\ inflight \in Nat /\ Total(uploading) <= inflight /\ inflight <= Total(aloft)
    /\ Summable(slots) /\ permits \in Nat /\ permits + Total(slots) <= MaxConcurrent
    /\ Summable(owed) /\ pendingBytes \in Nat /\ Total(owed) <= pendingBytes

\* Every weight is a natural number.
LEMMA WeightTypes ==
    ASSUME ItemsOK
    PROVE  /\ holding \in [Items -> Nat] /\ uploading \in [Items -> Nat]
           /\ aloft \in [Items -> Nat] /\ slots \in [Items -> Nat] /\ owed \in [Items -> Nat]
<1>1. \A i \in Items : item[i].bytes \in Nat /\ Size[Art(i)] \in Nat
    BY QueueAssumption DEF ItemsOK, ItemRecord, Items, Art
<1>2. owed \in [Items -> Nat]
    BY <1>1 DEF owed
<1>3. QED
    BY <1>2 DEF holding, uploading, aloft, slots

\* One item moves: the counters stay exact when they change by its weights.
LEMMA CountMove ==
    ASSUME ItemsOK, ItemsOK', CountInv, NEW k \in Items,
           \A j \in Items \ {k} : item'[j] = item[j] /\ (Counted(j)' <=> Counted(j)),
           pending' = pending - holding[k] + holding'[k],
           inflight' = inflight - uploading[k] + uploading'[k],
           aloft'[k] + uploading[k] = aloft[k] + uploading'[k],
           permits' \in Nat, permits' + slots'[k] <= permits + slots[k],
           pendingBytes' \in Int, pendingBytes + owed'[k] <= pendingBytes' + owed[k]
    PROVE  CountInv'
<1> USE DEF CountInv
<1>0. MaxConcurrent \in Nat
    BY QueueAssumption
<1>1. /\ holding' \in [Items -> Nat] /\ uploading' \in [Items -> Nat]
      /\ aloft' \in [Items -> Nat] /\ slots' \in [Items -> Nat] /\ owed' \in [Items -> Nat]
    <2>1. \A i \in Items : item'[i].bytes \in Nat /\ Size[Art(i)] \in Nat
        BY QueueAssumption DEF ItemsOK, ItemRecord, Items, Art
    <2>2. owed' \in [Items -> Nat]
        BY <2>1 DEF owed
    <2>3. QED
        BY <2>2 DEF holding, uploading, aloft, slots
<1>2. /\ holding \in [Items -> Nat] /\ uploading \in [Items -> Nat]
      /\ aloft \in [Items -> Nat] /\ slots \in [Items -> Nat] /\ owed \in [Items -> Nat]
    BY WeightTypes
<1>3. \A j \in Items \ {k} : /\ holding'[j] = holding[j] /\ uploading'[j] = uploading[j]
                             /\ aloft'[j] = aloft[j] /\ slots'[j] = slots[j]
                             /\ owed'[j] = owed[j]
    BY DEF holding, uploading, aloft, slots, owed, Holds
<1>4. /\ Summable(holding') /\ Total(holding') = Total(holding) - holding[k] + holding'[k]
      /\ Summable(uploading') /\ Total(uploading') = Total(uploading) - uploading[k] + uploading'[k]
      /\ Summable(aloft') /\ Total(aloft') = Total(aloft) - aloft[k] + aloft'[k]
      /\ Summable(slots') /\ Total(slots') = Total(slots) - slots[k] + slots'[k]
      /\ Summable(owed') /\ Total(owed') = Total(owed) - owed[k] + owed'[k]
    <2>1. Summable(holding') /\ Total(holding') = Total(holding) - holding[k] + holding'[k]
        <3>1. /\ Summable(holding) /\ holding' \in [Items -> Nat]
              /\ \A j \in Items \ {k} : holding'[j] = holding[j]
            BY <1>1, <1>3
        <3>2. QED
            BY <3>1, TotalUpdate
    <2>2. Summable(uploading') /\ Total(uploading') = Total(uploading) - uploading[k] + uploading'[k]
        <3>1. /\ Summable(uploading) /\ uploading' \in [Items -> Nat]
              /\ \A j \in Items \ {k} : uploading'[j] = uploading[j]
            BY <1>1, <1>3
        <3>2. QED
            BY <3>1, TotalUpdate
    <2>3. Summable(aloft') /\ Total(aloft') = Total(aloft) - aloft[k] + aloft'[k]
        <3>1. /\ Summable(aloft) /\ aloft' \in [Items -> Nat]
              /\ \A j \in Items \ {k} : aloft'[j] = aloft[j]
            BY <1>1, <1>3
        <3>2. QED
            BY <3>1, TotalUpdate
    <2>4. Summable(slots') /\ Total(slots') = Total(slots) - slots[k] + slots'[k]
        <3>1. /\ Summable(slots) /\ slots' \in [Items -> Nat]
              /\ \A j \in Items \ {k} : slots'[j] = slots[j]
            BY <1>1, <1>3
        <3>2. QED
            BY <3>1, TotalUpdate
    <2>5. Summable(owed') /\ Total(owed') = Total(owed) - owed[k] + owed'[k]
        <3>1. /\ Summable(owed) /\ owed' \in [Items -> Nat]
              /\ \A j \in Items \ {k} : owed'[j] = owed[j]
            BY <1>1, <1>3
        <3>2. QED
            BY <3>1, TotalUpdate
    <2>6. QED
        BY <2>1, <2>2, <2>3, <2>4, <2>5
<1>5. /\ Total(holding) \in Nat /\ Total(uploading) \in Nat /\ Total(aloft) \in Nat
      /\ Total(slots) \in Nat /\ Total(owed) \in Nat
      /\ Total(holding') \in Nat /\ Total(uploading') \in Nat /\ Total(aloft') \in Nat
      /\ Total(slots') \in Nat /\ Total(owed') \in Nat
    BY <1>4, TotalType
<1>6. /\ holding[k] \in Nat /\ uploading[k] \in Nat /\ aloft[k] \in Nat /\ slots[k] \in Nat
      /\ owed[k] \in Nat /\ holding'[k] \in Nat /\ uploading'[k] \in Nat /\ aloft'[k] \in Nat
      /\ slots'[k] \in Nat /\ owed'[k] \in Nat
    BY <1>1, <1>2
<1>7. pending' = Total(holding')
    BY <1>4
<1>8. inflight' \in Nat /\ Total(uploading') <= inflight' /\ inflight' <= Total(aloft')
    BY <1>4, <1>5, <1>6
<1>9. permits' + Total(slots') <= MaxConcurrent
    BY <1>0, <1>4, <1>5, <1>6
<1>10. pendingBytes' \in Nat /\ Total(owed') <= pendingBytes'
    BY <1>4, <1>5, <1>6
<1>11. QED
    <2>1. /\ Summable(holding)' /\ Summable(uploading)' /\ Summable(aloft)' /\ Summable(slots)'
          /\ Summable(owed)'
        BY <1>4 DEF Summable, Units
    <2>2. QED
        BY <1>7, <1>8, <1>9, <1>10, <2>1 DEF Total, Units

\* Every step keeps the counters exact: each caller counts before it hands
\* off, each task takes off what was counted for it, once.
LEMMA CountStep ==
    ASSUME Shape, StageInv, CountInv, Next PROVE CountInv'
<1>0. /\ ItemsOK /\ ItemsOK' /\ CallersOK /\ SlotHeld
      /\ \A a \in Artifacts : Size[a] \in Nat
      /\ \A i \in Items : item[i] \in ItemRecord /\ Art(i) \in Artifacts /\ item[i].bytes \in Nat
      /\ pending \in Nat /\ inflight \in Nat /\ permits \in Nat /\ pendingBytes \in Nat
    <2>1. ItemsOK'
        BY StageStep DEF BufferOK
    <2>2. pending \in Nat
        BY TotalType DEF CountInv
    <2>3. QED
        BY <2>1, <2>2, QueueAssumption
           DEF CountInv, Shape, StageInv, BufferOK, ItemsOK, ItemRecord, Items, Art
<1>1. ASSUME item' = item, \A j \in Items : Counted(j)' <=> Counted(j),
             UNCHANGED <<stats, permits>>
      PROVE  CountInv'
    <2>1. holding' = holding /\ uploading' = uploading /\ aloft' = aloft /\ slots' = slots
        BY <1>1 DEF holding, uploading, aloft, slots, Holds
    <2>2. owed' = owed
        BY <1>1 DEF owed, Holds
    <2>3. QED
        BY <1>1, <2>1, <2>2 DEF CountInv, stats
<1>2. ASSUME UNCHANGED <<item, call, stats, permits>> PROVE CountInv'
    BY <1>1, <1>2 DEF Counted
<1>3. ASSUME NEW k \in Items PROVE
          /\ holding[k] = IF Holds(k) THEN 1 ELSE 0
          /\ uploading[k] = IF item[k].stage \in Uploading THEN 1 ELSE 0
          /\ aloft[k] = IF item[k].stage \in Uploading \cup {"aborted"} THEN 1 ELSE 0
          /\ slots[k] = IF item[k].slot THEN 1 ELSE 0
          /\ owed[k] = IF ~Holds(k) THEN 0
                       ELSE IF item[k].stage \in {"none", "queued", "held", "spawned"}
                            THEN Size[Art(k)] ELSE item[k].bytes
    BY DEF holding, uploading, aloft, slots, owed
<1>4. ASSUME NEW k \in Items PROVE
          /\ holding'[k] = IF Holds(k)' THEN 1 ELSE 0
          /\ uploading'[k] = IF item'[k].stage \in Uploading THEN 1 ELSE 0
          /\ aloft'[k] = IF item'[k].stage \in Uploading \cup {"aborted"} THEN 1 ELSE 0
          /\ slots'[k] = IF item'[k].slot THEN 1 ELSE 0
          /\ owed'[k] = IF ~Holds(k)' THEN 0
                        ELSE IF item'[k].stage \in {"none", "queued", "held", "spawned"}
                             THEN Size[Art(k)] ELSE item'[k].bytes
    BY DEF holding, uploading, aloft, slots, owed
<1>5. ASSUME NEW a \in Artifacts, Calls(a) PROVE CountInv'
    <2> DEFINE k == <<a, "live">>
    <2>1. /\ k \in Items /\ Art(k) = a /\ (Counted(k) <=> call[a] = "counted")
          /\ Counted(k)' <=> call'[a] = "counted"
          /\ call[a] \in {"temp", "counted"} => item[k].stage = "none"
        BY DEF Items, Art, Counted, StageInv, CallsFresh
    <2>2. \A j \in Items \ {k} : Counted(j)' <=> Counted(j)
        <3>1. \A b \in Artifacts \ {a} : call'[b] = call[b]
            BY <1>0, <1>5 DEF Calls, Begin, Count, Submit, Accept, Refuse, InlineDone, CallersOK
        <3>2. QED
            BY <3>1 DEF Counted, Items, Art
    <2>3. UNCHANGED <<inflight, permits>>
        BY <1>5 DEF Calls, Begin, Count, Submit, InlineDone, keepQueue, stats, workers
    <2> HIDE DEF k
    <2>4. CASE UNCHANGED <<item, pending, pendingBytes>> /\ call[a] # "counted" /\ call'[a] # "counted"
        BY <1>1, <2>1, <2>2, <2>3, <2>4 DEF stats
    <2>5. CASE /\ call[a] = "temp" /\ call'[a] = "counted" /\ item' = item
               /\ pending' = pending + 1 /\ pendingBytes' = pendingBytes + Size[a]
        <3>1. item[k].stage = "none" /\ ~Holds(k) /\ Holds(k)'
            BY <2>1, <2>5 DEF Holds, Unsettled, Running, Leaving
        <3>2. QED
            BY <1>0, <1>3, <1>4, <2>1, <2>2, <2>3, <2>5, <3>1, CountMove DEF Uploading
    <2>6. CASE /\ call[a] = "counted" /\ call'[a] # "counted" /\ item' = item
               /\ pending' = pending - 1 /\ pendingBytes' = pendingBytes - Size[a]
        <3>1. item[k].stage = "none" /\ Holds(k) /\ ~Holds(k)'
            BY <2>1, <2>6 DEF Holds, Unsettled, Running, Leaving
        <3>2. QED
            BY <1>0, <1>3, <1>4, <2>1, <2>2, <2>3, <2>6, <3>1, CountMove DEF Uploading
    <2>7. CASE /\ call[a] = "counted" /\ call'[a] # "counted"
               /\ item' = [item EXCEPT ![k] = AtStage("queued")]
               /\ UNCHANGED <<pending, pendingBytes>>
        <3>1. item[k].stage = "none" /\ item'[k] = AtStage("queued")
              /\ \A j \in Items \ {k} : item'[j] = item[j]
            BY <1>0, <2>1, <2>7 DEF ItemsOK
        <3>2. item'[k].stage = "queued" /\ ~item'[k].slot
            BY <3>1, FreshItem DEF Stages, Unsettled
        <3>3. Holds(k) /\ Holds(k)'
            BY <2>1, <2>7, <3>2 DEF Holds, Unsettled
        <3>4. QED
            BY <1>0, <1>3, <1>4, <2>1, <2>2, <2>3, <2>7, <3>1, <3>2, <3>3, CountMove DEF Uploading
    <2>8. CASE Begin(a) \/ InlineDone(a)
        <3>1. /\ UNCHANGED <<item, pending, pendingBytes>>
              /\ call[a] # "counted" /\ call'[a] # "counted"
            BY <1>0, <2>8 DEF Begin, InlineDone, CallersOK, stats
        <3>2. QED
            BY <2>4, <3>1
    <2>9. CASE Count(a)
        <3>1. /\ item' = item /\ call[a] = "temp"
              /\ \/ /\ call'[a] = "counted" /\ pending' = pending + 1
                    /\ pendingBytes' = pendingBytes + Size[a]
                 \/ call'[a] # "counted" /\ UNCHANGED <<pending, pendingBytes>>
            BY <1>0, <2>9 DEF Count, CallersOK
        <3>2. QED
            BY <2>4, <2>5, <3>1
    <2>10. CASE Submit(a)
        <3>1. CASE Accept(a)
            <4>1. /\ call[a] = "counted" /\ call'[a] # "counted"
                  /\ item' = [item EXCEPT ![k] = AtStage("queued")]
                  /\ UNCHANGED <<pending, pendingBytes>>
                BY <1>0, <2>10, <3>1 DEF Submit, Accept, CallersOK, k
            <4>2. QED
                BY <2>7, <4>1
        <3>2. CASE Refuse(a)
            <4>1. /\ call[a] = "counted" /\ call'[a] # "counted" /\ item' = item
                  /\ pending' = pending - 1 /\ pendingBytes' = pendingBytes - Size[a]
                BY <1>0, <2>10, <3>2 DEF Submit, Refuse, CallersOK
            <4>2. QED
                BY <2>6, <4>1
        <3>3. QED
            BY <2>10, <3>1, <3>2 DEF Submit
    <2>11. QED
        BY <1>5, <2>8, <2>9, <2>10 DEF Calls
<1>6. ASSUME NEW a \in Artifacts, RecoverOne(a) PROVE CountInv'
    <2> DEFINE k == <<a, "recovered">>
    <2>1. /\ UNCHANGED <<call, inflight, permits>> /\ a \in snapshot
        BY <1>6 DEF RecoverOne, keepReconcile, callers, workers
    <2>2. CASE UNCHANGED <<item, pending, pendingBytes>>
        BY <1>2, <2>1, <2>2 DEF stats
    <2>3. CASE /\ item' = [item EXCEPT ![k] = AtStage("queued")]
               /\ pending' = pending + 1 /\ pendingBytes' = pendingBytes + Size[a]
        <3>1. /\ k \in Items /\ Art(k) = a /\ item[k].stage = "none"
              /\ ~Counted(k) /\ ~Counted(k)'
            BY <2>1 DEF Items, Art, Counted, StageInv, RecoveryFresh
        <3> HIDE DEF k
        <3>2. item'[k] = AtStage("queued") /\ \A j \in Items \ {k} : item'[j] = item[j]
            BY <1>0, <2>3, <3>1 DEF ItemsOK
        <3>3. item'[k].stage = "queued" /\ ~item'[k].slot
            BY <3>2, FreshItem DEF Stages, Unsettled
        <3>4. ~Holds(k) /\ Holds(k)'
            BY <3>1, <3>3 DEF Holds, Unsettled, Running, Leaving
        <3>5. \A j \in Items \ {k} : Counted(j)' <=> Counted(j)
            BY <2>1 DEF Counted
        <3>6. QED
            BY <1>0, <1>3, <1>4, <2>1, <2>3, <3>1, <3>2, <3>3, <3>4, <3>5, CountMove DEF Uploading
    <2>4. QED
        BY <1>6, <2>2, <2>3 DEF RecoverOne
<1>7. CASE Quiet
    BY <1>2, <1>7, QuietFacts DEF callers
<1>8. CASE Reconciles
    BY <1>2, <1>8, ReconcileFacts DEF callers, workers
<1>9. CASE Receive
    <2>1. /\ channel # <<>> /\ item' = [item EXCEPT ![Head(channel)].stage = "held"]
          /\ UNCHANGED <<call, stats, permits>>
        BY <1>9 DEF Receive, keepCalls, callers
    <2>2. PICK k \in Items : k = Head(channel) /\ item[k].stage = "queued"
        BY <2>1 DEF Shape, BufferOK, StageInv, ChannelQueued
    <2>3. /\ item'[k].stage = "held" /\ item'[k].bytes = item[k].bytes
          /\ item'[k].slot <=> item[k].slot
          /\ \A j \in Items \ {k} : item'[j] = item[j]
        BY <1>0, <2>1, <2>2 DEF ItemsOK, ItemRecord
    <2>4. \A j \in Items : Counted(j)' <=> Counted(j)
        BY <2>1 DEF Counted
    <2>5. Holds(k) /\ Holds(k)'
        BY <2>2, <2>3 DEF Holds, Unsettled
    <2>6. QED
        BY <1>0, <1>3, <1>4, <2>1, <2>2, <2>3, <2>4, <2>5, CountMove DEF Uploading, stats
<1>10. CASE Dispatch
    <2>1. /\ permits > 0 /\ permits' = permits - 1 /\ UNCHANGED <<call, stats>>
        BY <1>10 DEF Dispatch, keepCalls, callers
    <2>2. PICK k \in Items : /\ item[k].stage = "held"
                             /\ item' = [item EXCEPT ![k].stage = "spawned", ![k].slot = TRUE]
        BY <1>10 DEF Dispatch
    <2>3. /\ item'[k].stage = "spawned" /\ item'[k].bytes = item[k].bytes
          /\ item'[k].slot
          /\ \A j \in Items \ {k} : item'[j] = item[j]
        BY <1>0, <2>2 DEF ItemsOK, ItemRecord
    <2>4. \A j \in Items : Counted(j)' <=> Counted(j)
        BY <2>1 DEF Counted
    <2>5. Holds(k) /\ Holds(k)'
        BY <2>2, <2>3 DEF Holds, Unsettled, Running
    <2>6. /\ holding'[k] = 1 /\ holding[k] = 1 /\ uploading'[k] = 0 /\ uploading[k] = 0
          /\ aloft'[k] = 0 /\ aloft[k] = 0 /\ owed'[k] = Size[Art(k)] /\ owed[k] = Size[Art(k)]
        BY <1>3, <1>4, <2>2, <2>3, <2>5 DEF Uploading
    <2>7. permits' \in Nat /\ permits' + slots'[k] <= permits + slots[k]
        BY <1>0, <1>3, <1>4, <2>1, <2>3
    <2>8. QED
        BY <1>0, <2>1, <2>3, <2>4, <2>6, <2>7, CountMove DEF stats
<1>11. ASSUME NEW k \in Items, ItemStep(k) PROVE CountInv'
    <2>1. /\ UNCHANGED call /\ \A j \in Items \ {k} : item'[j] = item[j]
          /\ Starts(k) \/ GoesOn(k) \/ Settles(k) \/ Leaves(k)
        BY <1>0, <1>11, ItemStepFacts DEF keepTask, OnlyItem
    <2>2. \A j \in Items : Counted(j)' <=> Counted(j)
        BY <2>1 DEF Counted
    <2>3. Counted(k) => item[k].stage = "none"
        BY <1>0 DEF Counted, StageInv, CallsFresh, Items, Art
    <2>4. Uploading \subseteq Unsettled /\ "spawned" \in Unsettled /\ "leaving" \in Unsettled
          /\ "none" \notin Unsettled /\ "done" \notin Unsettled /\ "aborted" \notin Unsettled
        BY DEF Uploading, Unsettled, Running, Leaving
    <2>5. CASE Starts(k)
        <3>1. Holds(k) /\ Holds(k)'
            BY <2>4, <2>5 DEF Holds, Starts, Uploading
        <3>2. item'[k].bytes \in Nat
            BY <1>0 DEF ItemsOK, ItemRecord
        <3>3. QED
            BY <1>0, <1>3, <1>4, <2>1, <2>2, <2>5, <3>1, <3>2, CountMove DEF Starts, Uploading
    <2>6. CASE GoesOn(k)
        <3>1. Holds(k) /\ Holds(k)'
            BY <2>4, <2>6 DEF Holds, GoesOn
        <3>2. /\ holding'[k] = holding[k] /\ uploading'[k] = uploading[k] /\ aloft'[k] = aloft[k]
              /\ owed'[k] = owed[k]
            BY <1>3, <1>4, <2>6, <3>1 DEF GoesOn, Uploading
        <3>3. permits' \in Nat /\ permits' + slots'[k] <= permits + slots[k]
            BY <1>0, <1>3, <1>4, <2>6 DEF GoesOn, PermitMoves
        <3>4. holding[k] \in Nat /\ uploading[k] \in Nat /\ aloft[k] \in Nat /\ owed[k] \in Nat
            BY <1>0, WeightTypes
        <3>5. UNCHANGED <<pending, pendingBytes, inflight>>
            BY <2>6 DEF GoesOn, stats
        <3>6. QED
            BY <1>0, <2>1, <2>2, <3>2, <3>3, <3>4, <3>5, CountMove
    <2>7. CASE Settles(k)
        <3>1. Holds(k) /\ Holds(k)'
            BY <2>4, <2>7 DEF Holds, Settles, Uploading
        <3>2. QED
            BY <1>0, <1>3, <1>4, <2>1, <2>2, <2>7, <3>1, CountMove DEF Settles, Uploading
    <2>8. CASE Leaves(k)
        <3>1. Holds(k) /\ ~Holds(k)'
            BY <2>2, <2>3, <2>4, <2>8 DEF Holds, Leaves
        <3>2. permits' \in Nat /\ permits' + slots'[k] <= permits + slots[k]
            BY <1>0, <1>3, <1>4, <2>8 DEF Leaves
        <3>3. QED
            BY <1>0, <1>3, <1>4, <2>1, <2>2, <2>8, <3>1, <3>2, CountMove DEF Leaves, Uploading
    <2>9. QED
        BY <2>1, <2>5, <2>6, <2>7, <2>8
<1>12. CASE DrainTimesOut
    <2>1. /\ item' = [i \in Items |-> IF i \in Abandoned THEN AtStage("aborted") ELSE item[i]]
          /\ UNCHANGED <<call, stats, permits>>
        BY <1>12 DEF DrainTimesOut
    <2>2. AtStage("aborted").stage = "aborted" /\ AtStage("aborted").bytes = 0
          /\ ~AtStage("aborted").slot
        BY FreshItem DEF Stages
    <2>3. \A i \in Items : Counted(i)' <=> Counted(i)
        BY <2>1 DEF Counted
    <2>4. ASSUME NEW i \in Items
          PROVE  /\ holding'[i] = holding[i] /\ uploading'[i] <= uploading[i]
                 /\ aloft[i] <= aloft'[i] /\ aloft'[i] <= holding'[i]
                 /\ slots'[i] <= slots[i] /\ owed'[i] <= owed[i]
        <3>0. /\ holding[i] \in Nat /\ uploading[i] \in Nat /\ aloft[i] \in Nat /\ slots[i] \in Nat
              /\ owed[i] \in Nat
            BY <1>0, <2>4, WeightTypes
        <3>1. CASE i \in Abandoned
            <4>1. /\ item'[i].stage = "aborted" /\ item'[i].bytes = 0 /\ ~item'[i].slot
                  /\ item[i].stage \in Unsettled
                BY <2>1, <2>2, <3>1 DEF Abandoned
            <4>2. Holds(i) /\ Holds(i)'
                BY <4>1 DEF Holds
            <4>3. QED
                BY <1>3, <1>4, <3>0, <4>1, <4>2 DEF Uploading
        <3>2. CASE i \notin Abandoned
            <4>1. item'[i] = item[i] /\ (Holds(i)' <=> Holds(i))
                BY <2>1, <2>3, <3>2 DEF Holds
            <4>2. item[i].stage \in Uploading \cup {"aborted"} => Holds(i)
                BY DEF Holds, Uploading, Unsettled, Running, Leaving
            <4>3. QED
                BY <1>3, <1>4, <3>0, <4>1, <4>2
        <3>3. QED
            BY <3>1, <3>2
    <2>5. /\ holding' \in [Items -> Nat] /\ uploading' \in [Items -> Nat]
          /\ aloft' \in [Items -> Nat] /\ slots' \in [Items -> Nat] /\ owed' \in [Items -> Nat]
        <3>1. \A i \in Items : item'[i].bytes \in Nat
            BY <1>0 DEF ItemsOK, ItemRecord
        <3>2. owed' \in [Items -> Nat]
            BY <1>0, <3>1 DEF owed
        <3>3. QED
            BY <3>2 DEF holding, uploading, aloft, slots
    <2>6. holding' = holding
        BY <1>0, <2>4, <2>5, WeightTypes
    <2>7. /\ Summable(holding) /\ Summable(uploading) /\ Summable(aloft) /\ Summable(slots)
          /\ Summable(owed)
        BY DEF CountInv
    <2>8. Summable(uploading') /\ Total(uploading') <= Total(uploading)
        BY <2>4, <2>5, <2>7, TotalMonotone
    <2>9. Summable(slots') /\ Total(slots') <= Total(slots)
        BY <2>4, <2>5, <2>7, TotalMonotone
    <2>10. Summable(owed') /\ Total(owed') <= Total(owed)
        BY <2>4, <2>5, <2>7, TotalMonotone
    <2>11. Summable(aloft')
        BY <2>4, <2>5, <2>6, <2>7, TotalMonotone
    <2>12. Total(aloft) <= Total(aloft')
        BY <2>4, <2>7, <2>11, TotalMonotone DEF Summable
    <2>13. /\ Total(uploading) \in Nat /\ Total(slots) \in Nat /\ Total(owed) \in Nat
           /\ Total(aloft) \in Nat /\ Total(uploading') \in Nat /\ Total(slots') \in Nat
           /\ Total(owed') \in Nat /\ Total(aloft') \in Nat /\ MaxConcurrent \in Nat
        BY <2>7, <2>8, <2>9, <2>10, <2>11, TotalType, QueueAssumption
    <2>14. /\ pending' = Total(holding') /\ inflight' \in Nat
           /\ Total(uploading') <= inflight' /\ inflight' <= Total(aloft')
           /\ permits' \in Nat /\ permits' + Total(slots') <= MaxConcurrent
           /\ pendingBytes' \in Nat /\ Total(owed') <= pendingBytes'
        <3>1. UNCHANGED <<pending, inflight, permits, pendingBytes>>
            BY <2>1 DEF stats
        <3>2. QED
            BY <2>6, <2>8, <2>9, <2>10, <2>12, <2>13, <3>1 DEF CountInv
    <2>15. /\ Summable(holding)' /\ Summable(uploading)' /\ Summable(aloft)' /\ Summable(slots)'
           /\ Summable(owed)'
        BY <2>6, <2>7, <2>8, <2>9, <2>10, <2>11 DEF Summable, Units
    <2>16. QED
        BY <2>14, <2>15 DEF CountInv, Total, Units
<1>13. CASE Crash
    <2>1. /\ pending' = 0 /\ pendingBytes' = 0 /\ inflight' = 0 /\ permits' = MaxConcurrent
          /\ item' = [i \in Items |-> NoItem] /\ \A a \in Artifacts : call'[a] # "counted"
        BY <1>13 DEF Crash
    <2>2. \A i \in Items : item'[i].stage = "none" /\ ~item'[i].slot
        BY <2>1, FreshItem DEF Stages
    <2>3. \A i \in Items : ~Holds(i)'
        BY <1>0, <2>1, <2>2 DEF Holds, Counted, Unsettled, Running, Leaving
    <2>4. \A i \in Items : holding'[i] = 0 /\ uploading'[i] = 0 /\ aloft'[i] = 0 /\ slots'[i] = 0
                           /\ owed'[i] = 0
        BY <1>4, <2>2, <2>3 DEF Uploading
    <2>5. /\ holding' \in [Items -> Nat] /\ uploading' \in [Items -> Nat]
          /\ aloft' \in [Items -> Nat] /\ slots' \in [Items -> Nat] /\ owed' \in [Items -> Nat]
        BY <2>4 DEF holding, uploading, aloft, slots, owed
    <2>6. /\ Summable(holding') /\ Total(holding') = 0
          /\ Summable(uploading') /\ Total(uploading') = 0
          /\ Summable(aloft') /\ Total(aloft') = 0
          /\ Summable(slots') /\ Total(slots') = 0
          /\ Summable(owed') /\ Total(owed') = 0
        BY <2>4, <2>5, TotalZero
    <2>7. /\ Summable(holding)' /\ Summable(uploading)' /\ Summable(aloft)' /\ Summable(slots)'
          /\ Summable(owed)'
        BY <2>6 DEF Summable, Units
    <2>8. QED
        BY <2>1, <2>6, <2>7, QueueAssumption DEF CountInv, Total, Units
<1>14. QED
    BY <1>5, <1>6, <1>7, <1>8, <1>9, <1>10, <1>11, <1>12, <1>13, Steps

\* The counters are exact in every state.
LEMMA CountInvariant == Spec => []CountInv
<1>1. Init => CountInv
    <2> SUFFICES ASSUME Init PROVE CountInv
        OBVIOUS
    <2>1. NoItem.stage = "none" /\ ~NoItem.slot
        BY FreshItem DEF Stages
    <2>2. \A i \in Items : item[i].stage = "none" /\ ~item[i].slot /\ ~Counted(i)
        BY <2>1 DEF Init, Counted, Items, Art
    <2>3. \A i \in Items : ~Holds(i)
        BY <2>2 DEF Holds, Unsettled, Running, Leaving
    <2>4. \A i \in Items : holding[i] = 0 /\ uploading[i] = 0 /\ aloft[i] = 0 /\ slots[i] = 0
                           /\ owed[i] = 0
        BY <2>2, <2>3 DEF Uploading, holding, uploading, aloft, slots, owed
    <2>5. /\ holding \in [Items -> Nat] /\ uploading \in [Items -> Nat]
          /\ aloft \in [Items -> Nat] /\ slots \in [Items -> Nat] /\ owed \in [Items -> Nat]
        BY <2>4 DEF holding, uploading, aloft, slots, owed
    <2>6. /\ Summable(holding) /\ Total(holding) = 0
          /\ Summable(uploading) /\ Total(uploading) = 0
          /\ Summable(aloft) /\ Total(aloft) = 0
          /\ Summable(slots) /\ Total(slots) = 0
          /\ Summable(owed) /\ Total(owed) = 0
        BY <2>4, <2>5, TotalZero
    <2>7. QED
        BY <2>6, QueueAssumption DEF Init, CountInv
<1>2. Shape /\ StageInv /\ CountInv /\ [Next]_vars => CountInv'
    <2>1. ASSUME CountInv, UNCHANGED vars PROVE CountInv'
        <3>1. UNCHANGED <<item, call, pending, pendingBytes, inflight, permits>>
            BY <2>1 DEF vars, callers, stats, workers
        <3>2. holding' = holding /\ uploading' = uploading /\ aloft' = aloft /\ slots' = slots
            BY <3>1 DEF holding, uploading, aloft, slots, Holds, Counted
        <3>3. owed' = owed
            BY <3>1 DEF owed, Holds, Counted
        <3>4. QED
            BY <2>1, <3>1, <3>2, <3>3 DEF CountInv
    <2>2. QED
        BY <2>1, CountStep
<1>3. QED
    BY <1>1, <1>2, ShapeInvariant, PTL DEF Spec

\* Every variable keeps its type: in particular no counter of the statistics
\* ever wraps below zero, and no more permits come back than were taken.
THEOREM TypeCorrect == Spec => []TypeOK
<1>1. Shape /\ CountInv => TypeOK
    <2> SUFFICES ASSUME Shape, CountInv PROVE TypeOK
        OBVIOUS
    <2>1. pending \in Nat /\ pendingBytes \in Nat /\ inflight \in Nat
        BY TotalType DEF CountInv
    <2>2. permits \in 0 .. MaxConcurrent
        <3>1. Total(slots) \in Nat /\ MaxConcurrent \in Nat
            BY TotalType, QueueAssumption DEF CountInv
        <3>2. QED
            BY <3>1 DEF CountInv
    <2>3. QED
        BY <2>1, <2>2 DEF TypeOK, Shape, FilesOK, CallersOK, FlagsOK, ReconcileOK, BufferOK,
                          ItemsOK, Pair, Outcomes, ItemRecord
<1>2. QED
    BY <1>1, ShapeInvariant, CountInvariant, PTL

\* What wait_idle reports is true: pending never falls below the items
\* actively uploading, and at zero no item of this life is unsettled.
THEOREM FlushReportsTruth == Spec => []FlushIsTruthful
<1>1. Shape /\ CountInv => FlushIsTruthful
    <2> SUFFICES ASSUME Shape, CountInv PROVE FlushIsTruthful
        OBVIOUS
    <2>0. ItemsOK /\ Summable(holding) /\ Summable(aloft) /\ aloft \in [Items -> Nat]
          /\ holding \in [Items -> Nat]
        BY WeightTypes DEF Shape, BufferOK, CountInv
    <2>1. \A i \in Items : aloft[i] <= holding[i]
        BY DEF aloft, holding, Holds, Uploading, Unsettled, Running, Leaving
    <2>2. Total(aloft) <= Total(holding)
        BY <2>0, <2>1, TotalMonotone
    <2>3. inflight <= pending
        <3>1. Total(aloft) \in Nat /\ Total(holding) \in Nat
            BY <2>0, TotalType
        <3>2. QED
            BY <2>2, <3>1 DEF CountInv
    <2>4. ASSUME pending = 0, NEW i \in Items PROVE item[i].stage \in {"none", "done"}
        <3>1. holding[i] = 0
            BY <2>0, <2>4, TotalZero DEF CountInv
        <3>2. ~Holds(i)
            BY <3>1 DEF holding
        <3>3. item[i].stage \in Stages
            BY <2>0 DEF ItemsOK, ItemRecord
        <3>4. QED
            BY <3>2, <3>3 DEF Holds, Stages
    <2>5. QED
        BY <2>3, <2>4 DEF FlushIsTruthful
<1>2. QED
    BY <1>1, ShapeInvariant, CountInvariant, PTL

=============================================================================
