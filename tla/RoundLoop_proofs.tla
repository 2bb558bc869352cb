--------------------------- MODULE RoundLoop_proofs ---------------------------
(***************************************************************************)
(* What holds of the round loop for every stall limit, round cap, set of   *)
(* observations and set of claims.                                         *)
(***************************************************************************)
EXTENDS RoundLoop, TLAPS

-----------------------------------------------------------------------------
(* Facts about the operators of RoundLedger.                                *)

\* observe keeps a ledger well-formed, whatever fingerprint it is given.
LEMMA ObserveType ==
    ASSUME NEW l \in Ledgers, NEW fp \in Fingerprints, NEW worked \in BOOLEAN
    PROVE  /\ Observe(l, fp, worked) \in Ledgers
           /\ Observe(l, fp, worked).last = fp
           /\ Observe(l, fp, worked).repeats <= l.repeats + 1
           /\ Observe(l, fp, worked).idle <= l.idle + 1
<1>1. l.repeats \in Nat /\ l.idle \in Nat
  BY DEF Ledgers
<1> QED
  BY <1>1 DEF Observe, Ledgers

\* Asking for acceptance touches neither streak.
LEMMA RequestedType ==
    ASSUME NEW l \in Ledgers, NEW claim \in Claims \cup {NotAsked}
    PROVE  /\ Requested(l, claim) \in Ledgers
           /\ Requested(l, claim).last = l.last
           /\ Requested(l, claim).repeats = l.repeats
           /\ Requested(l, claim).idle = l.idle
  BY DEF Requested, AlreadyRequestedFor, MarkRequested, Ledgers

\* decide_after_round answers with one of three kinds, keeps every terminal
\* answer of the completion rules and cuts off only on a cut-off level.
LEMMA DecisionCases ==
    ASSUME NEW v \in HostViews, NEW stall \in {"progressing", "reapproach", "cut_off"}
    PROVE  LET d == DecideAfterRound(v, stall)
               earned == ~v.open /\ v.verdict = "achieved"
           IN  /\ earned => d = TaskDone
               /\ ~earned /\ stall = "cut_off" => d = TaskPaused("no_progress")
               /\ ~earned /\ stall # "cut_off" =>
                      \E i \in Injections : d = RunAnotherRound(i)
<1>1. v.stop = "none" /\ v.open \in BOOLEAN /\ v.verdict \in {"pending", "achieved", "rejected"}
  BY DEF HostViews, Views, Verdicts
<1>2. CASE v.open
  BY <1>1, <1>2 DEF DecideAfterRound, DecideCompletion, TaskDone, TaskPaused,
                    RunAnotherRound, Injections
<1>3. CASE ~v.open
  BY <1>1, <1>3 DEF DecideAfterRound, DecideCompletion, TaskDone, TaskPaused,
                    RunAnotherRound, Injections
<1> QED
  BY <1>1, <1>2, <1>3

\* The combined stall level reaches cut-off exactly when one of the two
\* streaks reached its limit: neither signal masks the other.
LEMMA StallLevelCases ==
    ASSUME NEW l \in Ledgers
    PROVE  /\ StallLevel(l) \in {"progressing", "reapproach", "cut_off"}
           /\ StallLevel(l) = "cut_off" <=> (l.repeats >= CutoffAfter \/ l.idle >= IdleCutoffAfter)
<1>1. RepeatLevel(l) \in {"progressing", "reapproach", "cut_off"}
  BY DEF RepeatLevel
<1>2. IdleLevel(l) \in {"progressing", "reapproach", "cut_off"}
  BY DEF IdleLevel
<1>3. RepeatLevel(l) = "cut_off" <=> l.repeats >= CutoffAfter
  BY DEF RepeatLevel
<1>4. IdleLevel(l) = "cut_off" <=> l.idle >= IdleCutoffAfter
  BY DEF IdleLevel
<1> QED
  BY <1>1, <1>2, <1>3, <1>4 DEF StallLevel, Worst

\* The limits are positive, so a stall takes at least one round.
LEMMA MinStallFacts ==
    /\ MinStall \in Nat
    /\ MinStall >= 1
    /\ MinStall <= CutoffAfter
    /\ MinStall <= IdleCutoffAfter
  BY StallConstants DEF MinStall

-----------------------------------------------------------------------------
(* The inductive invariant.  While a round runs, the two streaks are bounded *)
(* by the rounds since the last cut-off, the cap is not reached and the      *)
(* machine has not accepted.                                                 *)

Spacing ==
    pc = "round" => /\ cutoffs * MinStall + ledger.repeats <= rounds
                    /\ cutoffs * MinStall + ledger.idle <= rounds

Inv ==
    /\ TypeOK
    /\ StallNeverOutrunsCutoff
    /\ AcceptedExactlyWhenEarned
    /\ RoundsCapped
    /\ Spacing
    /\ CutOffsSpacedOut

\* A prompt starts inside the invariant.
LEMMA InitInv == Init => Inv
<1> SUFFICES ASSUME Init PROVE Inv
  OBVIOUS
<1> USE DEF Init
<1>1. TypeOK
  BY DEF TypeOK, Ledgers, Fingerprints, NewLedger, Start, IdleMachine, Machines, Pauses,
         NoView, Views, Stops, Verdicts, Injections
<1>2. StallNeverOutrunsCutoff
  BY StallConstants DEF StallNeverOutrunsCutoff, NewLedger
<1>3. AcceptedExactlyWhenEarned
  BY DEF AcceptedExactlyWhenEarned, NoView, Start
<1>5. RoundsCapped
  BY RoundCapConstant DEF RoundsCapped
<1>6. Spacing /\ CutOffsSpacedOut
  BY MinStallFacts DEF Spacing, CutOffsSpacedOut, NewLedger
<1> QED
  BY <1>1, <1>2, <1>3, <1>5, <1>6 DEF Inv

\* (Re)starting the machine and applying a decision keep it well-formed.
LEMMA MachineType ==
    ASSUME NEW m \in Machines
    PROVE  /\ Started(m) \in Machines
           /\ \A i \in Injections : Apply(m, RunAnotherRound(i)) \in Machines
           /\ \A i \in Injections : Apply(m, RunAnotherRound(i)).status = "active"
           /\ Apply(m, TaskDone) \in Machines
           /\ Apply(m, TaskDone).status = "done"
           /\ \A p \in Pauses : Apply(m, TaskPaused(p)) \in Machines
           /\ \A p \in Pauses : Apply(m, TaskPaused(p)).status = "paused"
           /\ MarkExecuting(m) \in Machines
           /\ MarkExecuting(m).status = m.status
<1>1. Started(m) \in Machines
  BY DEF Started, Start, Machines
<1>2. \A i \in Injections : /\ Apply(m, RunAnotherRound(i)) \in Machines
                            /\ Apply(m, RunAnotherRound(i)).status = "active"
  BY DEF Apply, RunAnotherRound, Machines
<1>3. Apply(m, TaskDone) \in Machines /\ Apply(m, TaskDone).status = "done"
  BY DEF Apply, TaskDone, Machines
<1>4. \A p \in Pauses : /\ Apply(m, TaskPaused(p)) \in Machines
                        /\ Apply(m, TaskPaused(p)).status = "paused"
  BY DEF Apply, TaskPaused, Machines
<1>5. MarkExecuting(m) \in Machines /\ MarkExecuting(m).status = m.status
  BY DEF MarkExecuting, Machines
<1> QED
  BY <1>1, <1>2, <1>3, <1>4, <1>5

\* A judged round keeps the invariant: one step per outcome of the decision.
LEMMA RoundEndInv ==
    ASSUME Inv, NEW v \in HostViews, NEW seen \in Observations,
           NEW claim \in Claims \cup {NotAsked}, RoundEnd(v, seen, claim)
    PROVE  Inv'
<1> DEFINE r == Requested(ledger, claim)
           l == Observe(r, Fingerprint(v, seen), Worked(seen))
           d == DecideAfterRound(v, StallLevel(l))
           m == Apply(Started(machine), d)
           earned == ~v.open /\ v.verdict = "achieved"
<1>1. /\ pc = "round" /\ view' = v /\ criteria' = criteria
      /\ Inject(l, m, d) \/ CutOff(l, m, d) \/ Done(l, m, d)
  BY DEF RoundEnd
<1>2. /\ ledger \in Ledgers /\ machine \in Machines /\ rounds \in Nat /\ cutoffs \in Nat
      /\ injected \in Injections \cup {"none", "cut_off"} /\ criteria \in BOOLEAN
  BY DEF Inv, TypeOK
<1>3. Fingerprint(v, seen) \in Fingerprints /\ Worked(seen) \in BOOLEAN /\ v \in Views
  BY DEF Fingerprint, Fingerprints, HostViews, Views, Worked
<1>4. /\ r \in Ledgers
      /\ r.repeats = ledger.repeats
      /\ r.idle = ledger.idle
  BY <1>2, RequestedType
<1>5. /\ l \in Ledgers
      /\ l.repeats <= ledger.repeats + 1
      /\ l.idle <= ledger.idle + 1
  <2> HIDE DEF r
  <2> QED
    BY <1>2, <1>3, <1>4, ObserveType
<1> HIDE DEF r, l
<1>6. /\ StallLevel(l) \in {"progressing", "reapproach", "cut_off"}
      /\ StallLevel(l) = "cut_off" <=> (l.repeats >= CutoffAfter \/ l.idle >= IdleCutoffAfter)
  BY <1>5, StallLevelCases
<1>7. /\ earned => d = TaskDone
      /\ ~earned /\ StallLevel(l) = "cut_off" => d = TaskPaused("no_progress")
      /\ ~earned /\ StallLevel(l) # "cut_off" => \E i \in Injections : d = RunAnotherRound(i)
  BY <1>6, DecisionCases
<1>8. Started(machine) \in Machines
  BY <1>2, MachineType
<1>9. /\ l.repeats \in Nat /\ l.idle \in Nat
      /\ cutoffs * MinStall \in Nat
      /\ cutoffs * MinStall + ledger.repeats <= rounds
      /\ cutoffs * MinStall + ledger.idle <= rounds
      /\ ledger.repeats \in Nat /\ ledger.idle \in Nat
  BY <1>1, <1>2, <1>5, MinStallFacts DEF Inv, Spacing, Ledgers
<1>10. /\ cutoffs * MinStall + l.repeats <= rounds + 1
       /\ cutoffs * MinStall + l.idle <= rounds + 1
       /\ rounds < MaxRounds
  BY <1>1, <1>2, <1>5, <1>9, RoundCapConstant DEF Inv, RoundsCapped
<1> HIDE DEF d
<1>11. CASE Inject(l, m, d)
  <2>1. PICK i \in Injections : d = RunAnotherRound(i)
    BY <1>6, <1>7, <1>11 DEF Inject, TaskDone, TaskPaused
  <2>2. StallLevel(l) # "cut_off" /\ ~earned
    BY <1>7, <1>11 DEF Inject, TaskDone, TaskPaused
  <2>3. /\ m \in Machines /\ m.status = "active"
        /\ MarkExecuting(m) \in Machines /\ MarkExecuting(m).status = "active"
    BY <1>8, <2>1, MachineType
  <2> HIDE DEF m
  <2>4. /\ ledger' = l /\ machine' = MarkExecuting(m) /\ injected' = d.why
        /\ cutoffs' = cutoffs /\ rounds' = rounds + 1
        /\ pc' = IF rounds + 1 >= MaxRounds THEN "ended" ELSE "round"
    BY <1>11 DEF Inject, ContinueOrCap
  <2>5. TypeOK'
    BY <1>1, <1>2, <1>3, <1>5, <2>1, <2>3, <2>4 DEF TypeOK, RunAnotherRound, Ledgers, Fingerprints
  <2>6. StallNeverOutrunsCutoff'
    BY <1>6, <1>9, <2>2, <2>4, StallConstants DEF StallNeverOutrunsCutoff
  <2>7. AcceptedExactlyWhenEarned'
    BY <1>1, <2>2, <2>3, <2>4 DEF AcceptedExactlyWhenEarned
  <2>9. RoundsCapped'
    BY <1>2, <1>10, <2>4, RoundCapConstant DEF RoundsCapped
  <2>10. Spacing' /\ CutOffsSpacedOut'
    BY <1>2, <1>9, <1>10, <2>4, MinStallFacts DEF Spacing, CutOffsSpacedOut, MinStall
  <2> QED
    BY <2>5, <2>6, <2>7, <2>9, <2>10 DEF Inv
<1>12. CASE CutOff(l, m, d)
  <2>1. d = TaskPaused("no_progress")
    BY <1>12 DEF CutOff
  <2>2. StallLevel(l) = "cut_off" /\ ~earned
    BY <1>7, <2>1 DEF TaskDone, TaskPaused, RunAnotherRound
  <2>3. m \in Machines /\ m.status = "paused"
    BY <1>8, <2>1, MachineType DEF Pauses
  <2> HIDE DEF m
  <2>4. (cutoffs + 1) * MinStall <= rounds + 1 /\ (cutoffs + 1) * MinStall \in Nat
    <3>1. l.repeats >= MinStall \/ l.idle >= MinStall
      BY <1>6, <1>9, <2>2, MinStallFacts, StallConstants
    <3>2. (cutoffs + 1) * MinStall = cutoffs * MinStall + MinStall
      BY <1>2, MinStallFacts
    <3> QED
      BY <1>2, <1>9, <1>10, <3>1, <3>2, MinStallFacts
  <2>5. machine' = m /\ cutoffs' = cutoffs + 1 /\ view' = v
    BY <1>1, <1>12 DEF CutOff
  <2>6. CASE criteria
    <3>1. ledger' = l /\ injected' = injected /\ pc' = "ended" /\ rounds' = rounds
      BY <1>12, <2>6 DEF CutOff, EndTurn
    <3>3. TypeOK'
      BY <1>1, <1>2, <1>3, <1>5, <2>3, <2>5, <3>1 DEF TypeOK, Ledgers, Fingerprints
    <3>4. StallNeverOutrunsCutoff' /\ Spacing'
      BY <2>5, <3>1 DEF StallNeverOutrunsCutoff, Spacing
    <3>5. AcceptedExactlyWhenEarned'
      BY <2>2, <2>3, <2>5 DEF AcceptedExactlyWhenEarned
    <3>6. RoundsCapped' /\ CutOffsSpacedOut'
      BY <1>2, <1>10, <2>4, <2>5, <3>1, RoundCapConstant DEF RoundsCapped, CutOffsSpacedOut, MinStall
    <3> QED
      BY <3>3, <3>4, <3>5, <3>6 DEF Inv
  <2>7. CASE ~criteria
    <3>1. /\ ledger' = ResetStreaks(l) /\ injected' = "cut_off" /\ rounds' = rounds + 1
          /\ pc' = IF rounds + 1 >= MaxRounds THEN "ended" ELSE "round"
      BY <1>12, <2>7 DEF CutOff, ContinueOrCap
    <3>2. ResetStreaks(l) \in Ledgers /\ ResetStreaks(l).repeats = 0 /\ ResetStreaks(l).idle = 0
      BY <1>5 DEF ResetStreaks, Ledgers, Fingerprints
    <3>3. TypeOK'
      BY <1>1, <1>2, <1>3, <2>3, <2>5, <3>1, <3>2 DEF TypeOK, Ledgers, Fingerprints
    <3>4. StallNeverOutrunsCutoff'
      BY <1>1, <2>7, <3>1, <3>2, StallConstants DEF StallNeverOutrunsCutoff
    <3>5. AcceptedExactlyWhenEarned'
      BY <2>2, <2>3, <2>5 DEF AcceptedExactlyWhenEarned
    <3>6. RoundsCapped'
      BY <1>2, <1>10, <3>1, RoundCapConstant DEF RoundsCapped
    <3>7. Spacing' /\ CutOffsSpacedOut'
      BY <1>2, <2>4, <2>5, <3>1, <3>2 DEF Spacing, CutOffsSpacedOut, MinStall
    <3> QED
      BY <3>3, <3>4, <3>5, <3>6, <3>7 DEF Inv
  <2> QED
    BY <2>6, <2>7
<1>13. CASE Done(l, m, d)
  <2>1. d = TaskDone
    BY <1>13 DEF Done
  <2>2. earned
    BY <1>6, <1>7, <2>1 DEF TaskDone, TaskPaused, RunAnotherRound
  <2>3. m \in Machines /\ m.status = "done"
    BY <1>8, <2>1, MachineType
  <2> HIDE DEF m
  <2>4. /\ ledger' = l /\ machine' = m /\ injected' = injected /\ cutoffs' = cutoffs
        /\ pc' = "ended" /\ rounds' = rounds
    BY <1>13 DEF Done, EndTurn
  <2>5. TypeOK'
    BY <1>1, <1>2, <1>3, <1>5, <2>3, <2>4 DEF TypeOK, Ledgers, Fingerprints
  <2>6. StallNeverOutrunsCutoff' /\ Spacing'
    BY <2>4 DEF StallNeverOutrunsCutoff, Spacing
  <2>7. AcceptedExactlyWhenEarned'
    BY <1>1, <2>2, <2>3, <2>4 DEF AcceptedExactlyWhenEarned
  <2>8. RoundsCapped'
    BY <1>1, <1>2, <1>10, <2>4 DEF Inv, RoundsCapped
  <2>9. CutOffsSpacedOut'
    BY <2>4 DEF Inv, CutOffsSpacedOut, MinStall
  <2> QED
    BY <2>5, <2>6, <2>7, <2>8, <2>9 DEF Inv
<1> QED
  BY <1>1, <1>11, <1>12, <1>13

\* Every step of the loop keeps the invariant.
LEMMA NextInv == Inv /\ [Next]_vars => Inv'
<1> SUFFICES ASSUME Inv, [Next]_vars PROVE Inv'
  OBVIOUS
<1>1. /\ machine \in Machines /\ ledger \in Ledgers /\ rounds \in Nat /\ cutoffs \in Nat
      /\ TypeOK
  BY DEF Inv, TypeOK
<1>2. ASSUME NEW v \in HostViews, NEW seen \in Observations,
             NEW claim \in Claims \cup {NotAsked}, RoundEnd(v, seen, claim)
      PROVE  Inv'
  BY <1>2, RoundEndInv
\* The three actions that only end the turn.
<1>3. ASSUME pc = "round", EndTurn, UNCHANGED <<injected, view, cutoffs, criteria>>,
             ledger' \in Ledgers, machine' \in Machines, machine'.status # "done"
      PROVE  Inv'
  <2>1. pc' = "ended" /\ rounds' = rounds /\ view' = view /\ cutoffs' = cutoffs /\ injected' = injected
    BY <1>3 DEF EndTurn
  <2>2. TypeOK'
    BY <1>1, <1>3, <2>1 DEF TypeOK, Ledgers, Fingerprints
  <2>3. StallNeverOutrunsCutoff' /\ Spacing'
    BY <2>1 DEF StallNeverOutrunsCutoff, Spacing
  <2>4. AcceptedExactlyWhenEarned'
    BY <1>3, <2>1 DEF Inv, AcceptedExactlyWhenEarned
  <2>5. RoundsCapped'
    BY <1>3, <2>1 DEF Inv, RoundsCapped
  <2>6. CutOffsSpacedOut'
    BY <2>1 DEF Inv, CutOffsSpacedOut, MinStall
  <2> QED
    BY <2>2, <2>3, <2>4, <2>5, <2>6 DEF Inv
<1>4. Started(machine) \in Machines /\ (pc = "round" => Started(machine).status = "active")
  BY <1>1, MachineType DEF Started, Start
<1>5. ASSUME NEW reason \in {"budget", "infra"}, GateStop(reason)
      PROVE  Inv'
  <2>1. /\ pc = "round" /\ EndTurn /\ UNCHANGED <<injected, view, cutoffs, criteria>> /\ ledger' = ledger
        /\ machine' = Apply(Started(machine), TaskPaused(reason))
    BY <1>5 DEF GateStop
  <2>2. machine' \in Machines /\ machine'.status = "paused"
    BY <1>4, <2>1, MachineType DEF Pauses
  <2> QED
    BY <1>1, <1>3, <2>1, <2>2
<1>6. ASSUME NEW claim \in Claims, UnboundByRequest(claim)
      PROVE  Inv'
  <2>1. /\ pc = "round" /\ EndTurn /\ UNCHANGED <<injected, view, cutoffs, criteria>>
        /\ machine' = Started(machine) /\ ledger' = MarkRequested(ledger, claim)
    BY <1>6 DEF UnboundByRequest
  <2>2. ledger' \in Ledgers
    BY <1>1, <2>1 DEF MarkRequested, Ledgers
  <2> QED
    BY <1>3, <1>4, <2>1, <2>2
<1>7. CASE Break
  <2>1. pc = "round" /\ EndTurn /\ UNCHANGED <<ledger, machine, injected, view, cutoffs, criteria>>
    BY <1>7 DEF Break
  <2>2. machine.status # "done"
    BY <2>1 DEF Inv, AcceptedExactlyWhenEarned
  <2> QED
    BY <1>1, <1>3, <2>1, <2>2
<1>8. CASE UNCHANGED vars
  BY <1>8 DEF vars, Inv, TypeOK, StallNeverOutrunsCutoff, AcceptedExactlyWhenEarned,
              RoundsCapped, Spacing, CutOffsSpacedOut, MinStall,
              Ledgers, Fingerprints
<1> QED
  BY <1>2, <1>5, <1>6, <1>7, <1>8 DEF Next

-----------------------------------------------------------------------------
(* The theorems.                                                            *)

\* The inductive invariant holds throughout a prompt.
THEOREM Invariance == Spec => []Inv
  BY InitInv, NextInv, PTL DEF Spec

\* Every variable of the round loop keeps its shape.
THEOREM TypeCorrect == Spec => []TypeOK
<1>1. Inv => TypeOK
  BY DEF Inv
<1> QED
  BY <1>1, Invariance, PTL

\* For every choice of the limits, no round starts on a ledger that already
\* justifies a cut-off.
THEOREM StallBounded == Spec => []StallNeverOutrunsCutoff
<1>1. Inv => StallNeverOutrunsCutoff
  BY DEF Inv
<1> QED
  BY <1>1, Invariance, PTL

\* A prompt is accepted exactly when its last judged round earned it.
THEOREM Acceptance == Spec => []AcceptedExactlyWhenEarned
<1>1. Inv => AcceptedExactlyWhenEarned
  BY DEF Inv
<1> QED
  BY <1>1, Invariance, PTL

\* Cut-offs are at least a full stall apart, for every pair of limits.
THEOREM CutOffSpacing == Spec => []CutOffsSpacedOut
<1>1. Inv => CutOffsSpacedOut
  BY DEF Inv
<1> QED
  BY <1>1, Invariance, PTL

\* No prompt outruns the round cap.
THEOREM RoundCap == Spec => []RoundsCapped
<1>1. Inv => RoundsCapped
  BY DEF Inv
<1> QED
  BY <1>1, Invariance, PTL

-----------------------------------------------------------------------------
(* The action property: an escalation is not taken back.                    *)

\* The measure escalates exactly while one of the streaks is long enough.
LEMMA ReapproachCases ==
    ASSUME NEW l \in Ledgers
    PROVE  StallLevel(l) = "progressing" <=> (l.repeats < ReapproachAfter /\ l.idle < 1)
<1>1. l.repeats \in Nat /\ l.idle \in Nat
  BY DEF Ledgers
<1>2. RepeatLevel(l) = "progressing" <=> l.repeats < ReapproachAfter
  BY <1>1, StallConstants DEF RepeatLevel
<1>3. IdleLevel(l) = "progressing" <=> l.idle < 1
  BY <1>1, StallConstants DEF IdleLevel
<1>4. RepeatLevel(l) \in {"progressing", "reapproach", "cut_off"}
  BY DEF RepeatLevel
<1>5. IdleLevel(l) \in {"progressing", "reapproach", "cut_off"}
  BY DEF IdleLevel
<1> QED
  BY <1>2, <1>3, <1>4, <1>5 DEF StallLevel, Worst

\* A plain continue or fix is asked for only while the measure sees progress.
LEMMA PlainOnlyWhenProgressing ==
    ASSUME NEW v \in HostViews, NEW stall \in {"progressing", "reapproach", "cut_off"}
    PROVE  LET d == DecideAfterRound(v, stall)
           IN  d.kind = "another" =>
                  /\ d.why \in {"continue", "fix"} <=> stall = "progressing"
                  /\ d.why = "reapproach" <=> stall = "reapproach"
<1>1. v.stop = "none" /\ v.open \in BOOLEAN /\ v.verdict \in {"pending", "achieved", "rejected"}
  BY DEF HostViews, Views, Verdicts
<1>2. CASE v.open
  BY <1>1, <1>2 DEF DecideAfterRound, DecideCompletion, TaskDone, TaskPaused, RunAnotherRound
<1>3. CASE ~v.open
  BY <1>1, <1>3 DEF DecideAfterRound, DecideCompletion, TaskDone, TaskPaused, RunAnotherRound
<1> QED
  BY <1>1, <1>2, <1>3

\* While a round runs after an escalation, a streak long enough to justify it
\* is still on the ledger.
EscalationJustified ==
    (injected = "reapproach" /\ pc = "round") =>
        (ledger.repeats >= ReapproachAfter \/ ledger.idle > 0)

\* What one judged round does to an escalation.
LEMMA RoundEndEscalation ==
    ASSUME Inv, EscalationJustified,
           NEW v \in HostViews, NEW seen \in Observations,
           NEW claim \in Claims \cup {NotAsked}, RoundEnd(v, seen, claim)
    PROVE  /\ EscalationJustified'
           /\ KeepsEscalation
<1> DEFINE r == Requested(ledger, claim)
           l == Observe(r, Fingerprint(v, seen), Worked(seen))
           d == DecideAfterRound(v, StallLevel(l))
           m == Apply(Started(machine), d)
<1>1. pc = "round" /\ (Inject(l, m, d) \/ CutOff(l, m, d) \/ Done(l, m, d))
  BY DEF RoundEnd
<1>2. ledger \in Ledgers /\ rounds \in Nat
  BY DEF Inv, TypeOK
<1>3. Fingerprint(v, seen) \in Fingerprints /\ Worked(seen) \in BOOLEAN
  BY DEF Fingerprint, Fingerprints, HostViews, Views, Worked
<1>4. r \in Ledgers /\ r.last = ledger.last /\ r.repeats = ledger.repeats /\ r.idle = ledger.idle
  BY <1>2, RequestedType
<1>5. l \in Ledgers /\ (l.last = ledger.last => l.repeats = ledger.repeats + 1)
  <2>1. l \in Ledgers
    <3> HIDE DEF r
    <3> QED
      BY <1>3, <1>4, ObserveType
  <2>2. l.last = r.last => l.repeats = r.repeats + 1
    BY DEF Observe
  <2> QED
    BY <1>4, <2>1, <2>2
<1> HIDE DEF r, l
<1>6. /\ StallLevel(l) \in {"progressing", "reapproach", "cut_off"}
      /\ StallLevel(l) = "progressing" <=> (l.repeats < ReapproachAfter /\ l.idle < 1)
  BY <1>5, StallLevelCases, ReapproachCases
<1>7. d.kind = "another" =>
          /\ d.why \in {"continue", "fix"} <=> StallLevel(l) = "progressing"
          /\ d.why = "reapproach" <=> StallLevel(l) = "reapproach"
  BY <1>6, PlainOnlyWhenProgressing
<1>8. /\ ledger.repeats \in Nat /\ ledger.idle \in Nat
      /\ l.repeats \in Nat /\ l.idle \in Nat
      /\ ReapproachAfter \in Nat
  BY <1>2, <1>5, StallConstants DEF Ledgers
<1> HIDE DEF d, m
<1>9. CASE Inject(l, m, d)
  <2>1. d.kind = "another" /\ ledger' = l /\ injected' = d.why
    BY <1>9 DEF Inject
  <2>2. EscalationJustified'
    BY <1>6, <1>7, <1>8, <2>1 DEF EscalationJustified
  <2>3. ASSUME injected = "reapproach", injected' \in {"continue", "fix"}, ledger'.last = ledger.last
        PROVE  ledger.idle > 0
    BY <1>1, <1>5, <1>6, <1>7, <1>8, <2>1, <2>3 DEF EscalationJustified
  <2> QED
    BY <2>2, <2>3 DEF KeepsEscalation
<1>10. CASE CutOff(l, m, d)
  <2>1. injected' = "cut_off" \/ (pc' = "ended" /\ rounds' = rounds)
    BY <1>10 DEF CutOff, EndTurn
  <2> QED
    BY <2>1 DEF EscalationJustified, KeepsEscalation
<1>11. CASE Done(l, m, d)
  <2>1. pc' = "ended" /\ rounds' = rounds
    BY <1>11 DEF Done, EndTurn
  <2> QED
    BY <2>1 DEF EscalationJustified, KeepsEscalation
<1> QED
  BY <1>1, <1>9, <1>10, <1>11

\* Once escalated for repeating, the gate does not fall back to the plain
\* message until something it watches moves (repeat_level is sticky).
THEOREM Sticky == Spec => EscalationIsSticky
<1>1. Init => EscalationJustified
  BY DEF Init, EscalationJustified
<1>2. Inv /\ EscalationJustified /\ [Next]_vars => EscalationJustified' /\ [KeepsEscalation]_vars
  <2> SUFFICES ASSUME Inv, EscalationJustified, [Next]_vars
               PROVE  EscalationJustified' /\ [KeepsEscalation]_vars
    OBVIOUS
  <2>1. ASSUME NEW v \in HostViews, NEW seen \in Observations,
               NEW claim \in Claims \cup {NotAsked}, RoundEnd(v, seen, claim)
        PROVE  EscalationJustified' /\ KeepsEscalation
    BY <2>1, RoundEndEscalation
  <2>2. ASSUME EndTurn PROVE EscalationJustified' /\ KeepsEscalation
    BY <2>2 DEF EndTurn, EscalationJustified, KeepsEscalation
  <2>3. CASE UNCHANGED vars
    BY <2>3 DEF vars, EscalationJustified
  <2> QED
    BY <2>1, <2>2, <2>3 DEF Next, GateStop, UnboundByRequest, Break
<1> QED
  BY <1>1, <1>2, Invariance, PTL DEF Spec, EscalationIsSticky
=============================================================================
