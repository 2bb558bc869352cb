--------------------------- MODULE SkepticPanel_proofs ---------------------------
(* Safety of the skeptic panel, for every panel size and every set of verdicts. *)
EXTENDS SkepticPanel, FiniteSetTheorems, TLAPS

(* Votes are what they are: a failure refutes, only a written verdict blocks. *)
VotesHonest ==
    \A i \in Seats :
        /\ result[i].from = "failure" => result[i].refuted
        /\ result[i].blocking => result[i].from = "json"

(* Who has been started in each stage. *)
Started ==
    /\ stage = "idle" => \A i \in Seats : run[i] \in {"idle", "done"}
    /\ stage = "gate" => \A i \in Seats : run[i] = "idle"
    /\ stage = "gatekeeper" => \A i \in Seats \ {0} : run[i] = "idle"
    /\ stage = "panel" => size > 1 /\ run[0] = "done" /\ ~ShortCircuits(size, result)
    /\ stage # "idle" => attempt > 0
    /\ \A i \in Seats : run[i] = "resumed" => stage = "gatekeeper" /\ i = 0

(* An outcome that was counted stays the count of the votes on the table. *)
Counted ==
    /\ stage # "idle" => outcome = "none"
    /\ outcome \in {"achieved", "blocked"} =>
           /\ outcome = PanelOutcome(size, result)
           /\ \A i \in Seats : run[i] = "done" <=> i \in Voters(size, result)

IInv == TypeOK /\ VotesHonest /\ Started /\ Counted

-----------------------------------------------------------------------------
(* Every panel has a seat 0 and a natural number of seats. *)
LEMMA SeatZero ==
    ASSUME size \in Sizes
    PROVE  size \in Nat \ {0} /\ 0 \in Seats
  BY PanelAssumption DEF PanelAssumption, Seats

(* read_skeptic_verdict returns a well-typed vote that is what it is. *)
LEMMA ReadVerdictHonest ==
    ASSUME NEW body \in Bodies, NEW token \in Tokens
    PROVE  /\ ReadVerdict(body, token) \in Results
           /\ ReadVerdict(body, token).from = "failure" => ReadVerdict(body, token).refuted
           /\ ReadVerdict(body, token).blocking => ReadVerdict(body, token).from = "json"
  <1> DEFINE v == CHOOSE v \in body : TRUE
  <1>1. CASE body # {}
    <2>1. v \in Verdicts
      BY <1>1 DEF Bodies
    <2>2. v \in [refuted: BOOLEAN, high: BOOLEAN, blocking: BOOLEAN]
      BY <2>1, PanelAssumption DEF PanelAssumption
    <2>3. ReadVerdict(body, token) =
              [refuted |-> v.refuted, high |-> v.high, blocking |-> v.blocking, from |-> "json"]
      BY <1>1 DEF ReadVerdict
    <2> HIDE DEF v
    <2> QED
      BY <2>2, <2>3 DEF Results
  <1>2. CASE body = {}
    BY <1>2 DEF ReadVerdict, FallbackVote, SkepticFailure, Results, Tokens
  <1> QED
    BY <1>1, <1>2

(* skeptic_failure is a well-typed refutation. *)
LEMMA FailureHonest ==
    /\ SkepticFailure \in Results
    /\ SkepticFailure.refuted
    /\ ~SkepticFailure.blocking
  BY DEF SkepticFailure, FallbackVote, Results

(* A vote of a running skeptic keeps the invariant. *)
LEMMA VoteInv ==
    ASSUME IInv, NEW i \in Seats, NEW r \in Results,
           run[i] \in {"resumed", "cold"}, Vote(i, r), known' \subseteq 0 .. MaxSpawns,
           r.from = "failure" => r.refuted, r.blocking => r.from = "json"
    PROVE  IInv'
  <1> USE DEF IInv, Vote, Seats
  <1>1. stage \in {"gatekeeper", "panel"} /\ (stage = "gatekeeper" => i = 0) /\ (stage = "panel" => i # 0)
    BY DEF TypeOK, Started
  <1>2. TypeOK'
    BY DEF TypeOK
  <1>3. VotesHonest'
    BY DEF TypeOK, VotesHonest
  <1>4. Started'
    BY <1>1, SeatZero DEF TypeOK, Started, ShortCircuits, DecisiveRefute
  <1>5. Counted'
    BY <1>1 DEF Counted
  <1> QED
    BY <1>2, <1>3, <1>4, <1>5

-----------------------------------------------------------------------------
(* No vote is in before the panel is asked. *)
LEMMA InitInv == Init => IInv
  <1> SUFFICES ASSUME Init PROVE IInv
    OBVIOUS
  <1> USE PanelAssumption, FailureHonest DEF Init, PanelAssumption
  <1>1. 0 \in 0 .. MaxSpawns /\ {} \in Bodies
    BY DEF Bodies
  <1>3. TypeOK
    BY <1>1 DEF TypeOK, NoSession
  <1>2. VotesHonest /\ Started /\ Counted
    BY DEF VotesHonest, Started, Counted
  <1> QED
    BY <1>2, <1>3 DEF IInv

(* Every answer, crash and timeout of the panel keeps the counts. *)
LEMMA StepInv == IInv /\ [Next]_vars => IInv'
  <1> SUFFICES ASSUME IInv, [Next]_vars PROVE IInv'
    OBVIOUS
  <1> USE PanelAssumption, SeatZero, FailureHonest DEF IInv, PanelAssumption
  <1>1. CASE Reserve
    <2>1. attempt' \in 0 .. MaxSpawns /\ spawned' \in 0 .. MaxSpawns
      BY <1>1 DEF Reserve, TypeOK
    <2>3. TypeOK'
      BY <1>1, <2>1 DEF Reserve, TypeOK, Seats
    <2>2. VotesHonest' /\ Started' /\ Counted'
      BY <1>1, <2>1 DEF Reserve, VotesHonest, Started, Counted, Seats, TypeOK
    <2> QED
      BY <2>2, <2>3
  <1>2. CASE GateRejects \/ FailOpen
    BY <1>2 DEF GateRejects, FailOpen, TypeOK, VotesHonest, Started, Counted, Seats
  <1>3. CASE Launch
    BY <1>3 DEF Launch, TypeOK, VotesHonest, Started, Counted, Seats
  <1>4. ASSUME NEW i \in Seats, NEW b \in Bodies, WriteVerdict(i, b)
        PROVE  IInv'
    <2>1. stage # "idle"
      BY <1>4 DEF WriteVerdict, Runs, Started
    <2>2. TypeOK'
      BY <1>4 DEF WriteVerdict, Runs, TypeOK, Seats
    <2>3. VotesHonest' /\ Started' /\ Counted'
      BY <1>4 DEF WriteVerdict, Runs, VotesHonest, Started, Counted, Seats
    <2> QED
      BY <2>2, <2>3
  <1>5. ASSUME NEW i \in Seats, NEW t \in Tokens, Return(i, t)
        PROVE  IInv'
    <2>1. attempt \in Attempts
      BY <1>5 DEF Return, Runs, Started, TypeOK, Attempts
    <2>2. known' \subseteq 0 .. MaxSpawns /\ run[i] \in {"resumed", "cold"}
      BY <1>5 DEF Return, Runs, TypeOK
    <2> QED
      BY <1>5, <2>1, <2>2, VoteInv, ReadVerdictHonest DEF Return, TypeOK
  <1>6. ASSUME NEW i \in Seats, SpawnFails(i)
        PROVE  IInv'
    <2>1. CASE Vote(i, SkepticFailure) /\ run[i] \in {"resumed", "cold"}
      <3>1. known' \subseteq 0 .. MaxSpawns
        BY <1>6 DEF SpawnFails, TypeOK
      <3> QED
        BY <2>1, <3>1, VoteInv
    <2>2. CASE run[i] = "resumed" /\ ~Vote(i, SkepticFailure)
      <3>1. stage = "gatekeeper" /\ i = 0
        BY <2>2 DEF Started, TypeOK
      <3> QED
        BY <1>6, <2>2, <3>1 DEF SpawnFails, TypeOK, VotesHonest, Started, Counted, Seats
    <2> QED
      BY <1>6, <2>1, <2>2 DEF SpawnFails
  <1>7. CASE FanOut
    BY <1>7 DEF FanOut, TypeOK, VotesHonest, Started, Counted, Seats
  <1>8. CASE Conclude
    <2>1. TypeOK' /\ VotesHonest' /\ Started'
      BY <1>8 DEF Conclude, TypeOK, NoSession, VotesHonest, Started, Counted, Seats, PanelOutcome, Voters
    <2>2. Counted'
      BY <1>8 DEF Conclude, TypeOK, Started, Counted, Seats, Voters
    <2> QED
      BY <2>1, <2>2
  <1>9. CASE Cancel \/ ResetAttempts
    <2>1. attempt' \in 0 .. MaxSpawns
      BY <1>9 DEF Cancel, ResetAttempts, TypeOK, Started
    <2>2. TypeOK'
      BY <1>9, <2>1 DEF Cancel, ResetAttempts, TypeOK, Seats
    <2>3. VotesHonest' /\ Started' /\ Counted'
      BY <1>9 DEF Cancel, ResetAttempts, TypeOK, VotesHonest, Started, Counted, Seats
    <2> QED
      BY <2>2, <2>3
  <1>10. CASE UNCHANGED vars
    BY <1>10 DEF vars, TypeOK, VotesHonest, Started, Counted, Seats
  <1> QED
    BY <1>1, <1>2, <1>3, <1>4, <1>5, <1>6, <1>7, <1>8, <1>9, <1>10 DEF Next, Harness, Skeptic

(* The conjunction above is an invariant of the panel. *)
THEOREM Inductive == Spec => []IInv
  BY InitInv, StepInv, PTL DEF Spec

-----------------------------------------------------------------------------
(* A quorum of a panel of several is more than half of its cold seats. *)
LEMMA QuorumIsMajority ==
    ASSUME size \in Sizes, size > 1, Quorum(Seats, result)
    PROVE  2 * Cardinality(Approving(Seats \ {0}, result)) > Cardinality(Seats \ {0})
  <1> DEFINE cold == Seats \ {0}
  <1> DEFINE yes == Approving(cold, result)
  <1>1. Seats # {0}
    BY SeatZero DEF Seats
  <1>2. Cardinality(yes) >= Cardinality(cold) \div 2 + 1
    BY <1>1 DEF Quorum
  <1>3. IsFiniteSet(cold) /\ IsFiniteSet(yes)
    <2>1. IsFiniteSet(Seats)
      BY FS_Interval, SeatZero DEF Seats
    <2>2. cold \subseteq Seats /\ yes \subseteq Seats
      BY DEF Approving
    <2> QED
      BY <2>1, <2>2, FS_Subset
  <1>4. Cardinality(yes) \in Nat /\ Cardinality(cold) \in Nat
    BY <1>3, FS_CardinalityType
  <1> HIDE DEF yes, cold
  <1>5. 2 * Cardinality(yes) > Cardinality(cold)
    BY <1>2, <1>4
  <1> QED
    BY <1>5 DEF yes, cold

(* What the invariant says of an approval. *)
LEMMA InvImpliesIndependent == IInv => ApprovalIsIndependent
  <1> SUFFICES ASSUME IInv, outcome = "achieved" PROVE ApprovalIsIndependent
    BY DEF ApprovalIsIndependent
  <1>1. Quorum(Voters(size, result), result) /\ ~DecisiveRefute(size, result)
    BY DEF IInv, Counted, PanelOutcome
  <1>2. \A i \in Seats : run[i] = "done" <=> i \in Voters(size, result)
    BY DEF IInv, Counted
  <1>3. \A i \in Seats : ~result[i].refuted => result[i].from # "failure"
    BY DEF IInv, VotesHonest
  <1>4. size \in Sizes /\ size \in Nat \ {0} /\ 0 \in Seats
    BY SeatZero DEF IInv, TypeOK
  <1> DEFINE cold == IF size = 1 THEN {0} ELSE Seats \ {0}
  <1> DEFINE yes == {i \in cold : /\ run[i] = "done"
                                  /\ ~result[i].refuted
                                  /\ result[i].from # "failure"}
  <1>5. CASE size = 1
    <2>1. Voters(size, result) = {0} /\ cold = {0}
      BY <1>5 DEF Voters
    <2>2. yes = {0}
      BY <1>1, <1>2, <1>3, <1>4, <2>1 DEF Quorum, Approving
    <2>3. Cardinality({0}) = 1
      BY FS_Singleton
    <2> QED
      BY <1>5, <2>1, <2>2, <2>3 DEF ApprovalIsIndependent
  <1>6. CASE size > 1
    <2>1. Voters(size, result) = Seats
      BY <1>1, <1>6 DEF Voters, ShortCircuits, Seats
    <2>2. cold = Seats \ {0}
      BY <1>6
    <2>3. yes = Approving(Seats \ {0}, result)
      BY <1>2, <1>3, <2>1, <2>2 DEF Approving
    <2>4. 2 * Cardinality(yes) > Cardinality(cold)
      BY <1>1, <1>4, <1>6, <2>1, <2>2, <2>3, QuorumIsMajority
    <2>5. ~(result[0].refuted /\ result[0].high)
      BY <1>1, <1>6 DEF DecisiveRefute
    <2> HIDE DEF yes
    <2> QED
      BY <2>4, <2>5 DEF ApprovalIsIndependent, yes
  <1> QED
    BY <1>4, <1>5, <1>6

(* Whatever the panel's size, an approval rests on answers of a majority of *)
(* its cold skeptics, and never over a decisive refutation.                 *)
THEOREM Independence == Spec => []ApprovalIsIndependent
  BY Inductive, InvImpliesIndependent, PTL

(* Only written blockers stop the goal for the user. *)
THEOREM BlockersWritten == Spec => []BlockedOnlyOnWrittenBlockers
  <1>1. IInv => BlockedOnlyOnWrittenBlockers
    <2> SUFFICES ASSUME IInv, outcome = "blocked" PROVE BlockedOnlyOnWrittenBlockers
      BY DEF BlockedOnlyOnWrittenBlockers
    <2> DEFINE S == Voters(size, result)
    <2>1. /\ Refuting(S, result) # {}
          /\ \A i \in Refuting(S, result) : result[i].blocking
      BY DEF IInv, Counted, PanelOutcome
    <2>2. \A i \in Seats : run[i] = "done" <=> i \in S
      BY DEF IInv, Counted
    <2>3. S \subseteq Seats
      BY SeatZero DEF IInv, TypeOK, Voters, Seats
    <2>4. \A i \in Seats : result[i].blocking => result[i].from = "json"
      BY DEF IInv, VotesHonest
    <2> HIDE DEF S
    <2> QED
      BY <2>1, <2>2, <2>3, <2>4 DEF Refuting, BlockedOnlyOnWrittenBlockers
  <1> QED
    BY Inductive, <1>1, PTL

(* The panel keeps its state well typed. *)
THEOREM TypeCorrect == Spec => []TypeOK
  <1>1. IInv => TypeOK
    BY DEF IInv
  <1> QED
    BY Inductive, <1>1, PTL

-----------------------------------------------------------------------------
(* A rejection was counted from the votes on the table, or it came from the *)
(* deterministic checks before anyone voted.                                *)
Rejected ==
    outcome = "not_achieved" =>
        \/ /\ outcome = PanelOutcome(size, result)
           /\ \A i \in Seats : run[i] = "done" <=> i \in Voters(size, result)
        \/ \A i \in Seats : run[i] # "done"

(* Every step keeps the account of a rejection. *)
LEMMA RejectedStep == IInv /\ Rejected /\ [Next]_vars => Rejected'
  <1> SUFFICES ASSUME IInv, Rejected, [Next]_vars PROVE Rejected'
    OBVIOUS
  <1>1. CASE Conclude
    <2>1. /\ outcome' = PanelOutcome(size, result)
          /\ \A i \in Voters(size, result) : run[i] = "done"
          /\ UNCHANGED <<size, run, result>>
      BY <1>1 DEF Conclude
    <2>2. \A i \in Seats : run[i] = "done" => i \in Voters(size, result)
      BY <1>1, SeatZero DEF Conclude, IInv, TypeOK, Started, Voters, Seats
    <2> QED
      BY <2>1, <2>2 DEF Rejected, Seats
  <1>2. CASE GateRejects
    <2>1. \A i \in Seats : run[i] # "done"
      BY <1>2 DEF GateRejects, IInv, Started
    <2> QED
      BY <1>2, <2>1 DEF GateRejects, Rejected, Seats
  <1>3. CASE ~Conclude /\ ~GateRejects
    <2>1. CASE stage = "idle" /\ outcome' # "none"
      <3>1. UNCHANGED <<size, run, result, outcome>>
        BY <1>3, <2>1 DEF IInv, Started, Next, vars, Harness, Skeptic, Reserve, FailOpen, Launch,
                          FanOut, SpawnFails, Return, Vote, Runs, WriteVerdict, Cancel, ResetAttempts
      <3> QED
        BY <3>1 DEF Rejected, Seats
    <2>2. CASE stage # "idle" \/ outcome' = "none"
      <3>1. outcome' # "not_achieved"
        BY <1>3, <2>2 DEF IInv, Counted, Next, vars, Harness, Skeptic, Reserve, FailOpen, Launch,
                          FanOut, SpawnFails, Return, Vote, Runs, WriteVerdict, Cancel, ResetAttempts
      <3> QED
        BY <3>1 DEF Rejected
    <2> QED
      BY <2>1, <2>2
  <1> QED
    BY <1>1, <1>2, <1>3

(* A vote less can only cost a quorum: taking the approval of one cold seat *)
(* away leaves no more approvals than before.                               *)
LEMMA QuorumIsMonotone ==
    ASSUME size \in Sizes, size > 1, result \in [Seats -> Results], NEW i \in Seats \ {0},
           Quorum(Seats, [result EXCEPT ![i] = SkepticFailure])
    PROVE  Quorum(Seats, result)
  <1> DEFINE r == [result EXCEPT ![i] = SkepticFailure]
  <1> DEFINE cold == Seats \ {0}
  <1> DEFINE yes == Approving(cold, result)
  <1> DEFINE less == Approving(cold, r)
  <1>1. Seats # {0}
    BY SeatZero DEF Seats
  <1>2. Cardinality(less) >= Cardinality(cold) \div 2 + 1
    BY <1>1 DEF Quorum
  <1>3. less \subseteq yes /\ yes \subseteq Seats /\ cold \subseteq Seats
    BY FailureHonest DEF Approving
  <1>4. IsFiniteSet(Seats)
    BY FS_Interval, SeatZero DEF Seats
  <1>5. IsFiniteSet(yes) /\ IsFiniteSet(less) /\ IsFiniteSet(cold)
    <2> HIDE DEF yes, less, cold
    <2> QED
      BY <1>3, <1>4, FS_Subset
  <1>6. /\ Cardinality(less) <= Cardinality(yes)
        /\ Cardinality(less) \in Nat /\ Cardinality(yes) \in Nat /\ Cardinality(cold) \in Nat
    <2> HIDE DEF yes, less, cold
    <2> QED
      BY <1>3, <1>5, FS_Subset, FS_CardinalityType
  <1>7. Cardinality(yes) >= Cardinality(cold) \div 2 + 1
    <2> HIDE DEF yes, less, cold
    <2> QED
      BY <1>2, <1>6
  <1> QED
    BY <1>1, <1>7 DEF Quorum

(* A cold skeptic that crashes instead of voting never turns a rejection   *)
(* into an approval, whatever the panel's size and the other votes.        *)
THEOREM CrashesNeverHelp == Spec => []FailuresNeverApprove
  <1>1. Init => Rejected
    BY DEF Init, Rejected
  <1>2. IInv /\ Rejected => FailuresNeverApprove
    <2> SUFFICES ASSUME IInv, Rejected, outcome \in {"not_achieved", "blocked"},
                        NEW i \in Voters(size, result) \ {0}, run[i] = "done"
                 PROVE  PanelOutcome(size, [result EXCEPT ![i] = SkepticFailure]) # "achieved"
      BY DEF FailuresNeverApprove
    <2> DEFINE r == [result EXCEPT ![i] = SkepticFailure]
    <2>1. /\ size \in Sizes /\ size \in Nat \ {0} /\ 0 \in Seats
          /\ result \in [Seats -> Results]
      BY SeatZero DEF IInv, TypeOK
    <2>2. size > 1 /\ ~ShortCircuits(size, result) /\ i \in Seats \ {0}
      BY <2>1 DEF Voters, Seats
    <2>3. Voters(size, result) = Seats
      BY <2>1, <2>2 DEF Voters, Seats
    <2>4. PanelOutcome(size, result) # "achieved"
      BY <2>2 DEF IInv, Counted, Rejected
    <2>5. r[0] = result[0]
      BY <2>1, <2>2
    <2>6. /\ DecisiveRefute(size, r) <=> DecisiveRefute(size, result)
          /\ Voters(size, r) = Seats
      <3> HIDE DEF r
      <3> QED
        BY <2>1, <2>2, <2>5 DEF DecisiveRefute, ShortCircuits, Voters, Seats
    <2>7. Quorum(Seats, r) => Quorum(Seats, result)
      BY <2>1, <2>2, QuorumIsMonotone
    <2>8. ~(Quorum(Seats, result) /\ ~DecisiveRefute(size, result))
      BY <2>3, <2>4 DEF PanelOutcome
    <2> HIDE DEF r
    <2>9. PanelOutcome(size, r) # "achieved"
      BY <2>6, <2>7, <2>8 DEF PanelOutcome
    <2> QED
      BY <2>9 DEF r
  <1> QED
    BY <1>1, <1>2, RejectedStep, Inductive, PTL DEF Spec
-----------------------------------------------------------------------------
(* A sole judge is never recorded.  Otherwise skeptic 0 has a session under *)
(* the id of its panel once it voted, or its vote is the one a failure     *)
(* casts, which is never confident.                                        *)
Remembered ==
    /\ size = 1 => prior = NoSession
    /\ stage # "idle" /\ run[0] = "done" =>
           \/ spawned \in known
           \/ result[0].from = "failure" /\ ~result[0].high

(* Every step keeps the gatekeeper in mind. *)
LEMMA RememberedStep ==
    ASSUME IInv, Remembered, [Next]_vars PROVE Remembered' /\ [KeepsGatekeeper]_vars
  <1> USE DEF IInv
  <1>1. 0 \in Seats /\ size \in Nat \ {0} /\ run \in [Seats -> {"idle", "resumed", "cold", "done"}]
        /\ result \in [Seats -> Results]
    BY SeatZero DEF TypeOK
  <1>2. CASE Conclude
    <2>1. 0 \in Voters(size, result)
      BY <1>1 DEF Voters, Seats
    <2>2. run[0] = "done" /\ stage # "idle"
      BY <1>2, <2>1 DEF Conclude
    <2>3. stage' = "idle" /\ size' = size /\ known' = known
      BY <1>2 DEF Conclude
    <2>4. spawned \in known \/ (result[0].from = "failure" /\ ~result[0].high)
      BY <2>2 DEF Remembered
    <2>5. CASE size = 1
      <3>1. prior' = NoSession /\ prior = NoSession
        BY <1>2, <2>5 DEF Conclude, Remembered
      <3> QED
        BY <2>3, <3>1 DEF Remembered, KeepsGatekeeper
    <2>6. CASE size > 1
      <3>1. prior' = spawned
        BY <1>2, <2>6 DEF Conclude
      <3>2. ShortCircuits(size, result) => result[0].high
        BY DEF ShortCircuits, DecisiveRefute
      <3>3. stage = "panel" \/ ShortCircuits(size, result)
        BY <1>2, <2>6 DEF Conclude
      <3>4. prior' \in known' \/ (stage = "panel" /\ result[0].from = "failure")
        BY <2>3, <2>4, <3>1, <3>2, <3>3
      <3>5. Remembered'
        BY <2>3, <2>6 DEF Remembered
      <3> QED
        BY <3>4, <3>5 DEF KeepsGatekeeper
    <2> QED
      BY <1>1, <2>5, <2>6
  <1>3. ASSUME NEW i \in Seats, Skeptic(i)
        PROVE  Remembered' /\ [KeepsGatekeeper]_vars
    <2>1. /\ size' = size /\ prior' = prior /\ stage' = stage /\ spawned' = spawned
          /\ known \subseteq known'
      BY <1>3 DEF Skeptic, SpawnFails, Return, Vote, Runs
    <2>2. CASE i = 0
      <3>1. CASE \E t \in Tokens : Return(0, t)
        BY <1>3, <2>1, <2>2, <3>1 DEF Return, Runs, Remembered, KeepsGatekeeper
      <3>2. CASE SpawnFails(0)
        <4>1. CASE Vote(0, SkepticFailure)
          BY <1>1, <2>1, <4>1 DEF Vote, SkepticFailure, FallbackVote, Remembered, KeepsGatekeeper
        <4>2. CASE ~Vote(0, SkepticFailure)
          <5>1. run'[0] = "cold"
            BY <1>1, <3>2, <4>2 DEF SpawnFails
          <5> QED
            BY <2>1, <5>1 DEF Remembered, KeepsGatekeeper
        <4> QED
          BY <4>1, <4>2
      <3> QED
        BY <1>3, <2>2, <3>1, <3>2 DEF Skeptic
    <2>3. CASE i # 0
      <3>1. run'[0] = run[0] /\ result'[0] = result[0]
        BY <1>1, <1>3, <2>3 DEF Skeptic, SpawnFails, Return, Vote
      <3> QED
        BY <2>1, <3>1 DEF Remembered, KeepsGatekeeper
    <2> QED
      BY <2>2, <2>3
  <1>4. ASSUME NEW i \in Seats, NEW b \in Bodies, WriteVerdict(i, b)
        PROVE  Remembered' /\ [KeepsGatekeeper]_vars
    BY <1>4 DEF WriteVerdict, Runs, Remembered, KeepsGatekeeper
  <1>5. CASE Reserve \/ Launch
    <2>1. run'[0] # "done" /\ UNCHANGED <<size, prior, known>>
      BY <1>1, <1>5 DEF Reserve, Launch
    <2> QED
      BY <2>1 DEF Remembered, KeepsGatekeeper
  <1>6. CASE GateRejects \/ FailOpen \/ FanOut \/ Cancel \/ ResetAttempts
    BY <1>1, <1>6 DEF GateRejects, FailOpen, FanOut, Cancel, ResetAttempts, Remembered, KeepsGatekeeper
  <1>7. CASE UNCHANGED vars
    BY <1>7 DEF vars, Remembered
  <1> QED
    BY <1>2, <1>3, <1>4, <1>5, <1>6, <1>7 DEF Next, Harness

(* For any panel size the recorded session can be resumed, unless a panel  *)
(* ran to its end on a skeptic 0 that cast no vote of its own.             *)
THEOREM GatekeeperKept == Spec => GatekeeperFollowsGoal
  <1>1. Init => Remembered
    BY DEF Init, Remembered
  <1> QED
    BY <1>1, RememberedStep, Inductive, PTL DEF Spec, GatekeeperFollowsGoal

=============================================================================
