---------------------------- MODULE MCGoalTracker ----------------------------
(* GoalTracker for TLC: one criterion, one gap, every threshold small enough
   to be crossed within MaxCount. *)
EXTENDS GoalTracker

TrackedCriteria == {1}
TrackedGaps == {1}

=============================================================================
