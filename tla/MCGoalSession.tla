---------------------------- MODULE MCGoalSession ----------------------------
(* GoalSession for TLC: plans of at most three criteria, the third built on
   the second and the second on the first, or independent ones. *)
EXTENDS GoalSession

Chain == [c \in 1 .. MaxRows |-> {c - 1} \ {0}]
Independent == [c \in 1 .. MaxRows |-> {}]

=============================================================================
