------------------------- MODULE CompletionAuthority -------------------------
(***************************************************************************)
(* What the session promises about finishing a goal, without turns, plans  *)
(* or panels: a goal is finished only from a running state in which the    *)
(* work was accepted and nothing claimed open is left, and a finished goal *)
(* stays finished until it is replaced or dropped.                         *)
(*                                                                         *)
(* doggy_gate.rs calls this the sole production completion authority;      *)
(* GoalSession is shown to implement it.                                   *)
(***************************************************************************)

VARIABLES
    life,      \* "none", "running", "paused", "done" or "exhausted" (budget)
    accepted,  \* the panel's last word on the goal is Achieved
    open       \* some criterion still in play is not claimed finished

vars == <<life, accepted, open>>

Init == life = "none" /\ accepted = FALSE /\ open \in BOOLEAN

\* The user sets a goal, replacing what was there.
Begin == life' = "running" /\ accepted' = FALSE /\ open' \in BOOLEAN

\* Work, claims, verdicts and deferrals: anything but the goal's life.
Work == life' = life /\ accepted' \in BOOLEAN /\ open' \in BOOLEAN

Suspend == life = "running" /\ life' = "paused" /\ accepted' \in BOOLEAN /\ open' \in BOOLEAN
Continue == life = "paused" /\ life' = "running" /\ UNCHANGED <<accepted, open>>
Exhaust == life \in {"running", "paused"} /\ life' = "exhausted" /\ UNCHANGED <<accepted, open>>
Drop == life' = "none" /\ accepted' = FALSE /\ open' \in BOOLEAN

\* Only accepted work without open criteria is finished.
Accept ==
    /\ life = "running"
    /\ accepted
    /\ ~open
    /\ life' = "done"
    /\ UNCHANGED <<accepted, open>>

Next == Begin \/ Work \/ Suspend \/ Continue \/ Exhaust \/ Drop \/ Accept

Spec == Init /\ [][Next]_vars

=============================================================================
