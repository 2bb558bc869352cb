----------------------------- MODULE MCSkepticPanel -----------------------------
(* SkepticPanel with every refutation; the labels of an approval are never read. *)
EXTENDS SkepticPanel

MCVerdicts ==
    {v \in [refuted: BOOLEAN, high: BOOLEAN, blocking: BOOLEAN] :
        v.refuted \/ (~v.high /\ ~v.blocking)}
=============================================================================
