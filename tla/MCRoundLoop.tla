----------------------------- MODULE MCRoundLoop -----------------------------
(***************************************************************************)
(* RoundLoop on a small world: two observations that worked, one that did  *)
(* not, and one set of finished criteria to claim.                         *)
(***************************************************************************)
EXTENDS RoundLoop

CONSTANTS o1, o2, quiet, c1

MCObservations == {o1, o2, quiet}
MCIdleObservations == {quiet}
MCClaims == {{c1}}
=============================================================================
