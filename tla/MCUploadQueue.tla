----------------------------- MODULE MCUploadQueue -----------------------------
(* UploadQueue with one blocking and one deferred artifact. *)
EXTENDS UploadQueue, TLC

CONSTANTS a1, a2

MCSize == (a1 :> 1) @@ (a2 :> 2)
=============================================================================
