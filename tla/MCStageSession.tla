--------------------------- MODULE MCStageSession ---------------------------
(* Small instances of StageSession for TLC. *)
EXTENDS StageSession

MCHiddenSize == [s \in Stage |-> 1]
=============================================================================
