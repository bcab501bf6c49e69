------------------------ MODULE MCDistributedManager ------------------------
(* Small instances of DistributedManager for TLC. *)
EXTENDS DistributedManager

=============================================================================
