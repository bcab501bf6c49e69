------------------------------ MODULE MCRelay ------------------------------
(* A small instance of Relay for TLC: one pair whose agents dial from two   *)
(* addresses, and two streams, one opened by each side.                     *)
EXTENDS Relay

CONSTANTS pair, s1, s2

MCForward ==
  [s \in {s1, s2} |->
     IF s = s1 THEN [pair |-> pair, role |-> "requester", target |-> "provider-host"]
               ELSE [pair |-> pair, role |-> "provider", target |-> "requester-control"]]
MCIP == [p \in {pair} |-> [r \in Role |-> r]]
=============================================================================
