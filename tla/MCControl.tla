----------------------------- MODULE MCControl -----------------------------
(***************************************************************************)
(* Control on two nodes, three reservations and two groups.  The times are *)
(* small and keep their order: a node that misses a heartbeat is stale at  *)
(* the next tick and a plain token ends with it, a reservation lasts two,  *)
(* the token of an upload longer.  One request at a time has read the      *)
(* clock and waits for the mutex while others pass it.                     *)
(***************************************************************************)
EXTENDS Control, TLC

CONSTANTS i1, i2, i3, g1, g2

MCIds == {i1, i2, i3}
MCGroupIds == {g1, g2}
Sym == Permutations(MCIds) \cup Permutations(MCGroupIds)

Report(n, slots, active, gpus) ==
  [node |-> n, secret |-> "host", models |-> {"m"}, uploads |-> TRUE,
   available |-> TRUE, ready |-> TRUE, scope |-> "local", slots |-> slots,
   active |-> active, distributed |-> TRUE, stageEndpoint |-> TRUE,
   gpus |-> gpus, memFree |-> 1, memTotal |-> 4]

\* Node 1 registers with two slots and may come back with one, or with more
\* tasks than slots; node 2 leaves its slots to the default.
MCReports == { Report(1, 2, 0, {2}), Report(1, 1, 0, {2}), Report(1, 1, 2, {2}),
               Report(2, 0, 0, {}) }

MCCredentials == [n \in {1, 2} |-> [secret |-> "host", scope |-> IF n = 1 THEN "local" ELSE ""]]

MCLeaseRequests ==
  { [model |-> "m", digest |-> FALSE, size |-> 0, minVRAM |-> 0, target |-> AnyNode,
     scope |-> "", excluded |-> {}],
    [model |-> "m", digest |-> TRUE, size |-> 2, minVRAM |-> 1, target |-> AnyNode,
     scope |-> "local", excluded |-> {}] }

MCGroupRequests ==
  { [model |-> "m", digest |-> TRUE, size |-> 3, layers |-> 2, layerBytes |-> <<2, 1>>,
     minNodes |-> 0, maxNodes |-> 0, scope |-> ""] }

=============================================================================
