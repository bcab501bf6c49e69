----------------------------- MODULE MCPlanner -----------------------------
(***************************************************************************)
(* Every call of the planner with up to three candidates of mixed memory   *)
(* and load and two to four layers of mixed size, a negative one included. *)
(***************************************************************************)
EXTENDS Planner

Loads == { <<0, 1>>, <<1, 2>> }
Memories == {0, 1, 3}

Cand(n, load, memory) ==
  [id |-> n, active |-> load[1], slots |-> load[2], memory |-> memory]

\* Nodes 2 and 3 are idle, node 1 may be half busy: ties and strict orders occur.
Pools ==
  UNION { { {Cand(n, IF n = 1 THEN load ELSE <<0, 1>>, m[n]) : n \in S} :
              m \in [S -> Memories], load \in Loads } : S \in SUBSET (1..3) }

LayerLists ==
  UNION { [1..n -> {1, 4}] : n \in 1..3 }
    \cup { <<0, 0>>, <<1, 0, 4>>, <<0, 4, 0>>, <<1, 1, 1, 4>>, <<4, 4, 1, 1>>, <<2, -1, 2>> }

Limits == { <<0, 0>>, <<2, 3>>, <<3, 2>> }

MCInputs ==
  { [cands |-> c, bytes |-> b, minNodes |-> l[1], maxNodes |-> l[2]] :
      c \in Pools, b \in LayerLists, l \in Limits }
=============================================================================
