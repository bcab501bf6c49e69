----------------------------- MODULE Scheduling -----------------------------
(***************************************************************************)
(* The two choices AIPool makes among registered nodes, as pure operators: *)
(* which node a single lease goes to (control/server.go) and which nodes,  *)
(* in which order, form a distributed group (distributed/planner.go).      *)
(*                                                                         *)
(* A candidate is a record [id, active, slots, memory]: the node, its      *)
(* busy slots, its MaxConcurrency and its memory in MiB.  Node ids are     *)
(* numbers, ordered as the code orders its strings.  The load              *)
(* active/slots is compared by cross multiplication: equal fractions are   *)
(* equal floats in the code.                                               *)
(***************************************************************************)
EXTENDS FiniteSetsExt

CONSTANT MiB            \* bytes in a unit of memory

ASSUME MiBAssumption == MiB \in Nat \ {0}

SameLoad(a, b) == a.active * b.slots = b.active * a.slots

\* The order of both choices: lower load, then more memory, then smaller id.
Before(a, b) ==
  \/ a.active * b.slots < b.active * a.slots
  \/ SameLoad(a, b) /\ a.memory > b.memory
  \/ SameLoad(a, b) /\ a.memory = b.memory /\ a.id < b.id

\* The candidates a lease may go to: the one that comes before all others.
Selected(C) == {a \in C : \A b \in C \ {a} : Before(a, b)}

\* sort.Slice by Before: the sorted arrangement of the set C (there is one).
Sorted(C) ==
  {s \in Bijection(1..Cardinality(C), C) :
     \A i, j \in 1..Cardinality(C) : i < j => Before(s[i], s[j])}

\* A candidate always counts for at least one MiB.
Weight(c) == Max({c.memory, 1})

\* Combined memory of the first n candidates of usable.
Memory(usable, n) ==
  SumFunctionOnSet([i \in DOMAIN usable |-> Weight(usable[i])], 1..n)

NeededMB(bytes) == (bytes + MiB - 1) \div MiB

MinStages(minNodes) == Max({minNodes, 2})

MaxStages(maxNodes, layers) ==
  IF maxNodes <= 0 \/ maxNodes > layers THEN layers ELSE maxNodes

\* How many of the first candidates of usable form the group: the fewest, at
\* least lo and at most hi, whose combined memory holds the model.  Empty when
\* they cannot; all of them when the size of the model is unknown.
StageCounts(usable, n, bytes, lo, hi) ==
  LET most == Min({hi, n})
      Fits(c) == Memory(usable, c) >= NeededMB(bytes)
  IN IF bytes = 0
     THEN {most}
     ELSE {c \in lo..most : Fits(c) /\ \A d \in lo..(c - 1) : ~Fits(d)}

\* The stages of a group in order, as node ids.  At most one; none when the
\* planner returns an error.
StagePlans(C, layers, bytes, minNodes, maxNodes) ==
  LET lo == MinStages(minNodes)
      hi == MaxStages(maxNodes, layers)
      n  == Cardinality(C)
  IN IF layers < 2 \/ hi < lo \/ n < lo
     THEN {}
     ELSE UNION { {[i \in 1..c |-> s[i].id] :
                     c \in StageCounts(s, n, bytes, lo, hi)} : s \in Sorted(C) }
=============================================================================
