------------------------------ MODULE Planner ------------------------------
(***************************************************************************)
(* PlanLayers and chooseLayerEnd (src/internal/distributed/planner.go) as  *)
(* the loops they are: count the candidates that hold the model, then cut  *)
(* the layers into one contiguous range per stage.  One action is one      *)
(* iteration, so that the invariants of the loops can be stated and        *)
(* proved.  Control uses only the result of the first loop, through        *)
(* StagePlans of Scheduling: PlanMeetsContract ties the two.               *)
(***************************************************************************)
EXTENDS Scheduling, Sequences

CONSTANT Inputs     \* [cands, bytes, minNodes, maxNodes]: the calls considered

VARIABLES
  input,
  pc,          \* "begin", "count", "assign", "extend", "done" or "rejected"
  usable,      \* the candidates, sorted
  count,       \* stages counted so far, then the number of stages
  total,       \* combined memory of the counted candidates
  start,       \* first layer not yet assigned
  end,         \* the open stage ends before this layer
  assigned,    \* bytes of the open stage
  plan         \* the stages closed so far

vars == <<input, pc, usable, count, total, start, end, assigned, plan>>

ASSUME PlannerAssumption ==
  \A in \in Inputs :
    /\ IsFiniteSet(in.cands)
    /\ \A a \in in.cands : {a.id, a.active, a.slots, a.memory} \subseteq Int
    /\ \A a, b \in in.cands : a.id = b.id => a = b
    /\ in.bytes \in Seq(Int)
    /\ in.minNodes \in Int /\ in.maxNodes \in Int

Layers == Len(input.bytes)

\* Bytes of the layers from..(to-1); layer l is the entry l + 1 of the list.
Bytes(from, to) == SumFunctionOnSet(input.bytes, (from + 1)..to)

ModelSize == Bytes(0, Layers)
Lo == MinStages(input.minNodes)
Hi == MaxStages(input.maxNodes, Layers)

-----------------------------------------------------------------------------
(* Which candidates *)

Rejects ==
  \/ Layers < 2 \/ Hi < Lo \/ Cardinality(input.cands) < Lo
  \/ \E i \in DOMAIN input.bytes : input.bytes[i] < 0

Begin ==
  /\ pc = "begin"
  /\ IF Rejects
     THEN pc' = "rejected" /\ UNCHANGED <<usable, count>>
     ELSE /\ usable' \in Sorted(input.cands)
          /\ IF ModelSize > 0
             THEN pc' = "count" /\ UNCHANGED count
             ELSE pc' = "assign" /\ count' = Min({Hi, Cardinality(input.cands)})
  /\ UNCHANGED <<input, total, start, end, assigned, plan>>

More == count < Cardinality(input.cands) /\ count < Hi

\* Variant: the loop stops as soon as the minimum number of nodes is reached.
Enough_MinOnly(n, memory) == n >= Lo

Enough(n, memory) == n >= Lo /\ memory >= NeededMB(ModelSize)

CountNode ==
  /\ pc = "count" /\ More
  /\ count' = count + 1
  /\ total' = total + Weight(usable[count + 1])
  /\ pc' = IF Enough(count', total') THEN "assign" ELSE "count"
  /\ UNCHANGED <<input, usable, start, end, assigned, plan>>

\* Every candidate is counted.  (The correction of count to minNodes that follows
\* in the code never applies: the loop counts at least minNodes candidates.)
OutOfNodes ==
  /\ pc = "count" /\ ~More
  /\ pc' = IF total < NeededMB(ModelSize) THEN "rejected" ELSE "assign"
  /\ UNCHANGED <<input, usable, count, total, start, end, assigned, plan>>

-----------------------------------------------------------------------------
(* Which layers *)

Stage == Len(plan) + 1      \* the stage being assigned

\* The stage's share of what is left, by memory.
Target ==
  LET weights == [i \in DOMAIN usable |-> Weight(usable[i])]
  IN (Bytes(start, Layers) * weights[Stage])
       \div SumFunctionOnSet(weights, Stage..count)

\* Every later stage keeps at least one layer.
MaxEnd == Layers - (count - Stage)

Distance(a, b) == IF a < b THEN b - a ELSE a - b

Overshoots ==
  \/ assigned >= Target
  \/ Distance(assigned + input.bytes[end + 1], Target) > Distance(assigned, Target)

\* Variant: a stage may take layers the later stages need.
StageFull_NoReserve == end >= Layers \/ Overshoots

StageFull == end >= MaxEnd \/ Overshoots

OpenStage ==
  /\ pc = "assign" /\ Stage < count
  /\ end' = start + 1
  /\ assigned' = input.bytes[start + 1]
  /\ pc' = "extend"
  /\ UNCHANGED <<input, usable, count, total, start, plan>>

\* Variant: the end of the stage does not move.
Extend_Stays ==
  /\ pc = "extend" /\ ~StageFull
  /\ assigned' = assigned + input.bytes[end + 1]
  /\ UNCHANGED <<input, pc, usable, count, total, start, end, plan>>

Extend ==
  /\ pc = "extend" /\ ~StageFull
  /\ assigned' = assigned + input.bytes[end + 1]
  /\ end' = end + 1
  /\ UNCHANGED <<input, pc, usable, count, total, start, plan>>

\* Variant: the stage reports the running total chooseLayerEnd came to.
Assignment_RunningTotal(from, to) ==
  [node |-> usable[Stage].id, layerStart |-> from, layerEnd |-> to,
   memory |-> usable[Stage].memory, tensorBytes |-> assigned]

Assignment(from, to) ==
  [node |-> usable[Stage].id, layerStart |-> from, layerEnd |-> to,
   memory |-> usable[Stage].memory, tensorBytes |-> Bytes(from, to)]

CloseStage ==
  /\ pc = "extend" /\ StageFull
  /\ plan' = Append(plan, Assignment(start, end))
  /\ start' = end
  /\ pc' = "assign"
  /\ UNCHANGED <<input, usable, count, total, end, assigned>>

\* The last stage takes every layer that is left.
LastStage ==
  /\ pc = "assign" /\ Stage = count
  /\ plan' = Append(plan, Assignment(start, Layers))
  /\ start' = Layers
  /\ pc' = "done"
  /\ UNCHANGED <<input, usable, count, total, end, assigned>>

Init ==
  /\ input \in Inputs
  /\ pc = "begin" /\ usable = <<>> /\ plan = <<>>
  /\ count = 0 /\ total = 0 /\ start = 0 /\ end = 0 /\ assigned = 0

Next == Begin \/ CountNode \/ OutOfNodes \/ OpenStage \/ Extend \/ CloseStage \/ LastStage

\* A sequential function: it runs to its return.
Spec == Init /\ [][Next]_vars /\ WF_vars(Next)

-----------------------------------------------------------------------------
(* Properties *)

\* Type invariant of the planner's locals: the loops stay within the candidates
\* and within the layers, so no slice expression of the code is out of range.
TypeOK ==
  /\ input \in Inputs
  /\ pc \in {"begin", "count", "assign", "extend", "done", "rejected"}
  /\ count \in 0..Cardinality(input.cands)
  /\ start \in 0..Layers
  /\ pc = "extend" => end \in (start + 1)..MaxEnd /\ MaxEnd < Layers
  /\ Len(plan) <= count

\* The stages closed so far are contiguous, none is empty, and enough layers are
\* left for the stages still to come; a finished plan covers every layer exactly
\* once (PlanLayers lines 85-93, chooseLayerEnd's maxEnd at line 113).
LayersPartitioned ==
  /\ \A i \in DOMAIN plan :
       /\ plan[i].layerStart < plan[i].layerEnd
       /\ plan[i].layerStart = IF i = 1 THEN 0 ELSE plan[i - 1].layerEnd
  /\ pc \in {"assign", "extend"} => Layers - start >= count - Len(plan)
  /\ pc = "done" => plan[Len(plan)].layerEnd = Layers /\ Len(plan) = count

\* What the stages of the plan report together.
Sizes == [i \in DOMAIN plan |-> plan[i].tensorBytes]
PlacedBytes == SumFunctionOnSet(Sizes, DOMAIN plan)

\* The stages report exactly the bytes of the layers given out so far, and the
\* running total of the open stage is the size of its range: every byte of the
\* model is on one stage and counted there once, although chooseLayerEnd and
\* PlanLayers (lines 83-92) add the same sizes up separately.
EveryByteOnce ==
  /\ PlacedBytes = Bytes(0, start)
  /\ pc = "extend" => assigned = Bytes(start, end)
  /\ pc = "done" => PlacedBytes = ModelSize

\* The loops return what Control relies on: the fewest nodes, in order of load
\* and memory, whose memory together holds the model, and an error exactly when
\* there is no such group (lines 31-77 with the request limits).
PlanMeetsContract ==
  LET plans == StagePlans(input.cands, Layers, ModelSize, input.minNodes, input.maxNodes)
      negative == \E i \in DOMAIN input.bytes : input.bytes[i] < 0
  IN /\ pc = "done" => [i \in DOMAIN plan |-> plan[i].node] \in plans
     /\ pc = "rejected" => negative \/ plans = {}

\* The loops end: the function returns a plan or an error.
Terminates == <>(pc \in {"done", "rejected"})

\* What the README says of a group (README.md line 51, README_EN.md line 51): it
\* is refused when any node's capacity does not suffice.  Every stage of a plan
\* fits into the memory its node reported.
StageFitsMemory ==
  pc = "done" =>
    \A i \in DOMAIN plan :
      plan[i].memory > 0 => NeededMB(plan[i].tensorBytes) <= plan[i].memory
=============================================================================
