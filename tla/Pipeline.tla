------------------------------ MODULE Pipeline ------------------------------
(***************************************************************************)
(* What a session over N stages promises its callers, without frames,      *)
(* connections and the stages' counters: calls are taken one at a time;    *)
(* each fails or is answered, once, with what the stages make of its own   *)
(* activation, every stage once and in order.  StageSession implements     *)
(* this specification.                                                     *)
(*                                                                         *)
(* The activation of the c-th call is represented by c, what was made of   *)
(* it by the stages it went through.                                       *)
(***************************************************************************)
EXTENDS Integers, Sequences

CONSTANT N

VARIABLES
  calls,     \* calls so far
  busy,      \* the last of them has not returned
  answers    \* what the successful ones returned, in order

vars == <<calls, busy, answers>>

Applied(c) == [input |-> c, through |-> [i \in 1..N |-> i]]

Call ==
  /\ ~busy /\ busy' = TRUE
  /\ calls' = calls + 1
  /\ UNCHANGED answers

Answer ==
  /\ busy /\ busy' = FALSE
  /\ answers' = Append(answers, [call |-> calls, value |-> Applied(calls)])
  /\ UNCHANGED calls

Fail ==
  /\ busy /\ busy' = FALSE
  /\ UNCHANGED <<calls, answers>>

Init == calls = 0 /\ busy = FALSE /\ answers = <<>>

Next == Call \/ Answer \/ Fail

Spec == Init /\ [][Next]_vars
=============================================================================
