------------------------------ MODULE SlotPool ------------------------------
(***************************************************************************)
(* What the Control server promises its clients, without its maps and its  *)
(* clock: a pool of slots.  Control implements this specification, and     *)
(* Chat uses it in Control's place.                                        *)
(*                                                                         *)
(* A slot is held by an id.  An id is given to a client once; it is taken  *)
(* away for good by a release, by the end of its reservation or by a       *)
(* restart.                                                                *)
(***************************************************************************)
EXTENDS Integers, FiniteSets

CONSTANTS
  Node,
  Id

VARIABLES
  capacity,   \* the slots each node offers, 0 when it is unknown
  held,       \* the node of every id that holds a slot
  spent       \* ids clients have been given

vars == <<capacity, held, spent>>

Unknown == [n \in Node |-> 0]

Holders(S, n) == {id \in S : held[id] = n}
Load(S, n) == Cardinality(Holders(S, n))
Keeps(S) == DOMAIN held' = S /\ \A id \in S : held'[id] = held[id]

(* A node registers, again perhaps, with more slots or with fewer. *)
Offer ==
  /\ capacity' \in [Node -> Nat]
  /\ UNCHANGED <<held, spent>>

(* New ids, and for each a slot of a node of its own that has one free: a   *)
(* lease takes one, a group one for each of its stages.  Slots whose        *)
(* reservations have ended go first; S are the ones that stay.              *)
Grant ==
  \E S \in SUBSET DOMAIN held, new \in SUBSET (Id \ spent) :
    /\ spent' = spent \cup new
    /\ DOMAIN held' = S \cup new
    /\ \A id \in S : held'[id] = held[id]
    /\ \A id \in new : held'[id] \in Node /\ Load(S, held'[id]) < capacity[held'[id]]
    /\ \A i, j \in new : held'[i] = held'[j] => i = j
    /\ UNCHANGED capacity

(* Slots are released, or their reservations end. *)
End ==
  /\ \E S \in SUBSET DOMAIN held : Keeps(S)
  /\ UNCHANGED <<capacity, spent>>

(* The pool forgets its nodes and its slots, never which ids it has used. *)
Reset ==
  /\ capacity' = Unknown
  /\ Keeps({})
  /\ UNCHANGED spent

Init == capacity = Unknown /\ held = <<>> /\ spent = {}

Next == Offer \/ Grant \/ End \/ Reset

Spec == Init /\ [][Next]_vars
=============================================================================
