--------------------------- MODULE MCModelUpload ---------------------------
(* Small instances of ModelUpload for TLC. *)
EXTENDS ModelUpload, TLC

CONSTANTS p1, p2, p3

(* p1 uploads the model; the file of p2 has changed since it was hashed;    *)
(* p3 takes the model for shorter than it is and sends overlong chunks.     *)
MixedWorld ==
  [size |-> p1 :> 4 @@ p2 :> 4 @@ p3 :> 3, chunk |-> p1 :> 2 @@ p2 :> 2 @@ p3 :> 3,
   genuine |-> {p1, p3}, trueSize |-> 4, maxFaults |-> 1]

(* Two proxies with the genuine file; p2 sends chunks the host refuses. *)
HonestWorld ==
  [size |-> p1 :> 5 @@ p2 :> 5, chunk |-> p1 :> 2 @@ p2 :> 3,
   genuine |-> {p1, p2}, trueSize |-> 5, maxFaults |-> 2]

MCWorlds == {MixedWorld, HonestWorld}
=============================================================================
