----------------------------- MODULE ByteStream -----------------------------
(***************************************************************************)
(* What a tunnelled connection promises the two programs it joins: each    *)
(* reads the other's bytes, in order, none missing and none twice, and the *)
(* connection closes only when a program is through or the network fails.  *)
(* The bytes of a program are numbered 1, 2, 3...                          *)
(***************************************************************************)
EXTENDS Integers, Sequences

CONSTANTS End, Peer(_)

VARIABLES
  sent,   \* bytes a program has written, by end
  got,    \* bytes it has been given
  open,   \* its connection
  over    \* a program has ended its output, or the network has failed

vars == <<sent, got, open, over>>

(* The n bytes that follow the first k. *)
Run(k, n) == [i \in 1..n |-> k + i]

Send(e) ==
  /\ sent'[e] \in Nat /\ sent'[e] > sent[e]
  /\ sent' = [sent EXCEPT ![e] = sent'[e]]
  /\ UNCHANGED <<got, open, over>>

Deliver(e) ==
  /\ open[e]
  /\ \E n \in 1..(sent[Peer(e)] - Len(got[e])) :
       got' = [got EXCEPT ![e] = @ \o Run(Len(@), n)]
  /\ UNCHANGED <<sent, open, over>>

Finish ==
  /\ over' = TRUE
  /\ UNCHANGED <<sent, got, open>>

Close(e) ==
  /\ over /\ open' = [open EXCEPT ![e] = FALSE]
  /\ UNCHANGED <<sent, got, over>>

Init ==
  /\ sent = [e \in End |-> 0] /\ got = [e \in End |-> <<>>]
  /\ open = [e \in End |-> TRUE] /\ over = FALSE

Next == Finish \/ \E e \in End : Send(e) \/ Deliver(e) \/ Close(e)

Spec == Init /\ [][Next]_vars
=============================================================================
