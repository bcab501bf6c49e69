------------------------------- MODULE MCChat -------------------------------
(* A small instance of Chat for TLC. *)
EXTENDS Chat, TLC

CONSTANTS h1, h2, c1, c2, m1, m2

MCConcurrency == h1 :> 2 @@ h2 :> 1

(* Up to the names of chats and models, every pair but two plain ones. *)
MCAsks == c1 :> {m1} @@ c2 :> {m1, m2, Plain}
=============================================================================
