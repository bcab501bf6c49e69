--------------------------- MODULE MCSecureStream ---------------------------
(* A small instance of SecureStream for TLC. *)
EXTENDS SecureStream

MCMaxBytes == [e \in End |-> IF e = "requester" THEN 3 ELSE 1]
=============================================================================
