---------------------------- MODULE DigestStore ----------------------------
(***************************************************************************)
(* What a host's model cache promises the proxies, for one digest: the     *)
(* file under it is written once, is the one the digest names, stays, and  *)
(* an upload succeeds only when it is there.  ModelUpload implements this  *)
(* specification.                                                          *)
(***************************************************************************)
CONSTANTS
  Client,    \* who uploads
  Absent     \* no file

VARIABLES
  named,     \* the file the digest names
  content,   \* the file in the store
  told       \* the clients whose last upload succeeded

vars == <<named, content, told>>

Publish == content = Absent /\ content' = named

Tell(c) == content' = named /\ told' = told \cup {c}

Ask(c) == told' = told \ {c}

Init == content = Absent /\ told = {}

(* The last byte of an upload may publish the file and succeed at once. *)
Next ==
  /\ Publish \/ UNCHANGED content
  /\ (\E c \in Client : Tell(c) \/ Ask(c)) \/ UNCHANGED told
  /\ UNCHANGED named

Spec == Init /\ [][Next]_vars
=============================================================================
