---------------------------- MODULE ModelUpload ----------------------------
(***************************************************************************)
(* Uploading one model to one host: the content-addressed store of         *)
(* internal/modelcache behind the host's two model-cache handlers, and the *)
(* resumable upload loop Proxy.ensureModel that drives them.               *)
(*                                                                         *)
(* One digest is modelled; the store keeps a mutex and two files per       *)
(* digest.  A file is its length and whether its bytes are a prefix of the *)
(* model the digest names.  Within one proxy lockUpload admits one upload  *)
(* of a digest at a time, so an uploader is a proxy.                       *)
(***************************************************************************)
EXTENDS Integers, FiniteSets

CONSTANTS
  Proxy,         \* proxies that may upload this model to this host
  Worlds,        \* the circumstances a behaviour may have, see World
  ChunkLimit,    \* the host's MaxUploadChunk
  NoFile,        \* the model is not in the cache
  Idle           \* no upload holds the digest's mutex

VARIABLES
  world,      \* who uploads what; never changes
  part,       \* <digest>.part
  model,      \* <digest>.gguf
  writer,     \* the Append that holds the digest's mutex
  pending,    \* uploads waiting for the mutex
  pc,         \* where each proxy's ensureModel is
  received,   \* its status.Received
  faults      \* failures so far

(* size and chunk give lease.ModelSize and Server.uploadChunkSize of every  *)
(* proxy that takes part; genuine are those whose local file still is the   *)
(* model it was hashed as; the digest names a model of trueSize bytes; at   *)
(* most maxFaults failures happen.                                          *)
World(w) ==
  /\ DOMAIN w.size \subseteq Proxy /\ w.genuine \subseteq DOMAIN w.size
  /\ w.size \in [DOMAIN w.size -> Nat \ {0}]
  /\ w.chunk \in [DOMAIN w.size -> Nat \ {0}]
  /\ w.trueSize \in Nat \ {0} /\ w.maxFaults \in Nat

File == [len : Nat, genuine : BOOLEAN]
Empty == [len |-> 0, genuine |-> TRUE]

ASSUME UploadAssumption ==
  /\ ChunkLimit \in Nat \ {0}
  /\ \A w \in Worlds : World(w)
  /\ NoFile \notin File

Uploaders == DOMAIN world.size
Size == world.size
Chunk == world.chunk
TrueSize == world.trueSize

store == <<part, model>>
changing == <<store, writer, pending, pc, received, faults>>
vars == <<world, changing>>

Request == [by : Proxy, offset : Nat, live : BOOLEAN]
Upload == [request : Request, written : Nat, before : File]

Least(a, b) == IF a < b THEN a ELSE b

Fault == faults < world.maxFaults /\ faults' = faults + 1
-----------------------------------------------------------------------------
(***************************************************************************)
(* The store.                                                              *)
(***************************************************************************)

Verified_SizeOnly(file) == file.len = TrueSize

(* verifyFile: the bytes hash to the digest. *)
Verified(file) == file.genuine /\ file.len = TrueSize

(* statusUnlocked: what the store holds, as a lease for size bytes sees it. *)
(* A complete part file, left by a crash before the rename, is verified and *)
(* published or thrown away; one longer than the lease is thrown away.      *)
Status(size) ==
  CASE model # NoFile ->
         [part |-> part, model |-> model, received |-> size,
          ready |-> model.len = size, error |-> model.len # size]
    [] model = NoFile /\ part.len = size /\ Verified(part) ->
         [part |-> Empty, model |-> part, received |-> size,
          ready |-> TRUE, error |-> FALSE]
    [] model = NoFile /\ part.len >= size /\ ~(part.len = size /\ Verified(part)) ->
         [part |-> Empty, model |-> NoFile, received |-> 0,
          ready |-> FALSE, error |-> FALSE]
    [] model = NoFile /\ part.len < size ->
         [part |-> part, model |-> NoFile, received |-> part.len,
          ready |-> FALSE, error |-> FALSE]

(* statusUnlocked finds a complete part and cannot rename it, which is an   *)
(* error to whoever asked.  The part stays.                                 *)
PublishFails(size) ==
  /\ Fault
  /\ writer = Idle /\ model = NoFile /\ part.len = size /\ Verified(part)
  /\ UNCHANGED <<store, writer>>

-----------------------------------------------------------------------------
(***************************************************************************)
(* The proxy.                                                              *)
(***************************************************************************)

Goto(u, label) == pc' = [pc EXCEPT ![u] = label]

(* lockUpload, then GET the status. *)
EnsureModel(u) ==
  /\ u \in Uploaders /\ pc[u] \in {"idle", "ready"}
  /\ Goto(u, "asking")
  /\ UNCHANGED <<store, writer, pending, received, faults>>

(* The host answers: its handler waits for the mutex, inspects the files    *)
(* and lets go.                                                             *)
ModelStatus(u) ==
  LET s == Status(Size[u]) IN
    /\ pc[u] = "asking" /\ writer = Idle
    /\ part' = s.part /\ model' = s.model
    /\ received' = [received EXCEPT ![u] = IF s.error THEN 0 ELSE s.received]
    /\ Goto(u, CASE s.error -> "idle" [] s.ready -> "ready" [] OTHER -> "sending")
    /\ UNCHANGED <<writer, pending, faults>>

StatusFails(u) ==
  /\ pc[u] = "asking" /\ PublishFails(Size[u])
  /\ Goto(u, "idle") /\ UNCHANGED <<pending, received>>

Put_FromStart(u) ==
  /\ pc[u] = "sending"
  /\ pending' = pending \cup {[by |-> u, offset |-> 0, live |-> TRUE]}
  /\ Goto(u, "waiting")
  /\ UNCHANGED <<store, writer, received, faults>>

(* PUT the next chunk at the offset the host reported last. *)
Put(u) ==
  /\ pc[u] = "sending"
  /\ pending' = pending \cup {[by |-> u, offset |-> received[u], live |-> TRUE]}
  /\ Goto(u, "waiting")
  /\ UNCHANGED <<store, writer, received, faults>>

(* The answer to an upload reaches the proxy, unless it has given up. *)
Answered(r, offset) ==
  IF r.live
  THEN /\ received' = [received EXCEPT ![r.by] = offset]
       /\ Goto(r.by, IF offset <= received[r.by] THEN "idle"
                     ELSE IF offset < Size[r.by] THEN "sending" ELSE "ready")
  ELSE UNCHANGED <<pc, received>>

Failed(r) ==
  /\ IF r.live THEN Goto(r.by, "idle") ELSE UNCHANGED pc
  /\ UNCHANGED received

Dead(r) == [r EXCEPT !.live = FALSE]

(* The proxy's request is cancelled, or its connection breaks: the handler  *)
(* it has started goes on until it notices.                                 *)
Abandon(u) ==
  /\ Fault
  /\ pc[u] \in {"asking", "sending", "waiting"}
  /\ Goto(u, "idle")
  /\ pending' = {IF r.by = u THEN Dead(r) ELSE r : r \in pending}
  /\ writer' = IF writer # Idle /\ writer.request.by = u
               THEN [writer EXCEPT !.request = Dead(@)] ELSE writer
  /\ UNCHANGED <<store, received>>

-----------------------------------------------------------------------------
(***************************************************************************)
(* The host's upload handler: Store.Append.                                *)
(***************************************************************************)

(* authorizeModelTransfer: the lease token has expired. *)
Unauthorised(r) ==
  /\ Fault
  /\ pending' = pending \ {r}
  /\ Failed(r)
  /\ UNCHANGED <<store, writer>>

Append_AnyOffset(r) ==
  LET s == Status(Size[r.by]) IN
    /\ writer = Idle
    /\ pending' = pending \ {r}
    /\ part' = s.part /\ model' = s.model
    /\ CASE s.ready -> Answered(r, s.received) /\ UNCHANGED writer
         [] ~s.ready /\ s.error -> Failed(r) /\ UNCHANGED writer
         [] OTHER -> /\ writer' = [request |-> r, written |-> 0, before |-> s.part]
                     /\ UNCHANGED <<pc, received>>
    /\ UNCHANGED faults

(* Append takes the mutex and looks at the files: the model is ready        *)
(* already, or is in the way, or the offset is not where the part ends, or  *)
(* the part is opened for appending.                                        *)
Append(r) ==
  LET s == Status(Size[r.by]) IN
    /\ writer = Idle
    /\ pending' = pending \ {r}
    /\ part' = s.part /\ model' = s.model
    /\ CASE s.ready -> Answered(r, s.received) /\ UNCHANGED writer
         [] ~s.ready /\ (s.error \/ s.received # r.offset) -> Failed(r) /\ UNCHANGED writer
         [] OTHER -> /\ writer' = [request |-> r, written |-> 0, before |-> s.part]
                     /\ UNCHANGED <<pc, received>>
    /\ UNCHANGED faults

AppendFails(r) ==
  /\ PublishFails(Size[r.by])
  /\ pending' = pending \ {r}
  /\ Failed(r)

(* What io.Copy takes from the request: its chunk, but one byte more than   *)
(* the limit at most.                                                       *)
Body(r) == Least(Least(Size[r.by] - r.offset, Chunk[r.by]), ChunkLimit + 1)

Copy ==
  /\ writer # Idle /\ writer.written < Body(writer.request)
  /\ part' = [len |-> part.len + 1,
              genuine |-> part.genuine /\ writer.request.by \in world.genuine]
  /\ writer' = [writer EXCEPT !.written = @ + 1]
  /\ UNCHANGED <<model, pending, pc, received, faults>>

CopyFails_Discards ==
  /\ writer # Idle
  /\ Fault \/ (~writer.request.live /\ UNCHANGED faults)
  /\ part' = Empty /\ Failed(writer.request)
  /\ writer' = Idle /\ UNCHANGED <<model, pending>>

(* The body breaks off, as it may at any time once the proxy has gone.      *)
(* What was copied stays in the part.                                       *)
CopyFails ==
  /\ writer # Idle
  /\ Fault \/ (~writer.request.live /\ UNCHANGED faults)
  /\ Failed(writer.request)
  /\ writer' = Idle /\ UNCHANGED <<store, pending>>

Copied == writer # Idle /\ writer.written = Body(writer.request)

(* The chunk is longer than the host allows, or runs past the lease. *)
TooLong ==
  LET r == writer.request IN
    /\ Copied
    /\ writer.written > ChunkLimit \/ r.offset + writer.written > Size[r.by]
    /\ part' = writer.before
    /\ Failed(r)
    /\ writer' = Idle /\ UNCHANGED <<model, pending, faults>>

Fits == Copied /\ writer.written <= ChunkLimit
               /\ writer.request.offset + writer.written <= Size[writer.request.by]

Offset == writer.request.offset + writer.written

Partial ==
  /\ Fits /\ Offset < Size[writer.request.by]
  /\ Answered(writer.request, Offset)
  /\ writer' = Idle /\ UNCHANGED <<store, pending, faults>>

(* The last byte is in: the part is published under the digest if its bytes *)
(* hash to it, and thrown away if they do not.                              *)
Complete ==
  /\ Fits /\ Offset = Size[writer.request.by]
  /\ part' = Empty
  /\ IF Verified(part)
     THEN model' = part /\ Answered(writer.request, Offset)
     ELSE Failed(writer.request) /\ UNCHANGED model
  /\ writer' = Idle /\ UNCHANGED <<pending, faults>>

RenameFails_Ready ==
  /\ Fault
  /\ Fits /\ Offset = Size[writer.request.by] /\ Verified(part)
  /\ Answered(writer.request, Offset)
  /\ writer' = Idle /\ UNCHANGED <<store, pending>>

RenameFails ==
  /\ Fault
  /\ Fits /\ Offset = Size[writer.request.by] /\ Verified(part)
  /\ Failed(writer.request)
  /\ writer' = Idle /\ UNCHANGED <<store, pending>>

(* The host process dies and is restarted; the files stay as they are. *)
Crash ==
  /\ Fault
  /\ writer' = Idle /\ pending' = {}
  /\ pc' = [u \in Proxy |-> IF pc[u] \in {"asking", "waiting"} THEN "idle" ELSE pc[u]]
  /\ UNCHANGED <<store, received>>

-----------------------------------------------------------------------------
Init ==
  /\ world \in Worlds
  /\ part = Empty /\ model = NoFile
  /\ writer = Idle /\ pending = {}
  /\ pc = [u \in Proxy |-> "idle"] /\ received = [u \in Proxy |-> 0]
  /\ faults = 0

Serve(u) == \E r \in pending : r.by = u /\ Append(r)
Handle == Copy \/ TooLong \/ Partial \/ Complete

Next ==
  /\ \/ \E u \in Proxy : \/ EnsureModel(u) \/ ModelStatus(u) \/ StatusFails(u)
                        \/ Put(u) \/ Serve(u) \/ Abandon(u)
     \/ Handle \/ CopyFails \/ RenameFails \/ Crash
     \/ \E r \in pending : Unauthorised(r) \/ AppendFails(r)
  /\ UNCHANGED world

(* The host's goroutines are scheduled, a Go mutex starves no one who waits *)
(* for it, and chat requests for the model keep coming.                     *)
Fairness ==
  /\ WF_changing(Handle)
  /\ \A u \in Proxy : /\ WF_changing(EnsureModel(u)) /\ WF_changing(Put(u))
                      /\ SF_changing(ModelStatus(u)) /\ SF_changing(Serve(u))

Spec == Init /\ [][Next]_vars /\ Fairness

-----------------------------------------------------------------------------
(***************************************************************************)
(* Properties.                                                             *)
(***************************************************************************)

(* Every variable has its type, and the upload that holds the mutex has     *)
(* appended exactly what it counts to what it found (Store.Append).         *)
TypeOK ==
  /\ world \in Worlds
  /\ part \in File /\ model \in File \cup {NoFile}
  /\ writer = Idle \/ (/\ writer \in Upload
                       /\ part.len = writer.request.offset + writer.written)
  /\ pending \subseteq Request
  /\ pc \in [Proxy -> {"idle", "asking", "sending", "waiting", "ready"}]
  /\ received \in [Proxy -> Nat] /\ faults \in 0..world.maxFaults

(* What the cache publishes under a digest is the model with that digest,   *)
(* whole, although uploads of several proxies, some from a file that has    *)
(* changed, resume one another's parts and hosts crash at any point         *)
(* (statusUnlocked and Append both verify before they rename).              *)
CacheIsGenuine == model # NoFile => model.genuine /\ model.len = TrueSize

(* When ensureModel returns success the model is in the host's cache: no    *)
(* crash, lost answer, failed rename or other upload has the proxy forward  *)
(* a chat to a host that does not hold its model.                           *)
ReadyMeansCached == \A u \in Proxy : pc[u] = "ready" => model # NoFile

Store == INSTANCE DigestStore WITH
  Client <- Proxy, Absent <- NoFile,
  named <- [len |-> TrueSize, genuine |-> TRUE], content <- model,
  told <- {u \in Proxy : pc[u] = "ready"}

(* The uploads implement the store the proxies rely on: what is published   *)
(* is the model, it is never replaced or removed, and ensureModel succeeds  *)
(* only while it is there (Store.Append, statusUnlocked, ensureModel).      *)
ImplementsDigestStore == Store!Spec

(* An offset the host has reported stays good: while every upload is of the *)
(* genuine file, what was acknowledged is never lost to a crash, a broken   *)
(* body or an overlong chunk, so an upload resumes where it stopped.        *)
Honest == Uploaders = world.genuine /\ \A u \in Uploaders : Size[u] = TrueSize

AcknowledgedKept ==
  Honest =>
    \A u \in Uploaders :
      received[u] <= IF model # NoFile THEN model.len
                     ELSE IF writer # Idle THEN writer.before.len ELSE part.len

(* Uploads of the genuine file that get in one another's way still get the  *)
(* model there: once failures stop, it is in the cache (Store.Append        *)
(* refuses a chunk at another offset, and the next ensureModel resumes).    *)
EventuallyCached == Honest => <>(model # NoFile)
=============================================================================
