------------------------- MODULE ModelUploadProofs -------------------------
(***************************************************************************)
(* Proofs about ModelUpload, for any proxies, files, chunks, leases and    *)
(* any number of failures.                                                 *)
(***************************************************************************)
EXTENDS ModelUpload, TLAPS

(* Requests come from proxies that take part, and the upload that holds the *)
(* mutex found a part as long as its offset and no model.                   *)
Asked ==
  /\ \A u \in Proxy : pc[u] # "idle" => u \in Uploaders
  /\ \A r \in pending : r.by \in Uploaders
  /\ writer # Idle => /\ writer.request.by \in Uploaders
                      /\ writer.before.len = writer.request.offset
                      /\ writer.request.offset <= Size[writer.request.by]
                      /\ writer.written <= Size[writer.request.by] - writer.request.offset

(* While every upload is of the genuine file, the part is a prefix of it.   *)
PartIsPrefix ==
  Honest => /\ part.genuine /\ part.len <= TrueSize
            /\ writer # Idle => writer.before.genuine

IInv ==
  /\ TypeOK /\ Asked
  /\ CacheIsGenuine /\ ReadyMeansCached /\ PartIsPrefix /\ AcknowledgedKept
-----------------------------------------------------------------------------
(* What the type says of the world of a behaviour. *)
LEMMA WorldTypes ==
  ASSUME TypeOK
  PROVE  /\ Uploaders \subseteq Proxy /\ Size \in [Uploaders -> Nat \ {0}]
         /\ Chunk \in [Uploaders -> Nat \ {0}]
         /\ TrueSize \in Nat \ {0} /\ world.maxFaults \in Nat
         /\ world.genuine \subseteq Uploaders
<1>1. World(world)
  BY UploadAssumption DEF TypeOK
<1> QED BY <1>1 DEF World, Uploaders, Size, Chunk, TrueSize

(* The world of a behaviour does not change. *)
LEMMA SameWorld ==
  ASSUME UNCHANGED world
  PROVE  /\ Uploaders' = Uploaders /\ Size' = Size /\ Chunk' = Chunk /\ TrueSize' = TrueSize
         /\ Honest' <=> Honest
BY DEF Uploaders, Size, Chunk, TrueSize, Honest

(* What the assumption says of the constants. *)
LEMMA Limit == ChunkLimit \in Nat /\ ChunkLimit > 0 /\ NoFile \notin File
BY UploadAssumption

(* In an honest world every uploader has the genuine file. *)
LEMMA HonestFacts ==
  ASSUME TypeOK, Honest
  PROVE  \A u \in Uploaders : u \in world.genuine /\ Size[u] = TrueSize
BY DEF Honest

(* At first nothing is stored and nobody asks. *)
LEMMA InitIInv == Init => IInv
<1> SUFFICES ASSUME Init PROVE IInv
  OBVIOUS
<1> USE DEF Init
<1>1. World(world)
  BY UploadAssumption
<1>2. TypeOK
  BY <1>1 DEF TypeOK, File, Empty, World
<1>3. Asked /\ CacheIsGenuine /\ ReadyMeansCached
  BY DEF Asked, CacheIsGenuine, ReadyMeansCached
<1>4. PartIsPrefix /\ AcknowledgedKept
  BY <1>2, WorldTypes DEF PartIsPrefix, AcknowledgedKept, Empty
<1> QED BY <1>2, <1>3, <1>4 DEF IInv

-----------------------------------------------------------------------------
(***************************************************************************)
(* The store's answer, and what it does to the files.                      *)
(***************************************************************************)

(* The four cases of statusUnlocked, in which ready and error are told      *)
(* apart from the rest.                                                     *)
LEMMA StatusCases ==
  ASSUME NEW size \in Nat, part.len \in Nat
  PROVE  LET s == Status(size) IN
           \/ /\ model # NoFile /\ s.part = part /\ s.model = model /\ s.received = size
              /\ s.ready <=> model.len = size
              /\ s.error <=> model.len # size
           \/ /\ model = NoFile /\ part.len = size /\ Verified(part)
              /\ s.part = Empty /\ s.model = part /\ s.received = size /\ s.ready /\ ~s.error
           \/ /\ model = NoFile /\ part.len >= size /\ ~(part.len = size /\ Verified(part))
              /\ s.part = Empty /\ s.model = NoFile /\ s.received = 0 /\ ~s.ready /\ ~s.error
           \/ /\ model = NoFile /\ part.len < size
              /\ s.part = part /\ s.model = NoFile /\ s.received = part.len
              /\ ~s.ready /\ ~s.error
<1> DEFINE s == Status(size)
<1>1. CASE model # NoFile
  <2>1. s = [part |-> part, model |-> model, received |-> size,
             ready |-> model.len = size, error |-> model.len # size]
    BY <1>1 DEF Status
  <2> HIDE DEF s
  <2>2. /\ s.part = part /\ s.model = model /\ s.received = size
        /\ s.ready <=> model.len = size
        /\ s.error <=> model.len # size
    BY <2>1
  <2> QED BY <1>1, <2>2 DEF s
<1>2. CASE model = NoFile /\ part.len = size /\ Verified(part)
  <2>1. ~(part.len < size)
    BY <1>2
  <2>2. s = [part |-> Empty, model |-> part, received |-> size, ready |-> TRUE, error |-> FALSE]
    BY <1>2, <2>1 DEF Status
  <2> HIDE DEF s
  <2>3. s.part = Empty /\ s.model = part /\ s.received = size /\ s.ready /\ ~s.error
    BY <2>2
  <2> QED BY <1>2, <2>3 DEF s
<1>3. CASE model = NoFile /\ part.len >= size /\ ~(part.len = size /\ Verified(part))
  <2>1. ~(part.len < size)
    BY <1>3
  <2>2. s = [part |-> Empty, model |-> NoFile, received |-> 0, ready |-> FALSE, error |-> FALSE]
    BY <1>3, <2>1 DEF Status
  <2> HIDE DEF s
  <2>3. s.part = Empty /\ s.model = NoFile /\ s.received = 0 /\ ~s.ready /\ ~s.error
    BY <2>2
  <2> QED BY <1>3, <2>3 DEF s
<1>4. CASE model = NoFile /\ part.len < size
  <2>1. part.len # size /\ ~(part.len >= size)
    BY <1>4
  <2>2. s = [part |-> part, model |-> NoFile, received |-> part.len, ready |-> FALSE, error |-> FALSE]
    BY <1>4, <2>1 DEF Status
  <2> HIDE DEF s
  <2>3. s.part = part /\ s.model = NoFile /\ s.received = part.len /\ ~s.ready /\ ~s.error
    BY <2>2
  <2> QED BY <1>4, <2>3 DEF s
<1>5. part.len >= size \/ part.len < size
  OBVIOUS
<1> QED BY <1>1, <1>2, <1>3, <1>4, <1>5

(* What any lease may be told: ready only with the genuine model there, and *)
(* otherwise the end of the part.                                           *)
LEMMA StatusSound ==
  ASSUME IInv, NEW u \in Uploaders
  PROVE  LET s == Status(Size[u]) IN
           /\ s.part \in File /\ s.model \in File \cup {NoFile} /\ s.received \in Nat
           /\ model # NoFile => s.model # NoFile
           /\ s.model # NoFile => s.model.genuine /\ s.model.len = TrueSize
           /\ s.ready => s.model # NoFile /\ s.received = Size[u] /\ ~s.error
           /\ ~s.ready /\ ~s.error =>
                s.model = NoFile /\ s.received = s.part.len /\ s.received < Size[u]
<1> DEFINE s == Status(Size[u])
<1>1. /\ CacheIsGenuine /\ Size[u] \in Nat /\ Size[u] > 0 /\ part \in File
      /\ model \in File \cup {NoFile} /\ part.len \in Nat
  BY WorldTypes DEF IInv, TypeOK, File
<1>2. \/ /\ model # NoFile /\ s.part = part /\ s.model = model /\ s.received = Size[u]
         /\ s.ready <=> model.len = Size[u]
         /\ s.error <=> model.len # Size[u]
      \/ /\ model = NoFile /\ part.len = Size[u] /\ Verified(part)
         /\ s.part = Empty /\ s.model = part /\ s.received = Size[u] /\ s.ready /\ ~s.error
      \/ /\ model = NoFile
         /\ s.part = Empty /\ s.model = NoFile /\ s.received = 0 /\ ~s.ready /\ ~s.error
      \/ /\ model = NoFile /\ part.len < Size[u]
         /\ s.part = part /\ s.model = NoFile /\ s.received = part.len
         /\ ~s.ready /\ ~s.error
  BY <1>1, StatusCases
<1>3. Empty \in File /\ Empty.len = 0
  BY DEF Empty, File
<1> HIDE DEF s
<1> QED BY <1>1, <1>2, <1>3, Limit DEF CacheIsGenuine, Verified, s

(* Among genuine uploads it throws nothing away: what any proxy has been    *)
(* told stays below what is there.                                          *)
LEMMA StatusKeeps ==
  ASSUME IInv, NEW u \in Uploaders, writer = Idle, Honest
  PROVE  LET s == Status(Size[u])
             level == IF s.model # NoFile THEN s.model.len ELSE s.part.len
         IN /\ s.part.genuine /\ s.part.len <= TrueSize /\ ~s.error /\ level \in Nat
            /\ s.received <= level /\ \A v \in Uploaders : received[v] <= level
<1> DEFINE s == Status(Size[u])
<1>1. /\ CacheIsGenuine /\ part \in File /\ model \in File \cup {NoFile}
      /\ Size[u] = TrueSize /\ TrueSize \in Nat /\ TrueSize > 0 /\ Uploaders \subseteq Proxy
      /\ received \in [Proxy -> Nat]
  BY WorldTypes, HonestFacts DEF IInv, TypeOK
<1>2. part.genuine /\ part.len <= TrueSize /\ part.len \in Nat
  BY <1>1 DEF IInv, PartIsPrefix, File
<1>3. \A v \in Uploaders : /\ received[v] \in Nat
                           /\ received[v] <= IF model # NoFile THEN model.len ELSE part.len
  BY <1>1 DEF IInv, AcknowledgedKept
<1>4. \/ /\ model # NoFile /\ s.part = part /\ s.model = model /\ s.received = Size[u]
         /\ ~s.error
      \/ /\ model = NoFile /\ part.len = Size[u]
         /\ s.part = Empty /\ s.model = part /\ s.received = Size[u] /\ ~s.error
      \/ /\ model = NoFile /\ part.len < Size[u]
         /\ s.part = part /\ s.model = NoFile /\ s.received = part.len /\ ~s.error
  BY <1>1, <1>2, StatusCases DEF CacheIsGenuine, Verified
<1>5. Empty.genuine /\ Empty.len = 0
  BY DEF Empty
<1> HIDE DEF s
<1> QED BY <1>1, <1>2, <1>3, <1>4, <1>5, Limit DEF CacheIsGenuine, s

-----------------------------------------------------------------------------
(***************************************************************************)
(* What an answer does to the proxies.                                     *)
(***************************************************************************)

Labels == {"idle", "asking", "sending", "waiting", "ready"}

(* The proxies after a step in which u, and no other, may have been told    *)
(* offset.                                                                  *)
Told(u, offset) ==
  /\ pc' \in [Proxy -> Labels] /\ received' \in [Proxy -> Nat]
  /\ \A v \in Proxy \ {u} : pc'[v] = pc[v] /\ received'[v] = received[v]
  /\ pc'[u] # "idle" => pc[u] # "idle" \/ u \in Uploaders
  /\ pc'[u] = "ready" => pc[u] = "ready" \/ offset >= Size[u]
  /\ received'[u] = received[u] \/ received'[u] = offset

(* An answer tells its proxy an offset or is lost. *)
LEMMA AnsweredTells ==
  ASSUME TypeOK, NEW r \in Request, r.by \in Uploaders, NEW offset \in Nat, Answered(r, offset)
  PROVE  Told(r.by, offset)
<1>1. r.by \in Proxy /\ Size[r.by] \in Nat
  BY WorldTypes DEF Request
<1>2. pc \in [Proxy -> Labels] /\ received \in [Proxy -> Nat]
  BY DEF TypeOK, Labels
<1> QED BY <1>1, <1>2 DEF Answered, Goto, Told, Labels

(* A failure tells its proxy no offset. *)
LEMMA FailedTells ==
  ASSUME TypeOK, NEW r \in Request, NEW offset, Failed(r)
  PROVE  Told(r.by, offset)
<1>1. r.by \in Proxy
  BY DEF Request
<1>2. pc \in [Proxy -> Labels] /\ received \in [Proxy -> Nat]
  BY DEF TypeOK, Labels
<1> QED BY <1>1, <1>2 DEF Failed, Goto, Told, Labels

-----------------------------------------------------------------------------
(***************************************************************************)
(* The steps.                                                              *)
(***************************************************************************)

(* Faults are counted up to their bound. *)
LEMMA FaultType ==
  ASSUME TypeOK, Fault \/ UNCHANGED faults, UNCHANGED world
  PROVE  faults' \in 0..world'.maxFaults
BY WorldTypes DEF TypeOK, Fault

(* A step that leaves files and writer alone needs to care only for the     *)
(* proxies, and must not raise what any of them has been told.              *)
LEMMA ProxyStep ==
  ASSUME IInv, UNCHANGED <<world, store, writer>>,
         pending' \subseteq Request, \A r \in pending' : r.by \in Uploaders,
         pc' \in [Proxy -> Labels], UNCHANGED received, faults' \in 0..world'.maxFaults,
         \A u \in Proxy : pc'[u] # "idle" => u \in Uploaders,
         \A u \in Proxy : pc'[u] = "ready" => pc[u] = "ready"
  PROVE  IInv'
<1>1. UNCHANGED <<part, model, world, writer, received>>
  BY DEF store
<1>2. TypeOK'
  BY <1>1 DEF IInv, TypeOK, Labels
<1>3. Asked'
  BY <1>1, SameWorld DEF IInv, Asked
<1>4. CacheIsGenuine' /\ ReadyMeansCached'
  BY <1>1, SameWorld DEF IInv, CacheIsGenuine, ReadyMeansCached
<1>5. PartIsPrefix' /\ AcknowledgedKept'
  BY <1>1, SameWorld DEF IInv, PartIsPrefix, AcknowledgedKept
<1> QED BY <1>2, <1>3, <1>4, <1>5 DEF IInv

(* A proxy asks for the status. *)
LEMMA EnsureStep ==
  ASSUME IInv, UNCHANGED world, NEW u \in Proxy, EnsureModel(u)
  PROVE  IInv'
<1>1. pc' \in [Proxy -> Labels] /\ pc'[u] = "asking" /\ \A v \in Proxy \ {u} : pc'[v] = pc[v]
  BY DEF EnsureModel, Goto, IInv, TypeOK, Labels
<1>2. pending' = pending /\ pending \subseteq Request /\ \A r \in pending : r.by \in Uploaders
  BY DEF EnsureModel, IInv, TypeOK, Asked
<1>3. faults' \in 0..world'.maxFaults
  BY FaultType DEF EnsureModel, IInv
<1>4. \A v \in Proxy : pc'[v] # "idle" => v \in Uploaders
  BY <1>1 DEF EnsureModel, IInv, Asked
<1> QED BY <1>1, <1>2, <1>3, <1>4, ProxyStep DEF EnsureModel

(* A proxy sends a chunk from the offset it was told. *)
LEMMA PutStep ==
  ASSUME IInv, UNCHANGED world, NEW u \in Proxy, Put(u)
  PROVE  IInv'
<1>1. pc' \in [Proxy -> Labels] /\ pc'[u] = "waiting" /\ \A v \in Proxy \ {u} : pc'[v] = pc[v]
  BY DEF Put, Goto, IInv, TypeOK, Labels
<1>2. u \in Uploaders
  BY DEF Put, IInv, Asked
<1>3. pending' \subseteq Request /\ \A r \in pending' : r.by \in Uploaders
  <2> DEFINE r == [by |-> u, offset |-> received[u], live |-> TRUE]
  <2>1. r \in Request /\ r.by = u
    BY DEF Request, IInv, TypeOK
  <2>2. pending' = pending \cup {r}
    BY DEF Put
  <2> HIDE DEF r
  <2> QED BY <1>2, <2>1, <2>2 DEF IInv, TypeOK, Asked
<1>4. faults' \in 0..world'.maxFaults
  BY FaultType DEF Put, IInv
<1>5. \A v \in Proxy : pc'[v] # "idle" => v \in Uploaders
  BY <1>1, <1>2 DEF IInv, Asked
<1> QED BY <1>1, <1>3, <1>4, <1>5, ProxyStep DEF Put

(* A request that is turned away changes no file. *)
LEMMA UnauthorisedStep ==
  ASSUME IInv, UNCHANGED world, NEW r \in pending, Unauthorised(r)
  PROVE  IInv'
<1>1. r \in Request /\ r.by \in Uploaders /\ TypeOK
  BY DEF IInv, TypeOK, Asked
<1>2. /\ pc' \in [Proxy -> Labels] /\ UNCHANGED received
      /\ \A v \in Proxy : pc'[v] = pc[v] \/ pc'[v] = "idle"
  BY <1>1 DEF Unauthorised, Failed, Goto, TypeOK, Labels, Request
<1>3. pending' \subseteq Request /\ \A q \in pending' : q.by \in Uploaders
  BY DEF Unauthorised, IInv, TypeOK, Asked
<1>4. faults' \in 0..world'.maxFaults
  BY <1>1, FaultType DEF Unauthorised
<1>5. \A v \in Proxy : pc'[v] # "idle" => v \in Uploaders
  BY <1>2 DEF IInv, Asked
<1>6. \A v \in Proxy : pc'[v] = "ready" => pc[v] = "ready"
  BY <1>2
<1> QED BY <1>2, <1>3, <1>4, <1>5, <1>6, ProxyStep DEF Unauthorised

(* The answer is an error, and the part stays.                              *)
LEMMA StatusFailsStep ==
  ASSUME IInv, UNCHANGED world, NEW u \in Proxy, StatusFails(u)
  PROVE  IInv'
<1>1. /\ TypeOK /\ UNCHANGED <<store, writer, pending, received>> /\ Fault
  BY DEF StatusFails, PublishFails, IInv
<1>2. pc' \in [Proxy -> Labels] /\ \A v \in Proxy : pc'[v] = pc[v] \/ pc'[v] = "idle"
  BY <1>1 DEF StatusFails, Goto, TypeOK, Labels
<1>3. pending' \subseteq Request /\ \A q \in pending' : q.by \in Uploaders
  BY <1>1 DEF IInv, TypeOK, Asked
<1>4. faults' \in 0..world'.maxFaults
  BY <1>1, FaultType
<1>5. \A v \in Proxy : pc'[v] # "idle" => v \in Uploaders
  BY <1>2 DEF IInv, Asked
<1>6. \A v \in Proxy : pc'[v] = "ready" => pc[v] = "ready"
  BY <1>2
<1> QED BY <1>1, <1>2, <1>3, <1>4, <1>5, <1>6, ProxyStep

(* So does Append's.                                                        *)
LEMMA AppendFailsStep ==
  ASSUME IInv, UNCHANGED world, NEW r \in pending, AppendFails(r)
  PROVE  IInv'
<1>1. /\ r \in Request /\ TypeOK /\ UNCHANGED <<store, writer>> /\ Fault
      /\ pending' = pending \ {r} /\ Failed(r)
  BY DEF AppendFails, PublishFails, IInv, TypeOK
<1>2. /\ pc' \in [Proxy -> Labels] /\ UNCHANGED received
      /\ \A v \in Proxy : pc'[v] = pc[v] \/ pc'[v] = "idle"
  BY <1>1 DEF Failed, Goto, TypeOK, Labels, Request
<1>3. pending' \subseteq Request /\ \A q \in pending' : q.by \in Uploaders
  BY <1>1 DEF IInv, TypeOK, Asked
<1>4. faults' \in 0..world'.maxFaults
  BY <1>1, FaultType
<1>5. \A v \in Proxy : pc'[v] # "idle" => v \in Uploaders
  BY <1>2 DEF IInv, Asked
<1>6. \A v \in Proxy : pc'[v] = "ready" => pc[v] = "ready"
  BY <1>2
<1> QED BY <1>1, <1>2, <1>3, <1>4, <1>5, <1>6, ProxyStep

(* A step that ends with the files as s says, for a lease u has asked with. *)
LEMMA StatusStep ==
  ASSUME IInv, UNCHANGED world, NEW u \in Uploaders, writer = Idle, writer' = Idle,
         part' = Status(Size[u]).part, model' = Status(Size[u]).model,
         pending' \subseteq pending, UNCHANGED faults,
         Told(u, received'[u]), pc'[u] = "ready" => Status(Size[u]).ready,
         Honest => received'[u] \in {received[u], Status(Size[u]).received}
  PROVE  IInv'
<1> DEFINE s == Status(Size[u])
<1> HIDE DEF s
<1> USE Limit
<1>1. /\ part' = s.part /\ model' = s.model
      /\ s.part \in File /\ s.model \in File \cup {NoFile} /\ s.received \in Nat
      /\ model # NoFile => s.model # NoFile
      /\ s.model # NoFile => s.model.genuine /\ s.model.len = TrueSize
      /\ s.ready => s.model # NoFile
  BY StatusSound DEF s
<1>2. TypeOK /\ Uploaders \subseteq Proxy /\ u \in Proxy
  BY WorldTypes DEF IInv
<1>3. TypeOK'
  BY <1>1, <1>2 DEF TypeOK, Told, Labels
<1>4. Asked'
  BY <1>2, SameWorld DEF IInv, Asked, Told
<1>5. CacheIsGenuine'
  BY <1>1, SameWorld DEF CacheIsGenuine
<1>6. ReadyMeansCached'
  <2>1. pc'[u] = "ready" => s.ready
    BY DEF s
  <2> QED BY <1>1, <2>1 DEF IInv, ReadyMeansCached, Told
<1>7. PartIsPrefix' /\ AcknowledgedKept'
  <2> DEFINE level == IF s.model # NoFile THEN s.model.len ELSE s.part.len
  <2>1. Honest => /\ s.part.genuine /\ s.part.len <= TrueSize /\ s.received <= level
                  /\ \A v \in Uploaders : received[v] <= level
    BY StatusKeeps DEF s
  <2>2. Honest => \A v \in Uploaders : received'[v] <= level
    <3>1. Honest => received'[u] = received[u] \/ received'[u] = s.received
      BY DEF s
    <3>2. \A v \in Proxy \ {u} : received'[v] = received[v]
      BY DEF Told
    <3> HIDE DEF level
    <3> QED BY <1>2, <2>1, <3>1, <3>2
  <2>3. PartIsPrefix'
    BY <1>1, <2>1, SameWorld DEF PartIsPrefix
  <2>4. AcknowledgedKept'
    BY <1>1, <2>2, SameWorld DEF AcknowledgedKept
  <2> QED BY <2>3, <2>4
<1> QED BY <1>3, <1>4, <1>5, <1>6, <1>7 DEF IInv

(* The status reported is the store's own. *)
LEMMA ModelStatusStep ==
  ASSUME IInv, UNCHANGED world, NEW u \in Proxy, ModelStatus(u)
  PROVE  IInv'
<1> DEFINE s == Status(Size[u])
<1> HIDE DEF s
<1>1. u \in Uploaders /\ writer = Idle /\ writer' = Idle /\ pending' = pending /\ UNCHANGED faults
  BY DEF ModelStatus, IInv, Asked
<1>2. /\ part' = s.part /\ model' = s.model
      /\ received' = [received EXCEPT ![u] = IF s.error THEN 0 ELSE s.received]
      /\ Goto(u, CASE s.error -> "idle" [] s.ready -> "ready" [] OTHER -> "sending")
  BY DEF ModelStatus, s
<1>3. s.received \in Nat /\ (s.ready => ~s.error)
  BY <1>1, StatusSound DEF s
<1>4. pc \in [Proxy -> Labels] /\ received \in [Proxy -> Nat]
  BY DEF IInv, TypeOK, Labels
<1>5. Honest => ~s.error
  BY <1>1, StatusKeeps DEF s
<1>6. /\ pc'[u] \in Labels /\ (pc'[u] = "ready" => s.ready /\ ~s.error)
      /\ pc' = [pc EXCEPT ![u] = pc'[u]]
  <2> DEFINE label == CASE s.error -> "idle" [] s.ready -> "ready" [] OTHER -> "sending"
  <2>1. label \in Labels /\ (label = "ready" => s.ready /\ ~s.error)
    BY <1>3 DEF Labels
  <2>2. pc' = [pc EXCEPT ![u] = label]
    BY <1>2 DEF Goto
  <2> HIDE DEF label
  <2> QED BY <1>4, <2>1, <2>2
<1>7. s.ready => s.received = Size[u] /\ Size[u] \in Nat
  BY <1>1, StatusSound, WorldTypes DEF s, IInv
<1>8. Told(u, received'[u])
  <2>1. received' \in [Proxy -> Nat] /\ \A v \in Proxy \ {u} : received'[v] = received[v]
    BY <1>2, <1>3, <1>4
  <2>2. s.ready /\ ~s.error => received'[u] >= Size[u]
    BY <1>2, <1>3, <1>4, <1>7
  <2> QED BY <1>1, <1>4, <1>6, <2>1, <2>2 DEF Told
<1>9. Honest => received'[u] = s.received
  BY <1>2, <1>4, <1>5
<1> QED BY <1>1, <1>2, <1>6, <1>8, <1>9, StatusStep DEF s

(* Append takes the mutex at the end of the part. *)
LEMMA AppendStep ==
  ASSUME IInv, UNCHANGED world, NEW r \in pending, Append(r)
  PROVE  IInv'
<1> DEFINE u == r.by
           s == Status(Size[u])
<1> HIDE DEF s
<1>1. r \in Request /\ u \in Uploaders /\ u \in Proxy /\ TypeOK /\ Size[u] \in Nat
  BY WorldTypes DEF IInv, TypeOK, Asked
<1>2. /\ writer = Idle /\ pending' = pending \ {r} /\ part' = s.part /\ model' = s.model
      /\ UNCHANGED faults
      /\ \/ s.ready /\ Answered(r, s.received) /\ UNCHANGED writer
         \/ ~s.ready /\ Failed(r) /\ UNCHANGED writer
         \/ /\ ~s.ready /\ ~s.error /\ s.received = r.offset
            /\ writer' = [request |-> r, written |-> 0, before |-> s.part]
            /\ UNCHANGED <<pc, received>>
  BY DEF Append, s
<1>3. /\ s.part \in File /\ s.model \in File \cup {NoFile} /\ s.received \in Nat
      /\ model # NoFile => s.model # NoFile
      /\ s.model # NoFile => s.model.genuine /\ s.model.len = TrueSize
      /\ s.ready => s.received = Size[u]
      /\ ~s.ready /\ ~s.error => s.model = NoFile /\ s.received = s.part.len /\ s.received < Size[u]
  BY <1>1, StatusSound DEF s
<1>4. CASE s.ready /\ Answered(r, s.received) /\ UNCHANGED writer
  <2>1. Told(u, s.received)
    BY <1>1, <1>3, <1>4, AnsweredTells
  <2>2. Told(u, received'[u]) /\ received'[u] \in {received[u], s.received}
    <3>1. Answered(r, s.received) /\ received \in [Proxy -> Nat]
      BY <1>1, <1>4 DEF TypeOK
    <3>2. ~r.live => pc' = pc /\ received' = received
      BY <3>1 DEF Answered
    <3>3. r.live => received'[u] = s.received
      BY <1>1, <3>1 DEF Answered
    <3> QED BY <2>1, <3>2, <3>3 DEF Told
  <2> QED BY <1>1, <1>2, <1>4, <2>2, StatusStep DEF s
<1>5. CASE ~s.ready /\ Failed(r) /\ UNCHANGED writer
  <2>1. Told(u, received'[u]) /\ received'[u] = received[u]
    BY <1>1, <1>5, FailedTells DEF Failed
  <2>2. pc'[u] # "ready" \/ pc' = pc
    BY <1>1, <1>5 DEF Failed, Goto, TypeOK
  <2>3. CASE pc'[u] # "ready"
    BY <1>1, <1>2, <1>5, <2>1, <2>3, StatusStep DEF s
  <2>4. CASE pc' = pc /\ pc[u] = "ready"
    (* Cannot be: with the model in the cache the store is ready or fails,  *)
    (* and the files stay.                                                  *)
    <3>1. model # NoFile
      BY <1>1, <2>4 DEF IInv, ReadyMeansCached
    <3>2. part' = part /\ model' = model
      <4>1. part.len \in Nat
        BY <1>1 DEF TypeOK, File
      <4>2. s.part = part /\ s.model = model
        BY <1>1, <3>1, <4>1, StatusCases DEF s
      <4> QED BY <1>2, <4>2
    <3>3. UNCHANGED <<world, store, writer>> /\ UNCHANGED received
      BY <1>5, <3>2 DEF store, Failed
    <3>4. pending' \subseteq Request /\ \A q \in pending' : q.by \in Uploaders
      BY <1>2 DEF IInv, TypeOK, Asked
    <3>5. faults' \in 0..world'.maxFaults
      BY <1>1, <1>2, FaultType
    <3>6. pc' \in [Proxy -> Labels] /\ \A v \in Proxy : pc'[v] # "idle" => v \in Uploaders
      BY <1>1, <2>4 DEF TypeOK, Labels, IInv, Asked
    <3> QED BY <2>4, <3>3, <3>4, <3>5, <3>6, ProxyStep
  <2> QED BY <2>2, <2>3, <2>4
<1>6. CASE /\ ~s.ready /\ ~s.error /\ s.received = r.offset
           /\ writer' = [request |-> r, written |-> 0, before |-> s.part]
           /\ UNCHANGED <<pc, received>>
  <2>1. model = NoFile /\ s.model = NoFile /\ s.part.len = r.offset /\ r.offset < Size[u]
    BY <1>3, <1>6
  <2>2. writer' \in Upload /\ writer'.request = r /\ writer'.written = 0 /\ writer'.before = s.part
    BY <1>1, <1>3, <1>6 DEF Upload
  <2>3. s.part.len \in Nat /\ r.offset \in Nat
    BY <1>1, <1>3 DEF File, Request
  <2>4. TypeOK'
    BY <1>1, <1>2, <1>3, <1>6, <2>1, <2>2, <2>3 DEF TypeOK
  <2>5. Asked'
    BY <1>1, <1>2, <1>6, <2>1, <2>2, <2>3, SameWorld DEF IInv, Asked
  <2>6. CacheIsGenuine' /\ ReadyMeansCached'
    BY <1>2, <1>6, <2>1 DEF IInv, CacheIsGenuine, ReadyMeansCached
  <2>7. Honest => /\ s.part.genuine /\ s.part.len <= TrueSize
                  /\ \A v \in Uploaders : received[v] <= s.part.len
    BY <1>1, <1>2, <2>1, StatusKeeps DEF s
  <2>8. PartIsPrefix' /\ AcknowledgedKept'
    BY <1>2, <1>6, <2>1, <2>2, <2>7, SameWorld DEF PartIsPrefix, AcknowledgedKept
  <2> QED BY <2>4, <2>5, <2>6, <2>8 DEF IInv
<1> QED BY <1>2, <1>4, <1>5, <1>6

(* A proxy gives up. *)
LEMMA AbandonStep ==
  ASSUME IInv, UNCHANGED world, NEW u \in Proxy, Abandon(u)
  PROVE  IInv'
<1>1. TypeOK /\ Asked
  BY DEF IInv
<1>2. /\ pc' \in [Proxy -> Labels] /\ pc'[u] = "idle" /\ \A v \in Proxy \ {u} : pc'[v] = pc[v]
      /\ UNCHANGED <<part, model, received>>
  BY <1>1 DEF Abandon, Goto, TypeOK, Labels, store
<1>3. \A r \in Request : Dead(r) \in Request /\ Dead(r).by = r.by /\ Dead(r).offset = r.offset
  BY DEF Dead, Request
<1>4. pending' \subseteq Request /\ \A r \in pending' : r.by \in Uploaders
  BY <1>1, <1>3 DEF Abandon, TypeOK, Asked
<1>5. CASE writer = Idle \/ writer.request.by # u
  <2>1. UNCHANGED <<world, store, writer>> /\ UNCHANGED received
    BY <1>5 DEF Abandon
  <2>2. faults' \in 0..world'.maxFaults
    BY <1>1, FaultType DEF Abandon
  <2>3. \A v \in Proxy : pc'[v] # "idle" => v \in Uploaders
    BY <1>1, <1>2 DEF Asked
  <2>4. \A v \in Proxy : pc'[v] = "ready" => pc[v] = "ready"
    BY <1>2
  <2> QED BY <1>2, <1>4, <2>1, <2>2, <2>3, <2>4, ProxyStep
<1>6. CASE writer # Idle /\ writer.request.by = u
  <2>1. writer \in Upload /\ writer' = [writer EXCEPT !.request = Dead(@)]
    BY <1>1, <1>6 DEF TypeOK, Abandon
  <2>2. /\ writer' \in Upload /\ writer'.written = writer.written /\ writer'.before = writer.before
        /\ writer'.request.by = u /\ writer'.request.offset = writer.request.offset
    BY <1>3, <1>6, <2>1 DEF Upload
  <2>3. faults' \in 0..world'.maxFaults
    BY <1>1, FaultType DEF Abandon
  <2>4. TypeOK'
    BY <1>1, <1>2, <1>4, <1>6, <2>2, <2>3 DEF TypeOK, Labels
  <2>5. Asked'
    BY <1>1, <1>2, <1>4, <1>6, <2>2, SameWorld DEF Asked
  <2>6. CacheIsGenuine' /\ ReadyMeansCached'
    BY <1>2, SameWorld DEF IInv, CacheIsGenuine, ReadyMeansCached
  <2>7. PartIsPrefix'
    BY <1>2, <1>6, <2>2, SameWorld DEF IInv, PartIsPrefix
  <2>8. AcknowledgedKept'
    <3>1. writer' # Idle => writer'.before.len = writer.before.len
      BY <2>2
    <3>2. writer.before.len <= part.len
      BY <1>1, <1>6, <2>1 DEF Asked, TypeOK, Upload, Request
    <3>3. /\ part.len \in Nat /\ writer.before.len \in Nat
          /\ \A v \in Uploaders : received[v] \in Nat
      BY <1>1, <2>1, WorldTypes DEF TypeOK, File, Upload
    <3> QED BY <1>2, <1>6, <3>1, <3>2, <3>3, SameWorld DEF IInv, AcknowledgedKept
  <2> QED BY <2>4, <2>5, <2>6, <2>7, <2>8 DEF IInv
<1> QED BY <1>5, <1>6

(* The upload that holds the mutex. *)
LEMMA WriterFacts ==
  ASSUME IInv, writer # Idle
  PROVE  LET r == writer.request IN
           /\ writer \in Upload /\ r \in Request /\ r.by \in Uploaders /\ r.by \in Proxy
           /\ Size[r.by] \in Nat /\ r.offset \in Nat /\ writer.written \in Nat
           /\ writer.before \in File /\ part \in File /\ part.len \in Nat
           /\ writer.before.len = r.offset /\ part.len = r.offset + writer.written
           /\ part.len <= Size[r.by] /\ writer.before.len <= part.len
<1>1. /\ writer \in Upload /\ writer.request.by \in Uploaders
      /\ writer.before.len = writer.request.offset
      /\ writer.request.offset <= Size[writer.request.by]
      /\ writer.written <= Size[writer.request.by] - writer.request.offset
      /\ part.len = writer.request.offset + writer.written /\ part \in File
  BY DEF IInv, TypeOK, Asked
<1>2. /\ writer.request \in Request /\ writer.written \in Nat /\ writer.before \in File
      /\ writer.request.offset \in Nat /\ writer.request.by \in Proxy /\ part.len \in Nat
  BY <1>1 DEF Upload, Request, File
<1>3. Size[writer.request.by] \in Nat
  BY <1>1, WorldTypes DEF IInv
<1> QED BY <1>1, <1>2, <1>3

(* A piece of the body goes to the end of the part. *)
LEMMA CopyStep ==
  ASSUME IInv, UNCHANGED world, Copy
  PROVE  IInv'
<1> DEFINE r == writer.request
<1>1. writer # Idle /\ writer.written < Body(r)
  BY DEF Copy
<1>2. /\ writer \in Upload /\ r \in Request /\ r.by \in Uploaders
      /\ Size[r.by] \in Nat /\ r.offset \in Nat /\ writer.written \in Nat
      /\ part \in File /\ part.len \in Nat /\ writer.before.len = r.offset
      /\ part.len = r.offset + writer.written /\ Chunk[r.by] \in Nat
  BY <1>1, WriterFacts, WorldTypes DEF IInv
<1>3. writer.written + 1 <= Size[r.by] - r.offset
  BY <1>1, <1>2, Limit DEF Body, Least
<1>4. /\ writer' \in Upload /\ writer'.request = r /\ writer'.written = writer.written + 1
      /\ writer'.before = writer.before
  BY <1>2 DEF Copy, Upload
<1>5. part' \in File /\ part'.len = part.len + 1
  BY <1>2 DEF Copy, File
<1>6. part'.genuine <=> part.genuine /\ r.by \in world.genuine
  BY DEF Copy
<1>7. UNCHANGED <<model, pending, pc, received, faults>>
  BY DEF Copy
<1>8. TypeOK'
  BY <1>2, <1>4, <1>5, <1>7 DEF IInv, TypeOK
<1>9. Asked'
  BY <1>2, <1>3, <1>4, <1>7, SameWorld DEF IInv, Asked
<1>10. CacheIsGenuine' /\ ReadyMeansCached'
  BY <1>7, SameWorld DEF IInv, CacheIsGenuine, ReadyMeansCached
<1>11. PartIsPrefix'
  <2>1. Honest => part'.genuine /\ part'.len <= TrueSize
    BY <1>2, <1>3, <1>5, <1>6, HonestFacts DEF IInv, PartIsPrefix
  <2> QED BY <1>1, <1>4, <2>1, SameWorld DEF IInv, PartIsPrefix
<1>12. AcknowledgedKept'
  <2>1. part'.len >= writer.before.len
    BY <1>2, <1>5
  <2>2. /\ writer.before.len \in Nat /\ part'.len \in Nat /\ \A v \in Uploaders : received[v] \in Nat
    BY <1>2, <1>5, WorldTypes DEF IInv, TypeOK
  <2> QED BY <1>1, <1>4, <1>7, <2>1, <2>2, SameWorld DEF IInv, AcknowledgedKept
<1> QED BY <1>8, <1>9, <1>10, <1>11, <1>12 DEF IInv

(* A step with which that upload lets go of the mutex: it leaves a file a   *)
(* later upload can resume, and tells its proxy no more than is there.      *)
LEMMA WriterLeaves ==
  ASSUME IInv, UNCHANGED <<world, pending>>, writer # Idle, writer' = Idle,
         part' \in File, model' \in File \cup {NoFile}, faults' \in 0..world'.maxFaults,
         model # NoFile => model' # NoFile,
         model' # NoFile => model'.genuine /\ model'.len = TrueSize,
         NEW offset \in Nat, Told(writer.request.by, offset),
         offset >= Size[writer.request.by] => model' # NoFile,
         Honest => /\ part'.genuine /\ part'.len <= TrueSize
                   /\ model' = NoFile => writer.before.len <= part'.len /\ offset <= part'.len
                   /\ offset <= TrueSize
  PROVE  IInv'
<1> DEFINE u == writer.request.by
<1>1. /\ TypeOK /\ Uploaders \subseteq Proxy /\ TrueSize \in Nat
      /\ u \in Uploaders /\ u \in Proxy /\ Size[u] \in Nat
      /\ writer.before.len \in Nat /\ part.len \in Nat /\ writer.before.len <= part.len
  BY WriterFacts, WorldTypes DEF IInv, File
<1>2. TypeOK'
  BY <1>1 DEF TypeOK, Told, Labels
<1>3. Asked'
  BY <1>1, SameWorld DEF IInv, Asked, Told
<1>4. CacheIsGenuine'
  BY SameWorld DEF CacheIsGenuine
<1>5. ReadyMeansCached'
  BY DEF IInv, ReadyMeansCached, Told
<1>6. PartIsPrefix'
  BY SameWorld DEF PartIsPrefix
<1>7. AcknowledgedKept'
  <2> DEFINE level == IF model' # NoFile THEN model'.len ELSE part'.len
  <2>1. part'.len \in Nat /\ received \in [Proxy -> Nat]
    BY <1>1 DEF File, TypeOK
  <2>2. ASSUME Honest PROVE \A v \in Uploaders : received[v] <= level
    <3>1. \A v \in Uploaders : received[v] <= IF model # NoFile THEN model.len ELSE writer.before.len
      BY <2>2 DEF IInv, AcknowledgedKept
    <3>2. (model # NoFile => model.len = TrueSize) /\ part.len <= TrueSize
      BY <2>2 DEF IInv, CacheIsGenuine, PartIsPrefix
    <3> QED BY <1>1, <2>1, <2>2, <3>1, <3>2
  <2>3. Honest => offset <= level
    BY <2>1
  <2>4. \A v \in Uploaders : received'[v] = received[v] \/ received'[v] = offset
    BY <1>1 DEF Told
  <2>5. Honest => \A v \in Uploaders : received'[v] <= level
    <3> HIDE DEF level
    <3> QED BY <2>2, <2>3, <2>4
  <2> QED BY <2>5, SameWorld DEF AcknowledgedKept
<1> QED BY <1>2, <1>3, <1>4, <1>5, <1>6, <1>7 DEF IInv

(* An upload that fails says nothing of an offset: its proxy is as one told *)
(* the offset 0.                                                            *)
LEMMA FailedLeaves ==
  ASSUME IInv, UNCHANGED <<world, model, pending>>, writer # Idle, writer' = Idle,
         Failed(writer.request), Fault \/ UNCHANGED faults,
         part' \in {part, writer.before}
  PROVE  IInv'
<1> DEFINE u == writer.request.by
<1>1. /\ u \in Uploaders /\ writer.request \in Request /\ writer.before \in File /\ part \in File
      /\ writer.before.len \in Nat /\ part.len \in Nat /\ writer.before.len <= part.len
  BY WriterFacts DEF File
<1>2. TypeOK /\ Size[u] \in Nat /\ Size[u] > 0 /\ TrueSize \in Nat
  BY <1>1, WorldTypes DEF IInv
<1>3. Told(u, 0) /\ ~(0 >= Size[u])
  BY <1>1, <1>2, FailedTells
<1>4. faults' \in 0..world'.maxFaults
  BY <1>2, FaultType
<1>5. part' \in File /\ model' \in File \cup {NoFile} /\ (model # NoFile => model' # NoFile)
  BY <1>1, <1>2 DEF TypeOK
<1>6. model' # NoFile => model'.genuine /\ model'.len = TrueSize
  BY DEF IInv, CacheIsGenuine
<1>7. Honest => /\ part'.genuine /\ part'.len <= TrueSize
                /\ writer.before.len <= part'.len /\ 0 <= part'.len /\ 0 <= TrueSize
  BY <1>1, <1>2 DEF IInv, PartIsPrefix
<1> QED BY <1>3, <1>4, <1>5, <1>6, <1>7, WriterLeaves

(* The body breaks off: what was copied stays. *)
LEMMA CopyFailsStep ==
  ASSUME IInv, UNCHANGED world, CopyFails
  PROVE  IInv'
BY FailedLeaves DEF CopyFails, store

(* An overlong chunk is cut back to where it began. *)
LEMMA TooLongStep ==
  ASSUME IInv, UNCHANGED world, TooLong
  PROVE  IInv'
BY FailedLeaves DEF TooLong, Copied

(* A rename that fails leaves the part. *)
LEMMA RenameFailsStep ==
  ASSUME IInv, UNCHANGED world, RenameFails
  PROVE  IInv'
BY FailedLeaves DEF RenameFails, Fits, Copied, store

(* The part is not complete yet: its length is the new offset. *)
LEMMA PartialStep ==
  ASSUME IInv, UNCHANGED world, Partial
  PROVE  IInv'
<1> DEFINE r == writer.request
<1>1. /\ writer # Idle /\ writer' = Idle /\ Offset < Size[r.by] /\ Answered(r, Offset)
      /\ UNCHANGED <<part, model, pending, faults>>
  BY DEF Partial, Fits, Copied, store
<1>2. /\ r \in Request /\ r.by \in Uploaders /\ Size[r.by] \in Nat /\ part \in File
      /\ Offset = part.len /\ part.len \in Nat /\ writer.before.len <= part.len
  BY <1>1, WriterFacts DEF Offset
<1>3. TypeOK /\ Told(r.by, Offset) /\ faults' \in 0..world'.maxFaults
  BY <1>1, <1>2, AnsweredTells, FaultType DEF IInv
<1>4. part' \in File /\ model' \in File \cup {NoFile} /\ ~(Offset >= Size[r.by])
  BY <1>1, <1>2, <1>3 DEF TypeOK
<1>5. model' # NoFile => model'.genuine /\ model'.len = TrueSize
  BY <1>1 DEF IInv, CacheIsGenuine
<1>6. Honest => part.genuine /\ part.len <= TrueSize
  BY DEF IInv, PartIsPrefix
<1> QED BY <1>1, <1>2, <1>3, <1>4, <1>5, <1>6, WriterLeaves

(* Among genuine uploads the last byte always completes the model.          *)
LEMMA CompleteStep ==
  ASSUME IInv, UNCHANGED world, Complete
  PROVE  IInv'
<1> DEFINE r == writer.request
<1>1. /\ writer # Idle /\ writer' = Idle /\ Offset = Size[r.by] /\ part' = Empty
      /\ UNCHANGED <<pending, faults>>
  BY DEF Complete, Fits, Copied
<1>2. /\ r \in Request /\ r.by \in Uploaders /\ Size[r.by] \in Nat /\ part \in File
      /\ Offset = part.len /\ part.len \in Nat
  BY <1>1, WriterFacts DEF Offset
<1>3. TypeOK /\ faults' \in 0..world'.maxFaults /\ Size[r.by] > 0 /\ TrueSize \in Nat
  <2>1. TypeOK
    BY DEF IInv
  <2>2. Size \in [Uploaders -> Nat \ {0}] /\ TrueSize \in Nat
    BY <2>1, WorldTypes
  <2>3. faults' \in 0..world'.maxFaults
    BY <1>1, <2>1, FaultType
  <2> HIDE DEF r
  <2> QED BY <1>2, <2>1, <2>2, <2>3
<1>4. Empty \in File /\ Empty.genuine /\ Empty.len = 0
  BY DEF Empty, File
<1>5. Honest => Verified(part)
  BY <1>1, <1>2, HonestFacts DEF IInv, PartIsPrefix, Verified
<1>6. CASE Verified(part)
  <2>1. model' = part /\ Answered(r, Offset)
    BY <1>6 DEF Complete
  <2>2. Told(r.by, Offset)
    BY <1>2, <1>3, <2>1, AnsweredTells
  <2>3. model' # NoFile /\ model'.genuine /\ model'.len = TrueSize
    BY <1>2, <1>6, <2>1, Limit DEF Verified
  <2> QED BY <1>1, <1>2, <1>3, <1>4, <2>1, <2>2, <2>3, WriterLeaves
<1>7. CASE ~Verified(part)
  <2>1. UNCHANGED model /\ Failed(r)
    BY <1>7 DEF Complete
  <2>2. Told(r.by, 0) /\ ~(0 >= Size[r.by])
    BY <1>2, <1>3, <2>1, FailedTells
  <2>3. /\ model' \in File \cup {NoFile}
        /\ model' # NoFile => model'.genuine /\ model'.len = TrueSize
    BY <1>3, <2>1 DEF IInv, TypeOK, CacheIsGenuine
  <2> QED BY <1>1, <1>3, <1>4, <1>5, <1>7, <2>1, <2>2, <2>3, WriterLeaves
<1> QED BY <1>6, <1>7

(* A crash frees the mutex and keeps the files. *)
LEMMA CrashStep ==
  ASSUME IInv, UNCHANGED world, Crash
  PROVE  IInv'
<1>1. /\ TypeOK /\ writer' = Idle /\ pending' = {} /\ UNCHANGED <<part, model, received>>
      /\ pc' = [u \in Proxy |-> IF pc[u] \in {"asking", "waiting"} THEN "idle" ELSE pc[u]]
  BY DEF Crash, IInv, store
<1>2. faults' \in 0..world'.maxFaults
  BY <1>1, FaultType DEF Crash
<1>3. pc' \in [Proxy -> Labels] /\ \A u \in Proxy : pc'[u] = pc[u] \/ pc'[u] = "idle"
  BY <1>1 DEF TypeOK, Labels
<1>4. TypeOK'
  BY <1>1, <1>2, <1>3 DEF TypeOK, Labels
<1>5. Asked'
  BY <1>1, <1>3, SameWorld DEF IInv, Asked
<1>6. CacheIsGenuine' /\ ReadyMeansCached'
  BY <1>1, <1>3, SameWorld DEF IInv, CacheIsGenuine, ReadyMeansCached
<1>7. PartIsPrefix'
  BY <1>1, SameWorld DEF IInv, PartIsPrefix
<1>8. AcknowledgedKept'
  <2>1. writer # Idle => /\ writer.before.len <= part.len
                         /\ writer.before.len \in Nat /\ part.len \in Nat
    BY WriterFacts DEF File
  <2>2. \A v \in Uploaders : received[v] \in Nat
    BY <1>1, WorldTypes DEF TypeOK
  <2> QED BY <1>1, <2>1, <2>2, SameWorld DEF IInv, AcknowledgedKept
<1> QED BY <1>4, <1>5, <1>6, <1>7, <1>8 DEF IInv

-----------------------------------------------------------------------------
(* A stutter changes nothing. *)
LEMMA StutterStep ==
  ASSUME IInv, UNCHANGED vars
  PROVE  IInv'
<1>1. UNCHANGED <<world, store, writer>> /\ UNCHANGED <<pending, pc, received, faults>>
  BY DEF vars, changing
<1>2. TypeOK /\ Asked
  BY DEF IInv
<1>3. faults' \in 0..world'.maxFaults
  BY <1>1, <1>2, FaultType
<1> QED BY <1>1, <1>2, <1>3, ProxyStep DEF TypeOK, Asked, Labels

(* Every step keeps the invariant. *)
LEMMA StepIInv == IInv /\ [Next]_vars => IInv'
<1> SUFFICES ASSUME IInv, [Next]_vars PROVE IInv'
  OBVIOUS
<1>1. CASE UNCHANGED vars
  BY <1>1, StutterStep
<1>2. CASE Next
  <2>1. UNCHANGED world
    BY <1>2 DEF Next
  <2>2. ASSUME NEW u \in Proxy,
               \/ EnsureModel(u) \/ ModelStatus(u) \/ StatusFails(u)
               \/ Put(u) \/ Serve(u) \/ Abandon(u)
        PROVE  IInv'
    BY <2>1, <2>2, EnsureStep, ModelStatusStep, StatusFailsStep, PutStep, AppendStep,
       AbandonStep DEF Serve
  <2>3. ASSUME Handle \/ CopyFails \/ RenameFails \/ Crash PROVE IInv'
    BY <2>1, <2>3, CopyStep, TooLongStep, PartialStep, CompleteStep, CopyFailsStep,
       RenameFailsStep, CrashStep DEF Handle
  <2>4. ASSUME NEW r \in pending, Unauthorised(r) \/ AppendFails(r) PROVE IInv'
    BY <2>1, <2>4, UnauthorisedStep, AppendFailsStep
  <2> QED BY <1>2, <2>2, <2>3, <2>4 DEF Next
<1> QED BY <1>1, <1>2

(* The invariant of the store, the handler and the proxies together.        *)
THEOREM UploadInvariant == Spec => []IInv
BY InitIInv, StepIInv, PTL DEF Spec

(* TypeOK, with the upload that holds the mutex at the end of the part.     *)
THEOREM TypeCorrect == Spec => []TypeOK
<1>1. IInv => TypeOK
  BY DEF IInv
<1> QED BY <1>1, UploadInvariant, PTL

(* What is published under a digest is the model with that digest, whoever  *)
(* uploads what (verifyFile before every rename).                           *)
THEOREM PublishedIsGenuine == Spec => []CacheIsGenuine
<1>1. IInv => CacheIsGenuine
  BY DEF IInv
<1> QED BY <1>1, UploadInvariant, PTL

(* A proxy whose ensureModel has returned success finds the model there.    *)
THEOREM ReadyIsCached == Spec => []ReadyMeansCached
<1>1. IInv => ReadyMeansCached
  BY DEF IInv
<1> QED BY <1>1, UploadInvariant, PTL

(* Among uploads of the genuine file no acknowledged byte is lost, whatever *)
(* fails (Append keeps what was copied and truncates to where it began).    *)
THEOREM AcknowledgedStays == Spec => []AcknowledgedKept
<1>1. IInv => AcknowledgedKept
  BY DEF IInv
<1> QED BY <1>1, UploadInvariant, PTL

-----------------------------------------------------------------------------
(***************************************************************************)
(* The store the proxies rely on.                                          *)
(***************************************************************************)

(* A genuine file as long as the model is the model. *)
LEMMA OneGenuineFile ==
  ASSUME NEW n, NEW f \in File, f.genuine, f.len = n
  PROVE  f = [len |-> n, genuine |-> TRUE]
<1>1. f = [len |-> f.len, genuine |-> f.genuine] /\ f.genuine \in BOOLEAN
  BY DEF File
<1>2. f.genuine = TRUE
  BY <1>1, Zenon
<1> QED BY <1>1, <1>2, Zenon

(* What is published is what the digest names. *)
LEMMA PublishedIsNamed ==
  ASSUME TypeOK, CacheIsGenuine, model # NoFile
  PROVE  model = [len |-> TrueSize, genuine |-> TRUE]
BY OneGenuineFile DEF TypeOK, CacheIsGenuine

(* At first nothing is stored and nobody has been told. *)
LEMMA InitIsStoreInit == Init => Store!Init
<1> SUFFICES ASSUME Init PROVE Store!Init
  OBVIOUS
<1>1. \A u \in Proxy : pc[u] # "ready"
  BY DEF Init
<1> QED BY <1>1 DEF Init, Store!Init

(* The proxies that know of the model after a step that told at most one of *)
(* them something.                                                          *)
OneAtMost ==
  \/ \A v \in Proxy : pc'[v] = "ready" <=> pc[v] = "ready"
  \/ \E u \in Proxy : \A v \in Proxy \ {u} : pc'[v] = "ready" <=> pc[v] = "ready"

(* A step that removes no model and tells at most one proxy is one of the   *)
(* store's: the invariant after it says that what it publishes is the model *)
(* and that who has been told finds it there.                               *)
LEMMA StoreStep ==
  ASSUME IInv, IInv', UNCHANGED world, model # NoFile => model' # NoFile, OneAtMost
  PROVE  Store!Next
<1> DEFINE told == {u \in Proxy : pc[u] = "ready"}
           named == [len |-> TrueSize, genuine |-> TRUE]
           newly == {u \in Proxy : pc'[u] = "ready"}
<1>1. [len |-> TrueSize', genuine |-> TRUE] = named
  BY SameWorld
<1>2. model # NoFile => model = named
  BY PublishedIsNamed DEF IInv
<1>3. model' # NoFile => model' = named
  <2>1. model' # NoFile => model' \in File /\ model'.genuine /\ model'.len = TrueSize
    BY SameWorld DEF IInv, TypeOK, CacheIsGenuine
  <2> QED BY <2>1, OneGenuineFile
<1>4. \/ model = NoFile /\ model' = named
      \/ UNCHANGED model
  <2> HIDE DEF named
  <2> QED BY <1>2, <1>3
<1>5. \/ \E c \in Proxy : \/ model' = named /\ newly = told \cup {c}
                          \/ newly = told \ {c}
      \/ newly = told
  <2>1. CASE \A v \in Proxy : pc'[v] = "ready" <=> pc[v] = "ready"
    BY <2>1
  <2>2. ASSUME NEW u \in Proxy, \A v \in Proxy \ {u} : pc'[v] = "ready" <=> pc[v] = "ready"
        PROVE  \/ model' = named /\ newly = told \cup {u}
               \/ newly = told \ {u}
    <3>1. CASE pc'[u] = "ready"
      <4>1. newly = told \cup {u}
        BY <2>2, <3>1
      <4>2. model' # NoFile
        BY <3>1 DEF IInv, ReadyMeansCached
      <4> QED BY <1>3, <4>1, <4>2
    <3>2. CASE pc'[u] # "ready"
      <4>1. newly = told \ {u}
        BY <2>2, <3>2
      <4> QED BY <4>1
    <3> QED BY <3>1, <3>2
  <2> HIDE DEF told, newly, named
  <2> QED BY <2>1, <2>2 DEF OneAtMost, told, newly
<1>6. Store!Publish \/ UNCHANGED model
  BY <1>4 DEF Store!Publish
<1>7. \/ \E c \in Proxy : Store!Tell(c) \/ Store!Ask(c)
      \/ newly = told
  BY <1>5 DEF Store!Tell, Store!Ask
<1> QED BY <1>1, <1>6, <1>7 DEF Store!Next

(* What a proxy does by itself touches no file.                             *)
LEMMA OwnStep ==
  ASSUME TypeOK, NEW u \in Proxy, NEW label, Goto(u, label)
  PROVE  OneAtMost
BY DEF Goto, TypeOK, OneAtMost

(* An answer tells one proxy.                                               *)
LEMMA ToldStep ==
  ASSUME NEW u \in Proxy, NEW offset, Told(u, offset)
  PROVE  OneAtMost
BY DEF Told, OneAtMost

(* A failure tells one proxy.                                               *)
LEMMA FailedStep ==
  ASSUME TypeOK, NEW r \in Request, Failed(r)
  PROVE  OneAtMost
BY FailedTells, ToldStep DEF Request

(* statusUnlocked never removes the model.                                  *)
LEMMA StatusKeepsModel ==
  ASSUME IInv, NEW u \in Uploaders, model' = Status(Size[u]).model
  PROVE  model # NoFile => model' # NoFile
BY StatusSound

(* No handler removes the model, and each tells one proxy at most.          *)
LEMMA NextTells ==
  ASSUME IInv, Next
  PROVE  OneAtMost /\ (model # NoFile => model' # NoFile)
<1>0. TypeOK /\ Uploaders \subseteq Proxy
  BY WorldTypes DEF IInv
<1>1. ASSUME NEW u \in Proxy, EnsureModel(u) \/ StatusFails(u) \/ Put(u) \/ Abandon(u)
      PROVE  OneAtMost /\ UNCHANGED model
  BY <1>0, <1>1, OwnStep DEF EnsureModel, StatusFails, PublishFails, Put, Abandon, store
<1>2. ASSUME NEW u \in Proxy, ModelStatus(u)
      PROVE  OneAtMost /\ (model # NoFile => model' # NoFile)
  <2>1. u \in Uploaders
    BY <1>2 DEF ModelStatus, IInv, Asked
  <2>2. model' = Status(Size[u]).model
    BY <1>2 DEF ModelStatus
  <2>3. OneAtMost
    BY <1>0, <1>2, OwnStep DEF ModelStatus
  <2> QED BY <2>1, <2>2, <2>3, StatusKeepsModel
<1>3. ASSUME NEW r \in pending, Append(r)
      PROVE  OneAtMost /\ (model # NoFile => model' # NoFile)
  <2> DEFINE s == Status(Size[r.by])
  <2>1. r \in Request /\ r.by \in Uploaders /\ r.by \in Proxy
    BY <1>0 DEF IInv, TypeOK, Asked
  <2>2. model' = s.model /\ s.received \in Nat
    BY <1>3, <2>1, StatusSound DEF Append
  <2>3. Answered(r, s.received) \/ Failed(r) \/ UNCHANGED pc
    BY <1>3 DEF Append
  <2>4. OneAtMost
    <3> HIDE DEF s
    <3>1. CASE Answered(r, s.received)
      BY <1>0, <2>1, <2>2, <3>1, AnsweredTells, ToldStep
    <3>2. CASE UNCHANGED pc
      BY <3>2 DEF OneAtMost
    <3> QED BY <1>0, <2>1, <2>3, <3>1, <3>2, FailedStep
  <2> QED BY <2>1, <2>2, <2>4, StatusKeepsModel
<1>4. CASE Copy
  BY <1>4 DEF Copy, OneAtMost
<1>5. ASSUME CopyFails \/ TooLong \/ RenameFails
      PROVE  OneAtMost /\ UNCHANGED model
  <2>1. writer # Idle /\ Failed(writer.request) /\ UNCHANGED model
    BY <1>5 DEF CopyFails, TooLong, RenameFails, Fits, Copied, store
  <2> QED BY <1>0, <2>1, WriterFacts, FailedStep
<1>6. CASE Partial \/ Complete
  <2>1. writer # Idle /\ (Answered(writer.request, Offset) \/ Failed(writer.request))
    BY <1>6 DEF Partial, Complete, Fits, Copied
  <2>2. /\ writer.request \in Request /\ writer.request.by \in Uploaders
        /\ writer.request.by \in Proxy /\ Offset \in Nat /\ part \in File
    BY <2>1, WriterFacts DEF Offset
  <2>3. model' = model \/ model' = part
    BY <1>6 DEF Partial, Complete, store
  <2>4. OneAtMost
    BY <1>0, <2>1, <2>2, AnsweredTells, ToldStep, FailedStep
  <2> QED BY <2>2, <2>3, <2>4, Limit
<1>7. CASE Crash
  <2>1. \A v \in Proxy : pc'[v] = "ready" <=> pc[v] = "ready"
    BY <1>7 DEF Crash
  <2> QED BY <1>7, <2>1 DEF Crash, OneAtMost, store
<1>8. ASSUME NEW r \in pending, Unauthorised(r) \/ AppendFails(r)
      PROVE  OneAtMost /\ UNCHANGED model
  BY <1>0, <1>8, FailedStep DEF Unauthorised, AppendFails, PublishFails, TypeOK, store
<1> QED BY <1>1, <1>2, <1>3, <1>4, <1>5, <1>6, <1>7, <1>8 DEF Next, Serve, Handle

(* Every step of the uploads is a step of the store, or not seen.           *)
LEMMA StepIsStoreStep ==
  ASSUME IInv, [Next]_vars
  PROVE  [Store!Next]_(Store!vars)
<1>1. CASE Next
  <2>1. IInv' /\ UNCHANGED world
    BY <1>1, StepIInv DEF Next
  <2> QED BY <1>1, <2>1, NextTells, StoreStep
<1>2. CASE UNCHANGED vars
  <2>1. UNCHANGED <<world, model, pc>>
    BY <1>2 DEF vars, changing, store
  <2> QED BY <2>1, SameWorld DEF Store!vars
<1> QED BY <1>1, <1>2

(* The uploads implement the store the proxies rely on: a file under the    *)
(* digest is the model, stays whatever fails, and is there for whoever has  *)
(* been told that it is (Store.Append, statusUnlocked, ensureModel).        *)
THEOREM UploadsAreDigestStore == Spec => ImplementsDigestStore
<1>1. IInv /\ [Next]_vars => [Store!Next]_(Store!vars)
  BY StepIsStoreStep
<1>2. Spec => Init /\ [][Next]_vars
  BY DEF Spec
<1> QED BY <1>1, <1>2, InitIsStoreInit, UploadInvariant, PTL
        DEF ImplementsDigestStore, Store!Spec
=============================================================================
