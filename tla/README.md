# AIPool in TLA+

A specification of the parts of AIPool that are hard to test: who holds which
slot of which node, what a retry meets, what a crash or a lost call leaves
behind, and which lock is held when. The modules model the Go code under
`src/`, TLC checks them on small instances, and TLAPS proves the safety of every
module for every instance. Four abstract specifications say what a part promises to
the others: `SlotPool` (Control implements it, a chat uses it), `Pipeline` (a stage
session), `DigestStore` (the uploads) and `ByteStream` (the secure stream).

    tlc -config MCControl.cfg MCControl        # one of the runs below
    tlapm ControlProofs.tla                    # the proofs about Control

## The system

A *requester* runs the **proxy** (an OpenAI-compatible local server). *Providers*
run a **host** beside a model runtime. **Control** knows the hosts and hands out
leases and groups; the **relay** joins connections of requesters and providers
that cannot reach each other.

| Component | State it keeps | Operations | Talks to |
|---|---|---|---|
| Control `internal/control/server.go` | `nodes`, `reservations`, `groups`, one mutex, nothing on disk | register, list, create and release a lease, create, renew and release a group, lazy expiry | hosts (heartbeats), proxies and managers (leases, groups) |
| Layer planner `internal/distributed/planner.go` | none; a function called under Control's mutex | `Plan`, `PlanLayers`, `chooseLayerEnd` | Control |
| Lease tokens `internal/auth/token.go` | none; signed claims | issue, verify | Control issues, hosts verify |
| Distributed manager `internal/distributed/manager.go`, `llamarpc.go` | the resident group, digest and `llama-server`, a renewal goroutine, one mutex | `Ensure`, `stopLocked`, renewal, `Start` | Control, a child process on a fixed port |
| Proxy, distributed chat `internal/proxy/server.go` | none of its own | `chat`, `forwardDistributed` | manager, child process |
| Proxy, upload `internal/proxy/server.go` | one mutex per digest | `ensureModel`, `modelStatus` | hosts |
| Proxy, single-node chat `internal/proxy/server.go` | the lease of each request | `chat`, `leaseReachable` (three attempts), `preflight`, `releaseLease` | Control, hosts |
| Host, model transfer `internal/host/server.go` | none of its own | `modelStatus`, `modelUpload` | model cache |
| Model cache `internal/modelcache/store.go` | a part file and a model file per digest, a mutex per digest | `Status`, `Append` | host |
| Host, chat `internal/host/server.go` | `activeTasks`, `managedMu` | heartbeat, `chat`, `acquireTask`, `forwardRuntime` | Control, managed runtime |
| Managed runtime `internal/managedruntime/llama.go` | the child process and its digest, on a fixed port | `Ensure`, `Stop`, health check | host, a child process |
| Stage session `internal/distributed/session.go` | the next sequence number, one mutex | `Run` | stage clients |
| Stage client, server, runtime `internal/stage` | one persistent connection per client; per session the sequence number expected | `Process`, `handle` | each other, in tensorwire frames |
| Relay `internal/tunnel/relay.go` | counters of places, control connections, pending streams, one mutex | accept, authenticate, register, pair, notify, expire | agents |
| Tunnel agent `internal/tunnel/agent.go` | one control connection, two copies per stream | dial, reconnect, open streams, `bridge` | relay, secure stream |
| Secure stream `internal/tunnel/crypto.go` | two record counters, the rest of the last record | `Read`, `Write` | agents, end to end |

What is hard, and what correctness means for each:

- **Control.** Leases and groups compete for the same slots, renewals arrive late,
  one stage of several fails to be issued, Control restarts while its tokens live
  on. Correct: no slot without an owner, none granted beyond a node's concurrency,
  none for longer than the hold limit, none that comes back after it was taken away,
  and one that has run out only by a renewal that came in time.
- **Planner.** Indices and rounding at the boundaries. Correct: the loops end, and
  cut the layers into contiguous non-empty ranges, with every byte of the model at
  one stage.
- **Stage session.** A call that times out leaves frames under way which look like
  those of its retry. Correct: a result belongs to its call, stages and session
  agree on the past, every call returns.
- **Upload.** Several proxies resume one part file; hosts crash anywhere. Correct:
  what is published is the model; acknowledged bytes stay; uploads get there.
- **Relay.** A connection is closed from several goroutines; control connections are
  replaced; streams are retried under the same ID. Correct: places are counted
  exactly, clean-ups hit only what they own, halves are joined with their partner.
- **Distributed manager.** A long-lived child process, a lease at another server and
  a mutex must stay in step through failed starts, lost calls and crashes. Correct:
  no stray server, the group stays reserved while it is used and no longer.
- **Chat on one host.** The proxy, Control and the host each keep a piece of a request;
  clients leave, calls are lost, one model replaces another in a runtime that has one
  port and one mutex. Correct: every slot and every task comes back, an answer comes
  from the model that was asked for, nobody waits for ever behind somebody else.
- **Secure stream.** Records carry no number: both ends count. Reads are smaller than
  records, and the first records may arrive together with the handshake. Correct:
  each program reads the other's bytes in order, none missing and none twice.

The hazards are listed one by one, at their lines, in `PROJECT.json`.

## Modules

| Module | Models | Checked by | Proved in |
|---|---|---|---|
| `Scheduling` | the order on candidates and the number of stages, shared by Control and the planner | through both | `ControlProofs`, `PlannerProofs` |
| `SlotPool` | abstract: what Control promises its clients | through `Control` | |
| `Control` | `internal/control/server.go` | `MCControl` | `ControlProofs` |
| `Planner` | the loops of `PlanLayers` and `chooseLayerEnd` | `MCPlanner` | `PlannerProofs` |
| `Pipeline` | abstract: what a session promises its callers | through `StageSession` | |
| `StageSession` | `Session.Run`, `TCPClient`, `stage.Server`, `Runtime`, frames | `MCStageSession` | `StageSessionProofs` |
| `DigestStore` | abstract: what a model cache promises the proxies | through `ModelUpload` | |
| `ModelUpload` | `Store`, the host's transfer handlers, `ensureModel` | `MCModelUpload` | `ModelUploadProofs` |
| `Relay` | `Relay` and the connections agents dial | `MCRelay` | `RelayProofs` |
| `DistributedManager` | `Manager`, `LlamaRPC`, the distributed branch of `chat` | `MCDistributedManager` | `DistributedManagerProofs` |
| `Chat` | the single-node branch of the proxy's `chat`, the host's `chat`, `Llama`; Control is a `SlotPool` | `MCChat` | `ChatProofs` |
| `ByteStream` | abstract: what a tunnelled connection promises | through `SecureStream` | |
| `SecureStream` | `secureConn`, `bridge`, `openStream` | `MCSecureStream` | `SecureStreamProofs` |

### Control

`nodes`, `reservations` and `groups` are the three maps. All handlers work under
`Server.mu`, so a handler is one action: `ListNodes` (it purges),
`CreateLease` / `LeaseRefused`, `ReleaseLease`, `CreateGroup` / `CreateGroupFails`
(the rollback at lines 278-285) / `GroupRefused`, `ReleaseGroup`; each purges exactly
where the code calls `expireReservationsLocked`. Two handlers read the clock before they
lock: `register` takes the time of the heartbeat and `renewDistributedGroup` (line 317)
the time it purges and extends with. They are two actions each, `RegisterArrives` and
`Register`, `RenewArrives` and `RenewGroup`; between them the request waits, with the
time it has read, in `registering` or `renewing`, and others overtake it. `Tick` advances
the clock, `Restart` empties the maps. `tokens` is what clients have been given;
Control does not keep it, and it survives a restart. Candidates come out of a Go map
in any order; where the code's comparison leaves a tie the choice is
nondeterministic. Which nodes a group gets is given by the relation
`StagePlans` of `Scheduling`; `Planner` shows that the loops meet it
(`PlanMeetsContract`).

A renewal that waited while its group ran out therefore makes reservations count that
had already run out. `RevivedOnlyInTime` says that this is the only way, and that the
renewal had come in time. It takes a slot from nobody: every handler that grants purges
first, so a reservation that is still in the map when the renewal gets the mutex has
stood in nobody's way.

`Pool == INSTANCE SlotPool` maps these variables to a pool of slots: the slots a
node offers are its registered concurrency, an id holds a slot while its reservation
is in the map, run out or not, and the ids spent are those of the tokens issued. A lease
is a `Grant` of one id, a group a `Grant` of one per stage, each with the `End` of what
its purge removes in the same step; other purges and releases are an `End`, a failed group
nothing or an `End`, a restart a `Reset`. A step of the clock, a request that arrives and a
renewal, late or not, give nobody a slot.

### Planner

One action per turn of a loop: `Begin` (checks and sort), `CountNode` /
`OutOfNodes` (how many nodes hold the model), `OpenStage`, `Extend`, `CloseStage`,
`LastStage`. Integers are unbounded; sizes of models are far below 2^63.

### StageSession

One session over `N` stages. `Run` steps through `Dial`, `Write`, `Read` at each
stage; every step can fail as the code allows, and a failure closes the connection
(`Close`) but not what is in it: the frame joins `late` and the stage may execute it
at any later time (`ServeLate`). A stage executes a frame (`Serve`), executes it
without its answer arriving (`ServeUnanswered`), refuses it, restarts with an empty
sequence table, or lets the connection's fixed deadline pass (`Expire`). An answer that
a stage had written before it restarted may be in the client's socket already: `Restart`
keeps it or loses it. An activation is represented by the call it came from and the
stages it went through.

A session is `Wedged` when a stage the current call has yet to pass expects another number
than the session's (`LostStep`), unless the stage has just executed that call or its answer
is under way: such a call may still succeed, even at a stage that has been restarted since.

`Calls == INSTANCE Pipeline` shows a caller's view: a call is taken while none is at a
stage, and it fails or is answered, once, with its own activation come through every
stage. The connections, the sequence numbers, late frames and restarts are not seen.
That is stronger than `ResultIsOwn`, which speaks of the answers that were given; the
refinement also says that there is one per call at most, for the call in progress.

### ModelUpload

One digest at one host. A file is its length and whether its bytes are the
model's. `Append` takes the store's mutex and checks the offset; the body arrives in
steps (`Copy`), breaks off (`CopyFails`), is too long (`TooLong`) or complete;
`Complete` verifies and renames. `Status`, and the look `Append` takes at the status
first, publish a complete part as well; where that rename fails the part stays and the
request fails (`PublishFails`: `StatusFails`, `AppendFails`). `Crash` stops the host
between any two steps. Proxies ask for the status, send chunks, and give up when an
answer is lost or reports no progress. A proxy's file may have changed since it was
hashed, its size may be wrong and its chunks overlong.

`Store == INSTANCE DigestStore` maps the uploads to a store that has one file for the
digest: absent, then the file the digest names, and never again another or none. A proxy
is told of it only in a state in which it is there. `ReadyMeansCached` and
`CacheIsGenuine` are what this says of single states; that no step replaces or removes
the file is what makes the answer good for as long as the proxy relies on it.

### Relay

A step is a section under `Relay.mu` with the I/O that precedes the next one: `Accept`,
`Admit`, `Register`, `Greet`, `ControlEnds`, `TurnAway` / `Park` / `Join`, `Notify`,
`StartRelay`, `EndPair`, `Expire`. What a handler has read under the mutex and uses after it
is in `found`: the connection a control connection replaces, which `CloseOld` closes once
the table has been changed and the mutex released, and the peer a first half notifies.
Closing a connection takes the mutex twice more, for a `countedConn` within another. The
global and the address place are given back in the step of the handler that closes it; the
pair's place is owed (`owed`) and given back in a step of its own, `ReleasePair`. Two things
are coarser than the code: a handler's clean-up of a table and the close that follows it are
one step (`ControlEnds`, `NotifyFails`), and `EndPair` closes both halves at once. `stuck` is
true when a goroutine waits for the mutex while it holds it.

### DistributedManager

`mu` is `Manager.mu`, held from `Lock` to the return of `Ensure`. `Hit` and `Miss` are
the health check; `Miss` runs `stopLocked` (stop the renewal goroutine, kill the
server, release the group). `CreateGroup`, `Spawn` and `Started` follow, each with its
failures. Renewal goroutines, server processes, `Forward` (after the mutex was
released), Control's expiry and restarts, and the end of the proxy interleave with
them. Five minutes are one step of time, the period of the ticker and the limit of a
start; Control's 15 minutes are three.

### Chat

All chats go through one proxy. `pc`, `tried`, `wants` and `lease` are the proxy's side of a
request, `task` the host's handler; the two are separate because the proxy may be through
while the handler still runs. `Lease` and `Drop` are the attempts (when the preflight fails
the lease is released before the next one). With `Reached` the attempts are over: the
request goes to this host or fails. A model of the requester is brought there first, which
is `LockUpload`, a mutex per model that looks at no context, and `Uploaded`, the end of an
upload that has no time limit (module `ModelUpload` has its steps). `Posted` is the end of
writing the request's body, with which the limit on the answer's header begins, and
`ForwardFails` any failure up to there. `HeaderTimeout`, `GiveUp` and `Finish` end the
request; a release is one call whose result nobody looks at, so it may be lost (`lost`).
`Admit` is the host's `acquireTask`; `authorize` has read the whole body by then.
`active` is `activeTasks`, `mutex` is `managedMu`, `cmd` the digest `Llama` remembers and
`server` the process that has the port. `Lock` to `Leave` is `Ensure` and the forwarding
of the answer, all under the mutex: `Hit` compares digests and asks whatever has the port
for its health, `Start` and `Abandon` stop the old process, which may outlive its kill
(`Stopped`). Leases expire under a running chat, Control forgets, hosts and servers crash.

### SecureStream

One stream between two agents from the moment the relay has joined its halves. A byte
is its number in what its program wrote; a record is a counter and a range of bytes,
and only whole records count, since a part of one fails like the end of the stream.
`Take` and `Write` are the copy from the socket into records, `ReadRecord` and
`ReadBuffer` the copy back; `Open` is the handshake's end, with records already behind
it; `Shut` closes both connections when the first copy returns. `Cut` is the network:
it loses a suffix of what is under way, and everything after it. The counters are
unbounded: 2^64 records are out of reach of a connection.

`ImplementsByteStream` maps a stream to `ByteStream`: open until its agent has closed,
over once a program is through or the network has failed.

## Runs

| Run | Configuration | What it shows |
|---|---|---|
| `control` | 2 nodes, 3 reservation ids, 2 groups, 4 registrations, 2 lease requests, 1 group request, one request that waits for the mutex, clock to 3 | `ReservationsBacked`, `HoldBounded`, `RevivedOnlyInTime`, `GroupKeepsStages`, `ImplementsSlotPool` |
| `planner` | every set of up to 3 candidates, 20 layer lists, 3 limits | `LayersPartitioned`, `EveryByteOnce`, `PlanMeetsContract`, `Terminates` |
| `planner_fit` | the same | *violated*: `StageFitsMemory` |
| `stage_session` | 3 stages, 3 calls of which 2 succeed, all faults | `ImplementsPipeline`, `HistoryAgrees`, `WedgedForever`, `RunReturns` |
| `stage_deadline` | the same with no fault but the fixed deadline | *violated*: `NeverWedged` |
| `model_upload` | two worlds: 3 proxies (genuine, changed file, wrong size with overlong chunks) with 1 fault, and 2 genuine ones, one with overlong chunks, with 2 faults | `CacheIsGenuine`, `ImplementsDigestStore`, `AcknowledgedKept`, `EventuallyCached` |
| `chat` | 2 hosts, one that never answers the proxy; 2 chats, 2 models and a plain one, 2 lease ids, 2 attempts, 1 fault | `SlotsAccounted`, `TasksCounted`, `ServedByOwnModel`, `ChatReturns`, `TasksDrain` |
| `secure_stream` | 3 bytes one way, 1 the other; records of 2, reads of 3 and 1 | `ImplementsByteStream`, `Arrives` |
| `relay` | 1 pair, 2 streams, 4 connections | `PlacesCounted`, `ServedControlRegistered`, `WaitingIsReachable`, `PairsMatch` |
| `relay_expiry` | 3 connections | *violated*: `PlacesComeBack` |
| `distributed_manager` | 2 chats, 2 models, 2 group ids, all faults | `NoStrayServer`, `GroupKept`, `OrphansExpire`, `EnsureReturns` |
| `distributed_race` | the same without faults | *violated*: `AnsweredByAnnounced` |

Every passing run also checks the module's `TypeOK`, except `secure_stream`: there it
is a part of the invariant that is proved.

Why the bounds are enough. In `control` two nodes with one or two slots and three
ids let a lease and a group compete for the last slot, a node shrink under its
reservations, and a group be created, renewed, expired and forgotten; a clock of
three passes one hold of two. One waiting request is enough for a renewal to be overtaken
by the end of its group, by a purge, by the release or by a restart; more of them are
overtaken in the same ways. The proofs remove the bounds. Three stages give a
stage before, at and after a failure; three calls give one that succeeds, one that
is abandoned and its retry. Four units of a file in chunks of two let a chunk be
broken in its middle and a second proxy take over there. Four connections to the
relay are a control connection, its replacement, and two halves, or two halves and
the retries of both. In `DistributedManager` an id nobody knows any more is used
again, so behaviours are unbounded although two groups exist at a time: the
resident one and one that was given up and not released. A third id changes none of
the invariants.

In `chat` the two ids are either one chat and its retry or two chats that compete. One
host has two tasks, so that one chat can wait for the other's mutex; the chats are for
the same model, for two, or for a model and a plain one, which are all pairs up to
renaming but two plain ones, who share nothing. The one fault is a restart of Control
or of a host, a server that dies or one that outlives its kill. In
`secure_stream` three bytes taken at once make two records, the first of which is longer
than a read; the sizes of the code (64 KB records, 32 KB reads on both sides) make
another order of the three, and the theorem covers all. `CHECK_DEADLOCK` stays on.

`StageSession` and `Relay` do not check deadlock: their calls and dials are bounded
and the instance may come to rest. The other instances never stop.

### Fairness

- `Planner`: weak fairness of the whole: a sequential function runs on.
- `StageSession`: only of the client, whose every step has a deadline. Nothing is
  assumed of stages, which may hang, or of the network.
- `ModelUpload`: weak of handlers and proxies, which are running goroutines; strong of
  taking a mutex, since a Go mutex hands over to a waiter after a millisecond. Chats
  keep coming, and faults are finitely many.
- `Relay`: weak of its goroutines and timers. Nothing is assumed of agents.
- `DistributedManager`: weak of a chat inside `Ensure` (every wait has a limit) and of
  renewal goroutines, strong of taking the mutex and of the passing of time. Nothing is
  assumed of clients, server processes, Control or the network.
- `Chat`: weak of the proxy's steps whose wait has a limit (`TimeUp`: the calls to Control,
  the preflight, the answer's header, the release) and of the host's handler (loading has a
  limit of two minutes, a read ends with its client's context); strong of taking
  `managedMu` and the mutex of an upload, which are Go mutexes. Writing a model or a
  request's body has no limit, since `ResponseHeaderTimeout` starts after it: nothing is
  assumed of it, and `ChatReturns` is for behaviours in which no such write goes on for ever.
  Nothing is assumed of the end of an answer that is being read, which has no limit either:
  `ChatReturns` stops at the beginning of the answer, and `TasksDrain` is for behaviours in
  which no client reads for ever. Nothing is assumed of Control, servers or clients.
- `SecureStream`: weak of the two copies and of the bridge, which are goroutines; that
  includes that the relay passes on what it gets and that a program reads what it is
  given, until it is through. A network that fails is excused in `Arrives`.

## Proofs

`ControlProofs` holds for any sets of nodes, ids, registrations and requests and any
time limits (`ControlAssumption`: finite sets, numbers, positive limits).

The inductive invariant is `IInv == TypeOK /\ ReservationsBacked`. Types alone are not
inductive: that a group lists ids of issued tokens, and that a fresh id is on nobody's
list, is what makes a creation unable to touch an older reservation, and what makes a
renewal prolong exactly its own stages. One lemma per handler shows that `IInv` is
kept; where a handler chooses nodes, a lemma first names its effect (`LeaseMade` and
its counterpart for groups). From `IInv` follow

- `TypeCorrect`, `ReservationsAreBacked`;
- `HoldsAreBounded`: `LeaseHold` is the smaller of the token's end and the hold limit;
- `RevivalsAreInTime`, `GroupsKeepStages`, `AdmissionIsBounded`: action properties, one case
  per kind of step (`StepKinds`). A purge with a time read earlier removes less
  (`PurgesEffect`), so it takes nothing from a group that is held; a renewal puts back
  nothing that is not in the map (`RenewEffect`). Admission counts: a step that adds one
  reservation to a node whose count was below its concurrency stays within it.

`PlannerProofs` holds for any candidates, layers and limits. `IInv` adds to
`TypeOK` and `LayersPartitioned` where each loop stands (`Placed`, `Frontier`): the
sequence of usable nodes is injective, at least as many layers are left as stages, and
the start of the next stage is the end of the last. It needs nothing of the sizes: the
ranges are right whatever `Target` is. From it follow `IndicesInRange` and
`PlanPartitionsLayers`. Three more invariants stand on it:

- `Counted` gives `PlanIsFewestNodes`. It says that the running total of the counting loop
  is the memory of the nodes counted, and that no smaller allowed number of them was enough.
  At an error it says that there is no plan at all, in any order of the candidates: this
  needs that the comparison sorts in one way only (`SortedUnique`), from which
  `AtMostOnePlan` follows as well.
- `ByteInv` gives `BytesAreAccounted`, the theorem of `EveryByteOnce`: the sizes the stages
  report add up to the bytes of the layers given out. It is the one place where the sizes
  matter.
- `Work` is what the loops have left to do. `LoopsAreBounded` says that it is a number and
  that every turn of every loop makes it smaller, so no loop turns more than `N + 2 * Layers
  + 3` times. It is the part of `Terminates` that needs no fairness.

The first two need sums over a range of a sequence, which `Scheduling` and `Planner` take
from the folds of the community modules. No induction schema is available; what is needed
of a sum (that adding an index adds its value, `SumWithout`, and that equal functions have
equal sums, `SumOfSame`) is proved by a minimal counterexample: strict inclusion of finite
sets is well-founded, so a set of finite sets that is not empty has a member without a
smaller one in it (`MinimalSubset`).

`ControlProofs` ends with `ControlIsSlotPool`: Control implements `SlotPool`. It uses
`IInv` in every step. What a purge leaves is a part of what holds a slot in the pool
(`LiveIsHeld`), and there Control and the pool count the same (`LoadIsReserved`), so a node
Control finds room on after its purge has room in the pool once those slots have ended
(`ChosenHasRoom`): a creation is a `Grant` (`LeaseIsGrant`, `GroupIsGrant`). Whatever only
takes reservations away or leaves them, a renewal included, is an `End` (`TakesAway`).
`AdmissionIsBounded` stays as a theorem about Control's own counting; what clients rely on is
the refinement.

`SecureStreamProofs` proves `SecureIsByteStream` for any sizes of records, reads and
streams. The inductive invariant is `IInv == TypeOK /\ Flow /\ Reason` (theorem
`StreamInvariant`). `Flow` says, for each direction, that what was given to the reader, the
rest of its last record, and the records under way follow each other without a gap, with
consecutive counters from the reader's on, and up to where the writer is unless the
network was cut; it is what makes every record open (`HeadOpens`). `Reason` says that no
copy ends and no agent closes before a program is through or the network has failed.
`AppendKeeps`, `TailKeeps` and `PrefixKeeps` are the three things that happen to the
records under way. Each read is then a `Deliver` of the next bytes (`ReadIsDeliver`).

`StageSessionProofs` holds for any number of stages and calls and every choice of faults
(`StageAssumption`: at least two stages; `None` is no frame). `IInv` (theorem
`SessionInvariant`) adds to `TypeOK` and `ResultIsOwn`: the frame of the call that holds the
mutex (`CurrentFrame`); that a connection carries that frame or its answer and nothing else
(`Carried`); that no stage is more than one number ahead of the session, and one that is
behind has been restarted and stands at 0 (`InStep`); that a stage the call has passed
executed it last or has been restarted since (`Passed`); that a stage the call has not
reached knows only earlier calls (`Earlier`); and `HistoryAgrees` stage by stage (`Agrees`).
`ResultIsOwn` is not inductive without `Carried`, which excludes the answer to an abandoned
frame (it has the same sequence number), and `HistoryAgrees` not without `Passed`. `Earlier`
tells what an abandoned call left at a stage from what the current one does there.
`WedgedStays` proves the action property `WedgedForever` from the same invariant: a stage
that has lost step takes no frame of the session (`LostRefuses`) and has no answer under way
(`LostStaysSilent`).

`SessionIsPipeline` is the refinement. Every step at a connection or a stage leaves the
caller's view alone (`UnseenStep`), every failure is a `Fail`, and the one step that needs
the invariant is the last stage's answer: `Carried` says that what is read there is the
activation of the call in progress, come through all stages (`ReadIsPipelineStep`).

`ModelUploadProofs` holds for any proxies, files, chunk sizes and number of faults
(`UploadAssumption`: positive sizes; `NoFile` is no file). `IInv` (`UploadInvariant`) is
`TypeOK`, the three invariants, `Asked` (the upload that holds the mutex found the part
exactly as long as its offset and stays within its size) and `PartIsPrefix` (while every
uploader has the genuine file the part is a prefix of it). The last two are needed for
`AcknowledgedKept`: an overlong chunk cuts the part back to where it began, which is not
before an offset that was acknowledged. `PublishedIsGenuine` needs no honesty: the file is
verified before the rename, whoever wrote it.

`UploadsAreDigestStore` is the refinement. Two facts are shown of each action (`NextTells`):
it does not remove the model, and at most one proxy learns something of it. The invariant
before and after the step does the rest (`StoreStep`): a file that is there is the file the
digest names, so two of them are the same, and a proxy that is told finds it there.

`RelayProofs` holds for any pairs, streams, addresses, limits and number of connections
(`RelayAssumption`: positive limits; `Nobody` is no connection, stream or pending stream).
`IInv` (`RelayInvariant`) has four parts. `CountInv` is `PlacesCounted`; its step is that
closing a set gives back exactly the open ones in it (`CloseCounts`), so a second close of a
connection gives back nothing; a pair's places are those of its open connections and of the
closed ones that owe it one (`OwedInv`). `PlaceInv` ties where a handler is to its
connection: one in its handshake is still open, one that has not parked or joined has no
partner. `ControlInv` is `ServedControlRegistered` and that whoever is registered, or is
being replaced, got that far (`Registrations`, `Replacements`), so the connection a newcomer
closes is counted for its pair. A connection that is open and not registered any more is one
that a handler which has not greeted yet is about to close. `StreamInv` says that a pending
stream has exactly one half, of that stream and role, without a partner (`OneHalf`), and
that a half is reachable from the moment it is parked, not only once it waits (`Reachable`):
that is what `handleStream` relies on when it notifies without the mutex. A join then finds
the other side of the same stream, and so of the same pair. Most actions move one handler
and are instances of `MovePlaces`, `MoveControls` and `MoveStreams`; dialling, expiry and
the actions that change a table have proofs of their own for that part. An expiry keeps
`WaitingIsReachable` only because it stops the relay (finding 3).

`DistributedManagerProofs` holds for any chats, models, groups and faults and any times
with `StartLimit + RenewPeriod < Hold` and `RenewPeriod + RenewPeriod < Hold`
(`ManagerAssumption`; 5 + 5 < 15 minutes in the code). `IInv` (`ManagerInvariant`) says who
holds a group inside `Ensure` (`Ensuring`), that the place of the runtime is vacant from
planning on (`Vacant`), which gives `NoStrayServer`, and bounds the age of a group by the
renewal timer (`Renewed`) or by the time a start has taken (`Young`), with one missed
renewal allowed. `GroupKept` is not inductive: that a group is not expired now says nothing
of the next tick, its age against the timer does.

`ChatProofs` holds for any chats, hosts, models, slots, attempts and faults
(`ChatAssumption`; `None` is no lease, task or process). `IInv` (`ChatInvariant`) has a
proxy's half (`ProxyInv`: ids are given out in order, a proxy knows a lease exactly while it
is past leasing, nobody else knows it and it is not lost) and a host's half (`HostInv`: the
counter is the number of handlers; a handler between `Lock` and the end of its answer has
the mutex, and after `Ensure` the remembered digest is its model; the process that is kept
runs the remembered digest), linked by one fact: a chat whose request is not sent yet has
no handler (`Linked`). Most steps change one half only.

Every inductive invariant was first checked by TLC on the instance of its run.

Only model-checked: the liveness properties (`Terminates`, `RunReturns`,
`EventuallyCached`, `OrphansExpire`, `EnsureReturns`, `ChatReturns`, `TasksDrain`,
`Arrives`), which need fairness and `ENABLED` and are out of the prover's reach. Every
invariant, action property and refinement that a passing run checks is proved.

## Findings

1. `planner_fit`: `README.md:51` says a group is refused when any node's capacity does
   not suffice. `planner.go:75` compares memory in sum only; a stage may exceed its node.
2. `stage_deadline`: `docs/DISTRIBUTED_INFERENCE.md:13` says stage clients reuse
   persistent connections. `stage/server.go:32` ends each five minutes after it was
   accepted, and by `WedgedForever` a session that is interrupted after an earlier stage
   has advanced never continues.
3. `relay_expiry`: `tunnel/relay.go:262` closes counted connections while it holds the
   mutex their close takes. The first pending stream that expires stops the relay.
   `tunnel_test.go:155` expects released capacity to be reusable.
4. `distributed_race`: `README.md:46` says response headers name the nodes that
   executed the request. `proxy/server.go:189` forwards to a fixed port after the
   manager's mutex was released, and another model may be there by then. (A second way
   to the same state: `cmd/proxy/main.go:40` leaves through `log.Fatal`, so the deferred
   `Close` never runs; a `llama-server` that lives on answers for the next one's health.)

## Observations

What the models show of code that contradicts no document:

- A renewal that waits for Control's mutex purges and extends with the time at which it came
  (`control/server.go:317`). A group whose renewal came in time survives its own end, unless
  somebody purged in between; the answer then depends on who got the mutex first.
- In a chat nothing limits the wait for another upload of the same model, or a model or a
  body that the host stops reading (`proxy/server.go:355`, `382`). A client that leaves
  while its chat waits for the mutex keeps the slot it leased until the chat has had its
  turn or the lease runs out.

- `host/server.go:210` verifies the lease token a second time and ignores the error. A
  token that runs out in between names no model, and the chat is answered by the
  operator's own runtime instead of the requester's model (`Lapse`).
- A `llama-server` that outlives its host, or the five seconds `stopLocked` waits for its
  end, keeps the fixed port. The next `Ensure` asks it for its health and takes it for
  its own. `ServedByOwnModel` says this only of the process the host keeps.
- The health check of `Ensure` uses the request's context: a client that leaves at that
  moment makes it fail and a loaded runtime is stopped (`Start`; in the distributed
  manager, `Miss`).
- `bridge` closes both directions as soon as one ends, so a program that closes only its
  output may lose the answer. `ByteStream` promises delivery only until then.

## Not modelled

- Ciphers, signatures of tokens and handshakes, TLS pinning: cryptography is taken to
  work. The handshake's messages before a stream is joined are part of `Relay`.
- The proxy's list of models: it reads Control's nodes and keeps nothing.
- The GGUF reader, the catalogue, the hardware inventory: sequential readers of files
  and of the operating system; their results are inputs of the modules.
- HTTP encoding, message types, commands and scripts: no state of their own.

## Plan

Done: all modules, and for each its type invariant, its safety properties and the
refinements proved. Left: the second half of a pending stream that arrives at the relay's
limit of pending streams (`tunnel/relay.go:182`) is turned away like a first one; `Relay`
has the step, and what it does to progress has no property of its own. Liveness stays with
TLC.
