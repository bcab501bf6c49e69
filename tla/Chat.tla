-------------------------------- MODULE Chat --------------------------------
(***************************************************************************)
(* A chat that runs on one host: the proxy leases a slot from Control,     *)
(* probes the host and forwards the request (internal/proxy/server.go);    *)
(* the host admits it, loads its model into the managed llama-server and   *)
(* forwards the request to it (internal/host/server.go,                    *)
(* internal/managedruntime/llama.go).  Control is the pool of slots that   *)
(* module Control implements.                                              *)
(*                                                                         *)
(* A chat is one request to the one proxy.  The proxy's side of it is pc,  *)
(* tried, wants and lease, the host's handler is task.  The proxy may be   *)
(* through with a request while its handler still runs; a handler notices  *)
(* the client's absence late or never.  What a client asks for in its      *)
(* headers only narrows Control's choice, so a client that insists on a    *)
(* node is one for which no other is tried.                                *)
(***************************************************************************)
EXTENDS Integers, FiniteSets

CONSTANTS
  Chats,           \* requests under way at one time
  Node,            \* hosts
  Reachable,       \* those that may answer the proxy; the others register all the same
  Id,              \* ids of leases, 1..n: bounds the leases of a behaviour
  Model,           \* models of the requesters, which hosts load when they are needed
  Plain,           \* a model the host's operator provides
  Asks,            \* models a chat may be for, by chat
  MaxConcurrency,  \* slots, by host
  Attempts,        \* hosts leaseReachable tries (3)
  MaxFaults,       \* bound: crashes, and kills that take too long
  None             \* no lease, task, model, server or holder of a mutex

Reservation == [id : Id, host : Node]
Places == {"admitted", "queued", "ensuring", "loading", "forwarding", "streaming"}
Task == [host : Node, model : Model \cup {Plain}, at : Places]
Process == [model : Model, ready : BOOLEAN, tracked : BOOLEAN]

ASSUME ChatAssumption ==
  /\ Reachable \subseteq Node /\ MaxConcurrency \in [Node -> Nat \ {0}]
  /\ Attempts \in Nat \ {0} /\ MaxFaults \in Nat /\ Id \subseteq Nat
  /\ Asks \in [Chats -> SUBSET (Model \cup {Plain})]
  /\ Plain \notin Model /\ None \notin Model \cup Chats \cup {Plain}
  /\ None \notin Reservation \cup Task \cup Process

VARIABLES
  capacity, held, spent,   \* Control: see SlotPool
  pc,        \* where the proxy is with each chat
  tried,     \* hosts it could not reach
  wants,     \* the model of a request the host has not begun on; Plain if there is none
  lease,     \* the lease it knows of: [id, host]
  lost,      \* held leases nobody will release
  task,      \* the host's handler: [host, model, at]
  active,    \* Server.activeTasks, by host
  mutex,     \* Server.managedMu: the chat that has it, by host
  cmd,       \* Llama.digest when Llama.cmd is set
  server,    \* the process on the runtime's port: [model, ready, tracked]
  faults

pool == <<capacity, held, spent>>
proxy == <<pc, tried, wants, lease>>
host == <<task, active, mutex>>
runtime == <<cmd, server>>
vars == <<pool, proxy, lost, host, runtime, faults>>

Pool == INSTANCE SlotPool

Fault == faults < MaxFaults /\ faults' = faults + 1

Goto(c, label) == pc' = [pc EXCEPT ![c] = label]

-----------------------------------------------------------------------------
(***************************************************************************)
(* Control, as its clients see it.                                         *)
(***************************************************************************)

(* A lease on h under the next id, as the pool allows it. *)
Granted(id, h) ==
  /\ id = Cardinality(spent) + 1 /\ id \in Id
  /\ held' = [i \in DOMAIN held \cup {id} |-> IF i = id THEN h ELSE held[i]]
  /\ spent' = spent \cup {id} /\ UNCHANGED capacity
  /\ Pool!Grant

Ended(id) ==
  /\ held' = [i \in DOMAIN held \ {id} |-> held[i]] /\ UNCHANGED <<capacity, spent>>
  /\ Pool!End

(* A reservation runs out, whether or not its chat is still being answered. *)
Expire(id) ==
  /\ id \in DOMAIN held /\ Ended(id)
  /\ lost' = lost \ {id}
  /\ UNCHANGED <<proxy, host, runtime, faults>>

ControlRestarts ==
  /\ Fault
  /\ capacity' = Pool!Unknown /\ held' = <<>> /\ UNCHANGED spent
  /\ Pool!Reset
  /\ lost' = {}
  /\ UNCHANGED <<proxy, host, runtime>>

(* Register: the host announces itself.  While RuntimeStatus finds no ready *)
(* runtime Control grants none of its slots, as LeaseFails allows.          *)
Heartbeat(h) ==
  /\ capacity' = [capacity EXCEPT ![h] = MaxConcurrency[h]] /\ UNCHANGED <<held, spent>>
  /\ Pool!Offer
  /\ UNCHANGED <<proxy, lost, host, runtime, faults>>

-----------------------------------------------------------------------------
(***************************************************************************)
(* The proxy.                                                              *)
(***************************************************************************)

(* The proxy goes on, and nothing else changes. *)
Jump(c, from, to) ==
  /\ pc[c] = from /\ Goto(c, to)
  /\ UNCHANGED <<pool, tried, wants, lease, lost, host, runtime, faults>>

(* The request is the host's to answer, or is being answered. *)
Connected(c) == pc[c] \in {"waiting", "streaming"}

Begin(c) == Jump(c, "idle", "leasing") /\ task[c] = None

Return(c) ==
  /\ Goto(c, "idle")
  /\ tried' = [tried EXCEPT ![c] = {}] /\ wants' = [wants EXCEPT ![c] = Plain]

Lease(c) ==
  /\ pc[c] = "leasing"
  /\ \E id \in Id, h \in Node \ tried[c] :
       Granted(id, h) /\ lease' = [lease EXCEPT ![c] = [id |-> id, host |-> h]]
  /\ Goto(c, "probing")
  /\ UNCHANGED <<tried, wants, lost, host, runtime, faults>>

(* Control grants the lease and its answer does not arrive. *)
LeaseUnheard(c) ==
  /\ pc[c] = "leasing"
  /\ \E id \in Id, h \in Node \ tried[c] : Granted(id, h) /\ lost' = lost \cup {id}
  /\ Return(c)
  /\ UNCHANGED <<lease, host, runtime, faults>>

(* No candidate, Control does not answer, or the client has gone. *)
LeaseFails(c) ==
  /\ pc[c] = "leasing" /\ Return(c)
  /\ UNCHANGED <<pool, lease, lost, host, runtime, faults>>

(* releaseLease: one attempt, whose result nobody looks at.  An id Control  *)
(* does not know any more is ignored.                                       *)
Released(c) ==
  /\ \/ Ended(lease[c].id) /\ UNCHANGED lost
     \/ UNCHANGED pool /\ lost' = lost \cup ({lease[c].id} \cap DOMAIN held)
  /\ lease' = [lease EXCEPT ![c] = None]

TryNext(c) ==
  /\ Cardinality(tried[c]) + 1 < Attempts
  /\ Goto(c, "leasing") /\ tried' = [tried EXCEPT ![c] = @ \cup {lease[c].host}]
  /\ UNCHANGED wants

Drop_Keeps(c) ==
  /\ pc[c] = "probing"
  /\ lease' = [lease EXCEPT ![c] = None] /\ UNCHANGED <<pool, lost>>
  /\ TryNext(c) \/ Return(c)
  /\ UNCHANGED <<host, runtime, faults>>

Drop_Forever(c) ==
  /\ pc[c] = "probing"
  /\ Released(c)
  /\ Goto(c, "leasing") /\ tried' = [tried EXCEPT ![c] = @ \cup {lease[c].host}]
  /\ UNCHANGED <<wants, host, runtime, faults>>

(* The preflight fails: the lease is given back before another host is      *)
(* tried, unless the client named this one or it was the last attempt.      *)
Drop(c) ==
  /\ pc[c] = "probing"
  /\ Released(c)
  /\ TryNext(c) \/ Return(c)
  /\ UNCHANGED <<host, runtime, faults>>

(* The preflight succeeds.  A model of the requester is brought to the      *)
(* host's cache before the request is sent there.                           *)
Reached(c) ==
  /\ pc[c] = "probing" /\ lease[c].host \in Reachable
  /\ \E m \in Asks[c] : /\ wants' = [wants EXCEPT ![c] = m]
                        /\ Goto(c, IF m = Plain THEN "posting" ELSE "locking")
  /\ tried' = [tried EXCEPT ![c] = {}]
  /\ UNCHANGED <<pool, lease, lost, host, runtime, faults>>

(* lockUpload: one upload of a model at a time.  Like managedMu.Lock it     *)
(* does not look at the request's context.                                  *)
LockUpload(c) ==
  /\ Jump(c, "locking", "uploading")
  /\ \A d \in Chats : ~(pc[d] = "uploading" /\ wants[d] = wants[c])

(* The host has the model (ModelUpload). *)
Uploaded(c) == Jump(c, "uploading", "posting")

(* The request's body is written: ResponseHeaderTimeout begins. *)
Posted(c) == Jump(c, "posting", "waiting")

(* The upload fails, the connection breaks, the client leaves, or authorize *)
(* refuses the token, which has run out.                                    *)
ForwardFails(c) == Jump(c, "uploading", "releasing") \/ Jump(c, "posting", "releasing")

(* authorize has read the request's body, and the compare-and-swap of       *)
(* acquireTask succeeds.                                                    *)
Admit(c) ==
  LET h == lease[c].host IN
    /\ pc[c] = "waiting" /\ task[c] = None
    /\ active[h] < MaxConcurrency[h]
    /\ active' = [active EXCEPT ![h] = @ + 1]
    /\ task' = [task EXCEPT ![c] = [host |-> h, model |-> wants[c], at |-> "admitted"]]
    /\ wants' = [wants EXCEPT ![c] = Plain]
    /\ UNCHANGED <<pool, pc, tried, lease, lost, mutex, runtime, faults>>

HeaderTimeout_Unset(c) == Jump(c, "waiting", "releasing") /\ task[c] = None

(* ResponseHeaderTimeout, a client that leaves before the answer begins, or *)
(* a host that refuses the request: acquireTask finds it full.              *)
HeaderTimeout(c) == Jump(c, "waiting", "releasing")

(* The client disconnects; there is no limit on the length of an answer. *)
GiveUp(c) == Jump(c, "streaming", "releasing")

(* The deferred releaseLease. *)
Finish(c) ==
  /\ pc[c] = "releasing"
  /\ Released(c) /\ Return(c)
  /\ UNCHANGED <<host, runtime, faults>>

-----------------------------------------------------------------------------
(***************************************************************************)
(* The host's handler.                                                     *)
(***************************************************************************)

At(c, label) == task[c] # None /\ task[c].at = label
HostOf(c) == task[c].host
Move(c, label) == task' = [task EXCEPT ![c].at = label]

(* The handler goes on, and nothing else changes. *)
Step(c, from, to) ==
  /\ At(c, from) /\ Move(c, to)
  /\ UNCHANGED <<pool, proxy, lost, active, mutex, runtime, faults>>

(* The answer ends, with or without success: the proxy goes on to release   *)
(* the lease, if it is still there.                                         *)
Replied(c) ==
  /\ IF Connected(c) THEN Goto(c, "releasing") ELSE UNCHANGED pc
  /\ UNCHANGED <<tried, wants, lease>>

Leave_KeepsTask(c) ==
  /\ task' = [task EXCEPT ![c] = None] /\ UNCHANGED active
  /\ mutex' = [mutex EXCEPT ![HostOf(c)] = IF @ = c THEN None ELSE @]
  /\ Replied(c)

Leave_KeepsMutex(c) ==
  /\ task' = [task EXCEPT ![c] = None]
  /\ active' = [active EXCEPT ![HostOf(c)] = @ - 1] /\ UNCHANGED mutex
  /\ Replied(c)

(* The handler returns: its deferred calls unlock the mutex, if it has it,  *)
(* and give the task back.                                                  *)
Leave(c) ==
  /\ task' = [task EXCEPT ![c] = None]
  /\ active' = [active EXCEPT ![HostOf(c)] = @ - 1]
  /\ mutex' = [mutex EXCEPT ![HostOf(c)] = IF @ = c THEN None ELSE @]
  /\ Replied(c)

(* The handler returns from here and leaves the runtime alone. *)
Quit(c, from) ==
  /\ At(c, from) /\ Leave(c)
  /\ UNCHANGED <<pool, lost, runtime, faults>>

(* The response's header reaches the proxy. *)
Answer(c, from) ==
  /\ At(c, from) /\ Move(c, "streaming")
  /\ IF Connected(c) THEN Goto(c, "streaming") ELSE UNCHANGED pc
  /\ UNCHANGED <<pool, tried, wants, lease, lost, active, mutex, runtime, faults>>

(* The model was evicted, or the host keeps no models. *)
NotCached(c) == Quit(c, "admitted")

(* managedMu.Lock does not look at the request's context. *)
Queue(c) == Step(c, "admitted", "queued") /\ task[c].model # Plain

(* chat verifies the token a second time and ignores the error: one that    *)
(* has run out since authorize names no model, like one for Plain.          *)
Lapse(c) ==
  /\ At(c, "admitted") /\ (Connected(c) => lease[c].id \notin DOMAIN held)
  /\ task' = [task EXCEPT ![c].model = Plain]
  /\ UNCHANGED <<pool, proxy, lost, active, mutex, runtime, faults>>

(* forwardRuntime, or the built-in mock of a host without a runtime. *)
Direct(c) == Answer(c, "admitted") /\ task[c].model = Plain

-----------------------------------------------------------------------------
(***************************************************************************)
(* Llama.Ensure, under managedMu, and the process it runs.                 *)
(***************************************************************************)

Lock(c) ==
  /\ At(c, "queued") /\ mutex[HostOf(c)] = None
  /\ mutex' = [mutex EXCEPT ![HostOf(c)] = c]
  /\ Move(c, "ensuring")
  /\ UNCHANGED <<pool, proxy, lost, active, runtime, faults>>

(* The health check is answered by whatever process has the port. *)
Healthy(h) == server[h] # None /\ server[h].ready
Tracked(h) == server[h] # None /\ server[h].tracked

Hit_AnyModel(c) ==
  /\ Step(c, "ensuring", "forwarding")
  /\ cmd[HostOf(c)] # None /\ Healthy(HostOf(c))

Hit(c) ==
  /\ Step(c, "ensuring", "forwarding")
  /\ cmd[HostOf(c)] = task[c].model /\ Healthy(HostOf(c))

(* stopLocked kills the process and waits five seconds for its end.  It may *)
(* take longer: then the process stays on the port, unknown.  next is what  *)
(* Ensure puts there if it can: a new process ends at once on a taken port. *)
Stopped(h, next) ==
  \/ /\ server' = [server EXCEPT ![h] = IF Tracked(h) \/ @ = None THEN next ELSE @]
     /\ UNCHANGED faults
  \/ /\ Tracked(h) /\ Fault
     /\ server' = [server EXCEPT ![h].tracked = FALSE]

(* Another model, no process, or a health check that fails: the check of a  *)
(* request whose client has gone always does.                               *)
Start(c) ==
  LET h == HostOf(c) IN
    /\ At(c, "ensuring") /\ Move(c, "loading")
    /\ Stopped(h, [model |-> task[c].model, ready |-> FALSE, tracked |-> TRUE])
    /\ cmd' = [cmd EXCEPT ![h] = task[c].model]
    /\ UNCHANGED <<pool, proxy, lost, active, mutex>>

(* Ensure gives the process up and returns: its executable cannot be        *)
(* started, or two minutes have passed.                                     *)
Abandon(c, from) ==
  LET h == HostOf(c) IN
    /\ At(c, from) /\ Leave(c)
    /\ Stopped(h, None) /\ cmd' = [cmd EXCEPT ![h] = None]
    /\ UNCHANGED <<pool, lost>>

StartFails(c) == Abandon(c, "ensuring")

LoadTimeout(c) == Abandon(c, "loading") /\ ~Healthy(HostOf(c))

Loaded(c) == Step(c, "loading", "forwarding") /\ Healthy(HostOf(c))

(* The client has gone, or the process has ended.  Both leave Llama.cmd as  *)
(* it is, and a process that is loading goes on.                            *)
LoadFails(c) == Quit(c, "loading") /\ (~Connected(c) \/ ~Tracked(HostOf(c)))

(* forwardRuntimeURL, with the mutex still held. *)
Stream(c) == Answer(c, "forwarding") /\ Healthy(HostOf(c))
StreamFails(c) == Quit(c, "forwarding")

(* copyResponse returns: the answer is complete or broken off. *)
StreamEnds(c) == Quit(c, "streaming")

(* Once the client has gone the request's context ends the read. *)
StreamCancelled(c) == Quit(c, "streaming") /\ ~Connected(c)

(* llama-server has loaded its model. *)
ServerReady(h) ==
  /\ server[h] # None /\ server' = [server EXCEPT ![h].ready = TRUE]
  /\ UNCHANGED <<pool, proxy, lost, host, cmd, faults>>

(* A llama-server ends, by itself or because an earlier kill succeeds. *)
ServerDies(h) ==
  /\ server[h] # None /\ server' = [server EXCEPT ![h] = None]
  /\ IF Tracked(h) THEN Fault ELSE UNCHANGED faults
  /\ UNCHANGED <<pool, proxy, lost, host, cmd>>

(* The host process ends and is started again.  Its child lives on. *)
HostRestarts(h) ==
  LET gone == {c \in Chats : task[c] # None /\ HostOf(c) = h} IN
    /\ Fault
    /\ task' = [c \in Chats |-> IF c \in gone THEN None ELSE task[c]]
    /\ pc' = [c \in Chats |-> IF c \in gone /\ Connected(c) THEN "releasing" ELSE pc[c]]
    /\ active' = [active EXCEPT ![h] = 0] /\ mutex' = [mutex EXCEPT ![h] = None]
    /\ cmd' = [cmd EXCEPT ![h] = None]
    /\ server' = IF server[h] = None THEN server ELSE [server EXCEPT ![h].tracked = FALSE]
    /\ UNCHANGED <<pool, tried, wants, lease, lost>>

-----------------------------------------------------------------------------
(* The hosts have registered. *)
Init ==
  /\ capacity = MaxConcurrency /\ held = <<>> /\ spent = {}
  /\ pc = [c \in Chats |-> "idle"]
  /\ tried = [c \in Chats |-> {}] /\ wants = [c \in Chats |-> Plain]
  /\ lease = [c \in Chats |-> None] /\ lost = {}
  /\ task = [c \in Chats |-> None]
  /\ active = [h \in Node |-> 0] /\ mutex = [h \in Node |-> None]
  /\ cmd = [h \in Node |-> None] /\ server = [h \in Node |-> None]
  /\ faults = 0

(* What ends the proxy's waits for Control, for the preflight and for the   *)
(* header of an answer when their time is up.                               *)
TimeUp(c) == LeaseFails(c) \/ Drop(c) \/ HeaderTimeout(c) \/ Finish(c)

Handler(c) ==
  \/ NotCached(c) \/ Queue(c) \/ Lapse(c) \/ Direct(c)
  \/ Hit(c) \/ Start(c) \/ StartFails(c) \/ Loaded(c) \/ LoadFails(c) \/ LoadTimeout(c)
  \/ Stream(c) \/ StreamFails(c) \/ StreamCancelled(c)

Next ==
  \/ \E c \in Chats :
       \/ Begin(c) \/ Lease(c) \/ LeaseUnheard(c) \/ Reached(c)
       \/ LockUpload(c) \/ Uploaded(c) \/ Posted(c) \/ ForwardFails(c)
       \/ TimeUp(c) \/ GiveUp(c)
       \/ Admit(c) \/ Handler(c) \/ StreamEnds(c) \/ Lock(c)
  \/ \E h \in Node : Heartbeat(h) \/ ServerReady(h) \/ ServerDies(h) \/ HostRestarts(h)
  \/ \E id \in Id : Expire(id)
  \/ ControlRestarts

(* The waits of TimeUp have a limit.  The proxy's others have none: for the *)
(* upload's mutex, which a Go mutex grants in turn, and while it writes a   *)
(* model or a request's body, which need not end.  A handler's waits have   *)
(* one too, but for its mutex and for the end of an answer somebody still   *)
(* reads, which need not come.                                              *)
Fairness ==
  \A c \in Chats :
    /\ WF_vars(TimeUp(c)) /\ SF_vars(LockUpload(c))
    /\ WF_vars(Handler(c)) /\ SF_vars(Lock(c))

Spec == Init /\ [][Next]_vars /\ Fairness

-----------------------------------------------------------------------------
(***************************************************************************)
(* Properties.                                                             *)
(***************************************************************************)

(* Every variable has its type; leaseReachable goes on only while it has    *)
(* tried fewer hosts than it may.                                           *)
TypeOK ==
  /\ capacity \in [Node -> Nat] /\ spent \subseteq Id
  /\ DOMAIN held \subseteq spent /\ \A id \in DOMAIN held : held[id] \in Node
  /\ pc \in [Chats -> {"idle", "leasing", "probing", "locking", "uploading", "posting",
                       "waiting", "streaming", "releasing"}]
  /\ wants \in [Chats -> Model \cup {Plain}]
  /\ tried \in [Chats -> SUBSET Node] /\ \A c \in Chats : Cardinality(tried[c]) < Attempts
  /\ lease \in [Chats -> Reservation \cup {None}]
  /\ lost \subseteq DOMAIN held
  /\ task \in [Chats -> Task \cup {None}]
  /\ active \in [Node -> Nat] /\ mutex \in [Node -> Chats \cup {None}]
  /\ cmd \in [Node -> Model \cup {None}] /\ server \in [Node -> Process \cup {None}]
  /\ faults \in 0..MaxFaults

(* A slot of the pool is always somebody's to give back: its chat is still  *)
(* under way and will release it, or its release or the answer that named   *)
(* it was lost.  So retries, errors and disconnecting clients leave no slot *)
(* behind (leaseReachable releases before it tries again, chat defers).     *)
SlotsAccounted ==
  \A id \in DOMAIN held :
    id \in lost \/ \E c \in Chats : lease[c] # None /\ lease[c].id = id

(* The host's counter is the number of its chats that were admitted, and no *)
(* more than it allows, on every path through the handler (acquireTask and  *)
(* the deferred decrement).                                                 *)
TasksCounted ==
  \A h \in Node :
    /\ active[h] = Cardinality({c \in Chats : task[c] # None /\ HostOf(c) = h})
    /\ active[h] <= MaxConcurrency[h]

(* While a chat is answered by the managed runtime, the process the host    *)
(* keeps there runs this chat's model: no other chat replaces it in the     *)
(* middle of the answer, none is taken for another's (chat holds managedMu  *)
(* until copyResponse returns; Ensure compares digests).  Only a process    *)
(* left behind by a restart, or one that outlived its kill, can be on the   *)
(* port in its place.                                                       *)
ServedByOwnModel ==
  \A c \in Chats :
    (At(c, "streaming") /\ task[c].model # Plain /\ Tracked(HostOf(c))) =>
      server[HostOf(c)].model = task[c].model

(* While no upload and no request's body is written for ever, no chat hangs *)
(* in the proxy before its answer begins: neither behind one that is        *)
(* answered for ever and keeps the host's mutex, nor behind other uploads   *)
(* of its model (ResponseHeaderTimeout, the timeouts of preflight and of    *)
(* every call to Control, lockUpload).                                      *)
ChatReturns ==
  (\A c \in Chats : []<>(pc[c] \notin {"uploading", "posting"})) =>
    \A c \in Chats : []<>(pc[c] \in {"idle", "streaming"})

(* No handler hangs in a host while every answer that is read ends or is    *)
(* given up at some time: chats for different models queue for managedMu,   *)
(* with clients that stay or leave, and all get through.                    *)
TasksDrain ==
  (\A c \in Chats : []<>(pc[c] # "streaming")) =>
    \A c \in Chats : []<>(task[c] = None)
=============================================================================
