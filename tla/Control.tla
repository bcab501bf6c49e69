------------------------------ MODULE Control ------------------------------
(***************************************************************************)
(* The Control server (src/internal/control/server.go): the registry of    *)
(* Provider nodes, the concurrency slots reserved by leases and the groups *)
(* of reservations held by a distributed session.  One mutex guards the    *)
(* three maps, and a handler is one action, but for two that read the      *)
(* clock before they lock it: register and renewDistributedGroup arrive in *)
(* one step and act in a later one, with the time they read.  A request    *)
(* that is rejected before the mutex (bad body, wrong client secret)       *)
(* changes nothing and has no action.  Nothing is persisted: Restart       *)
(* empties the maps and ends the requests that wait.                       *)
(*                                                                         *)
(* tokens is what the clients have been given: signed claims stay valid    *)
(* until they expire, whatever Control forgets in the meantime.            *)
(***************************************************************************)
EXTENDS Scheduling, Integers

CONSTANTS
  Node,             \* node ids
  Id,               \* reservation ids: the random nonces of lease tokens
  GroupId,          \* random ids of distributed groups
  NoGroup,          \* the group of a plain lease
  Reports,          \* the registrations hosts may send
  LeaseRequests,    \* the bodies clients may post to /v1/leases
  GroupRequests,    \* the bodies clients may post to /v1/distributed/groups
  HostSecret,       \* the shared registration secret
  Credentials,      \* per-node credentials; an empty function when there are none
  SeenWindow,       \* a node is stale this long after its last heartbeat (90 s)
  Ttl,              \* default life of a token (-ttl, 5 min)
  HoldTTL,          \* longest life of a reservation (15 min)
  UploadRate, UploadMargin, UploadCap,  \* how a model's size extends the token
  MaxClock,         \* bound on the clock
  MaxWaiting        \* bound: requests that have read the clock and wait for the mutex

VARIABLES
  clock,
  nodes,            \* s.nodes: node id -> registration and lastSeen
  reservations,     \* s.reservations: nonce -> [node, expires]
  groups,           \* s.groups: group id -> [ids, expires]
  registering,      \* registrations that wait for the mutex: [report, now]
  renewing,         \* renewals that wait for the mutex: [group, now]
  tokens            \* the leases issued so far: nonce -> [node, expires, group]

waiting == <<registering, renewing>>
vars == <<clock, nodes, reservations, groups, waiting, tokens>>

ASSUME ControlAssumption ==
  /\ Node \subseteq Nat \ {0}
  /\ IsFiniteSet(Node) /\ IsFiniteSet(Id)
  /\ NoGroup \notin GroupId
  /\ {SeenWindow, Ttl, HoldTTL, UploadMargin, UploadCap, MaxClock, MaxWaiting} \subseteq Nat
  /\ Ttl > 0 /\ HoldTTL > 0
  /\ UploadRate \in Nat \ {0}
  /\ DOMAIN Credentials \subseteq Node
  /\ \A r \in Reports : r.node \in Node /\ r.slots \in Int /\ r.active \in Int
  /\ \A q \in LeaseRequests : q.size \in Int
  /\ \A q \in GroupRequests : {q.size, q.layers, q.minNodes, q.maxNodes} \subseteq Int

AnyNode == 0       \* the empty node_id of a request
Scopes == {"local", "remote"}

-----------------------------------------------------------------------------
(* Maps *)

Put(f, k, v) == [x \in DOMAIN f \cup {k} |-> IF x = k THEN v ELSE f[x]]

PutAll(f, g) == [x \in DOMAIN f \cup DOMAIN g |-> IF x \in DOMAIN g THEN g[x] ELSE f[x]]

Drop(f, S) == Restrict(f, DOMAIN f \ S)

\* expireReservationsLocked: what is left of a map at time now.
Unexpired(f, now) == Restrict(f, {k \in DOMAIN f : f[k].expires > now})

\* reservedForNodeLocked
ReservedIds(res, n) == {id \in DOMAIN res : res[id].node = n}
Reserved(res, n) == Cardinality(ReservedIds(res, n))

-----------------------------------------------------------------------------
(* Registration *)

\* The secret a registration must carry; false when the pool lists
\* credentials and the node is not among them.
Authorised(r) ==
  IF DOMAIN Credentials = {}
  THEN r.secret = HostSecret
  ELSE r.node \in DOMAIN Credentials /\ r.secret = Credentials[r.node].secret

\* The scope the node is recorded with: the credential's when there are
\* credentials, otherwise the reported one; remote when that is empty.
ScopeOf(r) ==
  LET scope == IF DOMAIN Credentials = {} THEN r.scope ELSE Credentials[r.node].scope
  IN IF scope = "" THEN "remote" ELSE scope

SlotsOf(r) == IF r.slots <= 0 THEN 1 ELSE r.slots

\* Variant: active_tasks is not compared with max_concurrency.
AcceptsReport_AnyLoad(r) == Authorised(r) /\ ScopeOf(r) \in Scopes

AcceptsReport(r) ==
  /\ r.models # {} \/ r.uploads
  /\ Authorised(r)
  /\ ScopeOf(r) \in Scopes
  /\ r.active >= 0 /\ r.active <= SlotsOf(r)
  /\ r.distributed => r.stageEndpoint

RoomToWait == Cardinality(registering) + Cardinality(renewing) < MaxWaiting

\* LastSeen is the time before the lock.
RegisterArrives(r) ==
  /\ RoomToWait /\ AcceptsReport(r)
  /\ registering' = registering \cup {[report |-> r, now |-> clock]}
  /\ UNCHANGED <<clock, nodes, reservations, groups, renewing, tokens>>

Register(w) ==
  LET r == w.report IN
    /\ nodes' = Put(nodes, r.node, [slots |-> SlotsOf(r), active |-> r.active,
                                    scope |-> ScopeOf(r), lastSeen |-> w.now,
                                    report |-> r])
    /\ registering' = registering \ {w}
    /\ UNCHANGED <<clock, reservations, groups, renewing, tokens>>

-----------------------------------------------------------------------------
(* Choosing nodes *)

AvailableVRAM(n) == Max(nodes[n].report.gpus \cup {0})

HasVRAM(n, minimum) == minimum <= 0 \/ \E g \in nodes[n].report.gpus : g >= minimum

NodeMemoryCapacity(n) ==
  LET r == nodes[n].report
  IN IF AvailableVRAM(n) # 0 THEN AvailableVRAM(n)
     ELSE IF r.memFree # 0 THEN r.memFree ELSE r.memTotal

\* Variant: only the host's own report counts.
Active_Reported(res, n) == nodes[n].active

\* Slots of n in use: what the host reported or what is reserved, whichever is
\* larger.
Active(res, n) == Max({nodes[n].active, Reserved(res, n)})

Serving(res, n, scope) ==
  /\ nodes[n].report.available /\ nodes[n].report.ready
  /\ clock - nodes[n].lastSeen < SeenWindow
  /\ Active(res, n) < nodes[n].slots
  /\ scope = "" \/ nodes[n].scope = scope

Candidate(res, n, memory) ==
  [id |-> n, active |-> Active(res, n), slots |-> nodes[n].slots, memory |-> memory]

LeaseCandidates(res, q) ==
  {Candidate(res, n, AvailableVRAM(n)) :
     n \in {m \in DOMAIN nodes :
              /\ Serving(res, m, q.scope)
              /\ IF q.digest THEN nodes[m].report.uploads
                             ELSE q.model \in nodes[m].report.models
              /\ HasVRAM(m, q.minVRAM)
              /\ q.target \in {AnyNode, m}
              /\ m \notin q.excluded}}

GroupCandidates(res, q) ==
  {Candidate(res, n, NodeMemoryCapacity(n)) :
     n \in {m \in DOMAIN nodes :
              /\ Serving(res, m, q.scope)
              /\ nodes[m].report.distributed
              /\ q.model \in nodes[m].report.models \/ q.digest}}

\* leaseTTL: a large model extends the token so that its upload can finish.
LeaseTTL(size) ==
  IF size > 0
  THEN Max({Ttl, Min({size \div UploadRate + UploadMargin, UploadCap})})
  ELSE Ttl

-----------------------------------------------------------------------------
(* Handlers *)

Fresh == Id \ DOMAIN tokens
FreshGroup == GroupId \ {tokens[id].group : id \in DOMAIN tokens}

Purge ==
  /\ reservations' = Unexpired(reservations, clock)
  /\ groups' = Unexpired(groups, clock)

ListNodes ==
  /\ Purge
  /\ UNCHANGED <<clock, nodes, waiting, tokens>>

ValidLease(q) ==
  /\ q.digest => q.size > 0
  /\ q.scope \in Scopes \cup {""}

\* Variant: the reservation lasts HoldTTL whatever the life of the token.
LeaseHold_PastToken(q) == clock + HoldTTL

\* The reservation of a new lease ends with its token, and after HoldTTL at
\* the latest.
LeaseHold(q) == Min({clock + HoldTTL, clock + LeaseTTL(q.size)})

CreateLease(q) ==
  /\ ValidLease(q)
  /\ LET live == Unexpired(reservations, clock)
     IN \E c \in Selected(LeaseCandidates(live, q)), id \in Fresh :
          /\ reservations' = Put(live, id, [node |-> c.id, expires |-> LeaseHold(q)])
          /\ tokens' = Put(tokens, id, [node |-> c.id, expires |-> clock + LeaseTTL(q.size),
                                        group |-> NoGroup])
  /\ groups' = Unexpired(groups, clock)
  /\ UNCHANGED <<clock, nodes, waiting>>

\* No candidate, or the token could not be issued.
LeaseRefused(q) ==
  /\ ValidLease(q)
  /\ Purge
  /\ UNCHANGED <<clock, nodes, waiting, tokens>>

\* Any reservation can be released by its id, a group's stage included.
ReleaseLease(id) ==
  /\ id \in DOMAIN tokens
  /\ reservations' = Drop(reservations, {id})
  /\ UNCHANGED <<clock, nodes, groups, waiting, tokens>>

ValidGroup(q) ==
  /\ q.layers >= 2 /\ q.minNodes >= 0 /\ q.maxNodes >= 0
  /\ q.digest => q.size > 0
  /\ q.scope \in Scopes \cup {""}

\* The bytes to place: the layers' sizes when the request lists them, otherwise
\* the size of the model.
ModelBytes(q) ==
  IF q.layerBytes # <<>> THEN SumFunction(q.layerBytes) ELSE Max({q.size, 0})

\* A list of layer sizes has one entry per layer, none of them negative.
PlanInputOK(q) ==
  /\ q.layerBytes # <<>> => Cardinality(DOMAIN q.layerBytes) = q.layers
  /\ \A i \in DOMAIN q.layerBytes : q.layerBytes[i] >= 0

\* The stages of the group as node ids, in order; zero limits mean two nodes
\* and as many as the minimum.
GroupPlans(res, q) ==
  LET lo == IF q.minNodes = 0 THEN 2 ELSE q.minNodes
      hi == IF q.maxNodes = 0 THEN lo ELSE q.maxNodes
  IN IF PlanInputOK(q)
     THEN StagePlans(GroupCandidates(res, q), q.layers, ModelBytes(q), lo, hi)
     ELSE {}

StageReservations(stages, place, ids) ==
  [id \in ids |-> [node |-> stages[place[id]], expires |-> clock + HoldTTL]]

\* One reservation per stage; place gives the stage of each new id.
CreateGroup(q) ==
  /\ ValidGroup(q)
  /\ LET live == Unexpired(reservations, clock)
     IN \E stages \in GroupPlans(live, q), g \in FreshGroup, ids \in SUBSET Fresh :
        \E place \in Bijection(ids, DOMAIN stages) :
          /\ reservations' = PutAll(live, StageReservations(stages, place, ids))
          /\ groups' = Put(Unexpired(groups, clock), g,
                           [ids |-> ids, expires |-> clock + HoldTTL])
          /\ tokens' = PutAll(tokens, [id \in ids |->
               [node |-> stages[place[id]], expires |-> clock + LeaseTTL(q.size), group |-> g]])
  /\ UNCHANGED <<clock, nodes, waiting>>

\* Variant: the earlier stages keep their reservations.
Rollback_Forgotten(res, ids) == res

\* Issuing the token of a stage failed: the earlier stages are given back.
Rollback(res, ids) == Drop(res, ids)

CreateGroupFails(q) ==
  /\ ValidGroup(q)
  /\ LET live == Unexpired(reservations, clock)
     IN \E stages \in GroupPlans(live, q), ids \in SUBSET Fresh :
        \E place \in Bijection(ids, DOMAIN stages), failed \in DOMAIN stages :
          LET done == {id \in ids : place[id] < failed}
          IN reservations' =
               Rollback(PutAll(live, StageReservations(stages, place, done)), done)
  /\ groups' = Unexpired(groups, clock)
  /\ UNCHANGED <<clock, nodes, waiting, tokens>>

\* The planner found no group.
GroupRefused(q) ==
  /\ ValidGroup(q)
  /\ GroupPlans(Unexpired(reservations, clock), q) = {}
  /\ Purge
  /\ UNCHANGED <<clock, nodes, waiting, tokens>>

ReleaseGroup(g) ==
  /\ IF g \in DOMAIN groups
     THEN /\ reservations' = Drop(reservations, groups[g].ids)
          /\ groups' = Drop(groups, {g})
     ELSE UNCHANGED <<reservations, groups>>
  /\ UNCHANGED <<clock, nodes, waiting, tokens>>

\* A renewal of a group some client knows of reads the clock.
RenewArrives(g) ==
  /\ RoomToWait /\ g \in {tokens[id].group : id \in DOMAIN tokens}
  /\ renewing' = renewing \cup {[group |-> g, now |-> clock]}
  /\ UNCHANGED <<clock, nodes, reservations, groups, registering, tokens>>

\* Variant: the renewal does not purge first.
RenewGroup_NoPurge(w) ==
  /\ w.group \in DOMAIN groups
  /\ groups' = [groups EXCEPT ![w.group].expires = w.now + HoldTTL]
  /\ reservations' = [id \in DOMAIN reservations |->
       IF id \in groups[w.group].ids
       THEN [reservations[id] EXCEPT !.expires = w.now + HoldTTL] ELSE reservations[id]]
  /\ renewing' = renewing \ {w}
  /\ UNCHANGED <<clock, nodes, registering, tokens>>

\* Variant: the renewal extends the group and not its reservations.
RenewGroup_GroupOnly(w) ==
  /\ w.group \in DOMAIN Unexpired(groups, w.now)
  /\ groups' = [Unexpired(groups, w.now) EXCEPT ![w.group].expires = w.now + HoldTTL]
  /\ reservations' = Unexpired(reservations, w.now)
  /\ renewing' = renewing \ {w}
  /\ UNCHANGED <<clock, nodes, registering, tokens>>

\* It purges and extends with the time it read before it had the mutex.  An
\* unknown group, one that had expired by then included, is answered with 404.
RenewGroup(w) ==
  LET g == w.group
      live == Unexpired(reservations, w.now)
      kept == Unexpired(groups, w.now)
      till == w.now + HoldTTL
  IN /\ IF g \in DOMAIN kept
        THEN /\ groups' = Put(kept, g, [ids |-> kept[g].ids, expires |-> till])
             /\ reservations' = PutAll(live, [id \in DOMAIN live \cap kept[g].ids |->
                                               [node |-> live[id].node, expires |-> till]])
        ELSE groups' = kept /\ reservations' = live
     /\ renewing' = renewing \ {w}
     /\ UNCHANGED <<clock, nodes, registering, tokens>>

-----------------------------------------------------------------------------
(* Environment *)

Tick ==
  /\ clock < MaxClock
  /\ clock' = clock + 1
  /\ UNCHANGED <<nodes, reservations, groups, waiting, tokens>>

\* The process starts again with empty maps.
Restart ==
  /\ nodes' = <<>> /\ reservations' = <<>> /\ groups' = <<>>
  /\ registering' = {} /\ renewing' = {}
  /\ UNCHANGED <<clock, tokens>>

Init ==
  /\ clock = 0
  /\ nodes = <<>> /\ reservations = <<>> /\ groups = <<>> /\ tokens = <<>>
  /\ registering = {} /\ renewing = {}

Next ==
  \/ \E r \in Reports : RegisterArrives(r)
  \/ \E w \in registering : Register(w)
  \/ ListNodes
  \/ \E q \in LeaseRequests : CreateLease(q) \/ LeaseRefused(q)
  \/ \E id \in Id : ReleaseLease(id)
  \/ \E q \in GroupRequests : CreateGroup(q) \/ CreateGroupFails(q) \/ GroupRefused(q)
  \/ \E g \in GroupId : ReleaseGroup(g) \/ RenewArrives(g)
  \/ \E w \in renewing : RenewGroup(w)
  \/ Tick
  \/ Restart

Spec == Init /\ [][Next]_vars

-----------------------------------------------------------------------------
(* Properties *)

\* Type invariant of the three maps of server.go, of the requests that wait for
\* its mutex, whose time has come, and of the tokens issued.
TypeOK ==
  /\ clock \in Nat
  /\ DOMAIN nodes \subseteq Node
  /\ \A n \in DOMAIN nodes : nodes[n].slots \in Nat \ {0} /\ nodes[n].active \in 0..nodes[n].slots
  /\ DOMAIN reservations \subseteq Id
  /\ \A id \in DOMAIN reservations : reservations[id] \in [node : Node, expires : Nat]
  /\ DOMAIN groups \subseteq GroupId
  /\ \A g \in DOMAIN groups : groups[g] \in [ids : SUBSET DOMAIN tokens, expires : Nat]
  /\ registering \subseteq [report : {r \in Reports : AcceptsReport(r)}, now : 0..clock]
  /\ renewing \subseteq [group : GroupId, now : 0..clock]
  /\ DOMAIN tokens \subseteq Id
  /\ \A id \in DOMAIN tokens :
       tokens[id] \in [node : Node, expires : Nat, group : GroupId \cup {NoGroup}]

\* Every reservation is backed: by a token for the same node that some client
\* holds and, when the token is a stage's, by a group that lists it and ends at
\* the same time (createDistributedGroup with its rollback at lines 278-285,
\* renewDistributedGroup, expireReservationsLocked).  A stage's slot and its
\* group live and die together whatever the order of renewals, expiries, failed
\* creations and releases.
ReservationsBacked ==
  /\ \A id \in DOMAIN reservations :
       /\ id \in DOMAIN tokens
       /\ reservations[id].node = tokens[id].node
       /\ tokens[id].group # NoGroup =>
            /\ tokens[id].group \in DOMAIN groups
            /\ id \in groups[tokens[id].group].ids
            /\ reservations[id].expires = groups[tokens[id].group].expires
  /\ \A g \in DOMAIN groups : \A id \in groups[g].ids : tokens[id].group = g

\* A reservation Control would still count at the current time.
Held(id) == id \in DOMAIN reservations /\ reservations[id].expires > clock

\* A client that disappears holds a slot for HoldTTL at most (line 192, lines
\* 270 and 322), and a plain lease's slot never outlives the token that uses it
\* (line 193).
HoldBounded ==
  \A id \in DOMAIN reservations :
    /\ reservations[id].expires <= clock + HoldTTL
    /\ tokens[id].group = NoGroup => reservations[id].expires <= tokens[id].expires

\* Admission: a step that takes a slot of a node (createLease line 169,
\* createDistributedGroup line 243) leaves no more reservations on it than its
\* MaxConcurrency, whichever handler took the others.
AdmissionWithinCapacity ==
  [][\A n \in DOMAIN nodes :
       Reserved(reservations', n) > Reserved(reservations, n)
         => Reserved(reservations', n) <= nodes[n].slots]_vars

\* A slot that was released, purged or forgotten by a restart is never taken
\* again under the same id, and one that has run out counts again in one case
\* only: a renewal of its group had read the clock before the end (line 317),
\* had to wait for the mutex, and found that no purge had come in between.  No
\* later renewal revives anything (line 319 purges first, line 325 skips
\* missing reservations).
RevivedOnlyInTime ==
  [][\A id \in DOMAIN tokens : Held(id)' /\ ~Held(id) =>
       /\ id \in DOMAIN reservations
       /\ \E w \in renewing \ renewing' :
            w.group = tokens[id].group /\ w.now < reservations[id].expires]_vars

\* While a group is held, its stages' slots are held: the only step that takes
\* one of them away and leaves the group is a client's release of that very
\* reservation (releaseLease does not look at the groups).
GroupHeld(g) == g \in DOMAIN groups /\ groups[g].expires > clock

GroupKeepsStages ==
  [][\A g \in DOMAIN groups : \A id \in groups[g].ids :
       Held(id) /\ ~Held(id)' => ~GroupHeld(g)' \/ ReleaseLease(id)]_vars

-----------------------------------------------------------------------------
(* What Control implements *)

PoolCapacity == [n \in Node |-> IF n \in DOMAIN nodes THEN nodes[n].slots ELSE 0]

PoolHeld == [id \in DOMAIN reservations |-> reservations[id].node]

Pool == INSTANCE SlotPool
          WITH capacity <- PoolCapacity, held <- PoolHeld, spent <- DOMAIN tokens

\* Control is a pool of slots.  A reservation counts until something removes
\* it: its end takes effect with the next purge.  Leases and groups take slots
\* under fresh ids and only of nodes that have one free once they have purged,
\* a group all of its slots in one step or none; purges, releases and restarts
\* only take slots away; refusals, rollbacks and renewals, late ones included,
\* give nobody a slot.
ImplementsSlotPool == Pool!Spec
=============================================================================
