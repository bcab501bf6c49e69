--------------------------- MODULE ControlProofs ---------------------------
(***************************************************************************)
(* Proofs about Control for any set of nodes, ids, reports, requests and   *)
(* any values of the time limits.                                          *)
(***************************************************************************)
EXTENDS Control, FiniteSetTheorems, TLAPS

-----------------------------------------------------------------------------
(* Lemmas on the operators Control is built from *)

\* max(a, b) of the code, written Max({a, b}), is the larger of the two.
LEMMA MaxOfPair ==
  ASSUME NEW a \in Int, NEW b \in Int
  PROVE  /\ Max({a, b}) \in {a, b}
         /\ Max({a, b}) >= a /\ Max({a, b}) >= b
<1>1. \E x \in {a, b} : \A y \in {a, b} : x >= y
  <2>1. CASE a >= b  BY <2>1
  <2>2. CASE ~(a >= b)  BY <2>2
  <2> QED BY <2>1, <2>2
<1> QED BY <1>1 DEF Max

\* min(a, b) of the code, written Min({a, b}), is the smaller of the two.
LEMMA MinOfPair ==
  ASSUME NEW a \in Int, NEW b \in Int
  PROVE  /\ Min({a, b}) \in {a, b}
         /\ Min({a, b}) <= a /\ Min({a, b}) <= b
<1>1. \E x \in {a, b} : \A y \in {a, b} : x =< y
  <2>1. CASE a <= b  BY <2>1
  <2>2. CASE ~(a <= b)  BY <2>2
  <2> QED BY <2>1, <2>2
<1> QED BY <1>1 DEF Min

\* The time limits are numbers.
LEMMA Limits ==
  /\ SeenWindow \in Nat /\ Ttl \in Nat /\ HoldTTL \in Nat /\ UploadMargin \in Nat
  /\ UploadCap \in Nat /\ MaxClock \in Nat /\ UploadRate \in Nat \ {0}
  /\ Ttl > 0 /\ HoldTTL > 0
BY ControlAssumption

\* leaseTTL returns a duration that is at least the default.
LEMMA LeaseTTLType ==
  ASSUME NEW size \in Int
  PROVE  LeaseTTL(size) \in Nat /\ LeaseTTL(size) >= Ttl
<1>1. CASE ~(size > 0)  BY <1>1, Limits DEF LeaseTTL
<1>2. CASE size > 0
  <2> DEFINE up == size \div UploadRate + UploadMargin
             capped == Min({up, UploadCap})
  <2>1. up \in Int  BY <1>2, Limits
  <2> HIDE DEF up
  <2>2. UploadCap \in Int /\ Ttl \in Int  BY Limits
  <2>3. capped \in Int  BY <2>1, <2>2, MinOfPair
  <2> HIDE DEF capped
  <2>4. Max({Ttl, capped}) \in {Ttl, capped} /\ Max({Ttl, capped}) >= Ttl
    BY <2>2, <2>3, MaxOfPair
  <2>5. Max({Ttl, capped}) \in Nat  BY <2>3, <2>4, Limits
  <2> QED BY <1>2, <2>4, <2>5 DEF LeaseTTL, up, capped
<1> QED BY <1>1, <1>2

\* A plan lists different candidates, each by its node id.
LEMMA PlansAreInjective ==
  ASSUME NEW C, IsFiniteSet(C),
         NEW layers \in Int, NEW bytes, NEW lo \in Int, NEW hi \in Int,
         \A a, b \in C : a.id = b.id => a = b,
         NEW p \in StagePlans(C, layers, bytes, lo, hi)
  PROVE  /\ \A i \in DOMAIN p : \E c \in C : p[i] = c.id
         /\ \A i, j \in DOMAIN p : p[i] = p[j] => i = j
<1> DEFINE n == Cardinality(C)
           least == MinStages(lo)
           most == MaxStages(hi, layers)
<1>1. n \in Nat  BY FS_CardinalityType
<1>2. least \in Int
  <2>1. 2 \in Int  OBVIOUS
  <2>2. Max({lo, 2}) \in {lo, 2}  BY <2>1, MaxOfPair
  <2> QED BY <2>2 DEF MinStages
<1>3. most \in Int  BY DEF MaxStages
<1>4. PICK s \in Sorted(C) : \E k \in StageCounts(s, n, bytes, least, most) :
         p = [i \in 1..k |-> s[i].id]
  <2> HIDE DEF n, least, most
  <2>1. p \in UNION { {[i \in 1..k |-> s[i].id] : k \in StageCounts(s, n, bytes, least, most)} :
                       s \in Sorted(C) }
    BY DEF StagePlans, n, least, most
  <2> QED BY <2>1
<1>5. PICK k \in StageCounts(s, n, bytes, least, most) : p = [i \in 1..k |-> s[i].id]
  BY <1>4
<1> HIDE DEF n, least, most
<1>6. Min({most, n}) \in Int /\ Min({most, n}) <= n  BY <1>1, <1>3, MinOfPair
<1>7. k \in Int /\ k <= n
  <2>1. CASE bytes = 0  BY <2>1, <1>5, <1>6 DEF StageCounts
  <2>2. CASE bytes # 0
    <3>1. k \in least..Min({most, n})  BY <2>2, <1>5 DEF StageCounts
    <3> QED BY <3>1, <1>1, <1>2, <1>6
  <2> QED BY <2>1, <2>2
<1>8. s \in Injection(1..n, C)  BY DEF Sorted, Bijection, n
<1>9. /\ s \in [1..n -> C]
      /\ \A i, j \in 1..n : s[i] = s[j] => i = j
  BY <1>8 DEF Injection, IsInjective
<1>10. DOMAIN p = 1..k /\ \A i \in 1..k : i \in 1..n /\ p[i] = s[i].id
  BY <1>1, <1>5, <1>7
<1> QED BY <1>9, <1>10

\* A lease goes to a registered node that serves it.
LEMMA LeaseChoice ==
  ASSUME NEW res, NEW q, NEW c \in Selected(LeaseCandidates(res, q))
  PROVE  /\ c.id \in DOMAIN nodes
         /\ Serving(res, c.id, q.scope)
BY DEF Selected, LeaseCandidates, Candidate

\* The stages of a group are registered nodes that serve it, all different.
LEMMA GroupChoice ==
  ASSUME IsFiniteSet(DOMAIN nodes), NEW res, NEW q \in GroupRequests,
         NEW p \in GroupPlans(res, q)
  PROVE  /\ \A i \in DOMAIN p : p[i] \in DOMAIN nodes /\ Serving(res, p[i], q.scope)
         /\ \A i, j \in DOMAIN p : p[i] = p[j] => i = j
<1> DEFINE C == GroupCandidates(res, q)
           lo == IF q.minNodes = 0 THEN 2 ELSE q.minNodes
           hi == IF q.maxNodes = 0 THEN lo ELSE q.maxNodes
           S == {m \in DOMAIN nodes :
                   /\ Serving(res, m, q.scope)
                   /\ nodes[m].report.distributed
                   /\ q.model \in nodes[m].report.models \/ q.digest}
           f == [m \in S |-> Candidate(res, m, NodeMemoryCapacity(m))]
<1>1. p \in StagePlans(C, q.layers, ModelBytes(q), lo, hi)  BY DEF GroupPlans
<1>2. q.layers \in Int /\ lo \in Int /\ hi \in Int  BY ControlAssumption
<1>3. C = {Candidate(res, m, NodeMemoryCapacity(m)) : m \in S}  BY DEF GroupCandidates
<1>4. IsFiniteSet(S)  BY FS_Subset
<1>5. IsFiniteSet(C)
  <2>1. f \in Surjection(S, C)  BY <1>3 DEF Surjection
  <2> QED BY <2>1, <1>4, FS_Surjection
<1>6. \A c \in C : /\ c.id \in S
                   /\ c = Candidate(res, c.id, NodeMemoryCapacity(c.id))
  BY <1>3 DEF Candidate
<1>7. \A a, b \in C : a.id = b.id => a = b  BY <1>6
<1> HIDE DEF C, lo, hi
<1>8. /\ \A i \in DOMAIN p : \E c \in C : p[i] = c.id
      /\ \A i, j \in DOMAIN p : p[i] = p[j] => i = j
  BY <1>1, <1>2, <1>5, <1>7, PlansAreInjective
<1> QED BY <1>6, <1>8

-----------------------------------------------------------------------------
(* The inductive invariant *)

\* Neither part is inductive alone: a renewal needs to know that the ids of other
\* groups are not in this one, and the backing needs the types of the maps.
IInv == TypeOK /\ ReservationsBacked

\* The registry is finite: it only holds nodes of the pool.
LEMMA FiniteNodes == TypeOK => IsFiniteSet(DOMAIN nodes)
BY ControlAssumption, FS_Subset DEF TypeOK

\* The empty maps New starts with satisfy the invariant.
LEMMA InitIInv == Init => IInv
BY ControlAssumption DEF Init, IInv, TypeOK, ReservationsBacked

\* expireReservationsLocked with the time a handler has read.
PurgeAt(now) ==
  /\ reservations' = Unexpired(reservations, now)
  /\ groups' = Unexpired(groups, now)

\* The requests that wait for the mutex stay well formed, new ones and the
\* passing of time included.
LEMMA WaitingStays ==
  ASSUME IInv, clock' \in Nat, clock' >= clock,
         \A w \in registering' : \/ w \in registering
                                 \/ \E r \in Reports : /\ AcceptsReport(r)
                                                       /\ w = [report |-> r, now |-> clock],
         \A w \in renewing' : \/ w \in renewing
                              \/ \E g \in GroupId : w = [group |-> g, now |-> clock]
  PROVE  /\ registering' \subseteq [report : {r \in Reports : AcceptsReport(r)}, now : 0..clock']
         /\ renewing' \subseteq [group : GroupId, now : 0..clock']
<1>1. clock \in Nat /\ clock \in 0..clock' /\ 0..clock \subseteq 0..clock'
  BY DEF IInv, TypeOK
<1>2. /\ registering \subseteq [report : {r \in Reports : AcceptsReport(r)}, now : 0..clock]
      /\ renewing \subseteq [group : GroupId, now : 0..clock]
  BY DEF IInv, TypeOK
<1> QED BY <1>1, <1>2

\* What the purge leaves satisfies the invariant, whatever the time it uses.
LEMMA PurgeIInv ==
  ASSUME IInv, NEW now, PurgeAt(now), UNCHANGED <<clock, nodes, registering, tokens>>,
         renewing' \subseteq renewing
  PROVE  IInv'
BY DEF IInv, TypeOK, ReservationsBacked, PurgeAt, Unexpired, Restrict

\* A registration that arrives only waits.
LEMMA RegisterArrivesIInv ==
  ASSUME IInv, NEW r \in Reports, RegisterArrives(r)
  PROVE  IInv'
<1>1. UNCHANGED <<clock, nodes, reservations, groups, renewing, tokens>>
  BY DEF RegisterArrives
<1>2. /\ registering' \subseteq [report : {q \in Reports : AcceptsReport(q)}, now : 0..clock']
      /\ renewing' \subseteq [group : GroupId, now : 0..clock']
  BY <1>1, WaitingStays DEF RegisterArrives, IInv, TypeOK
<1> QED BY <1>1, <1>2 DEF IInv, TypeOK, ReservationsBacked

\* register touches the node alone.
LEMMA RegisterIInv ==
  ASSUME IInv, NEW w \in registering, Register(w)
  PROVE  IInv'
<1>1. w.report \in Reports /\ AcceptsReport(w.report)  BY DEF IInv, TypeOK
<1>2. w.report.node \in Node /\ w.report.slots \in Int /\ w.report.active \in Int
  BY <1>1, ControlAssumption
<1>3. /\ UNCHANGED <<clock, reservations, groups, renewing, tokens>>
      /\ registering' \subseteq registering
  BY DEF Register
<1>4. /\ DOMAIN nodes' \subseteq Node
      /\ \A n \in DOMAIN nodes' :
           nodes'[n].slots \in Nat \ {0} /\ nodes'[n].active \in 0..nodes'[n].slots
  BY <1>1, <1>2 DEF Register, AcceptsReport, SlotsOf, Put, IInv, TypeOK
<1> QED BY <1>3, <1>4 DEF IInv, TypeOK, ReservationsBacked

\* A renewal that arrives only waits.
LEMMA RenewArrivesIInv ==
  ASSUME IInv, NEW g \in GroupId, RenewArrives(g)
  PROVE  IInv'
<1>1. UNCHANGED <<clock, nodes, reservations, groups, registering, tokens>>
  BY DEF RenewArrives
<1>2. /\ registering' \subseteq [report : {q \in Reports : AcceptsReport(q)}, now : 0..clock']
      /\ renewing' \subseteq [group : GroupId, now : 0..clock']
  BY <1>1, WaitingStays DEF RenewArrives, IInv, TypeOK
<1> QED BY <1>1, <1>2 DEF IInv, TypeOK, ReservationsBacked

\* The reservation of a lease ends with its token or after HoldTTL, whichever
\* comes first.
LEMMA LeaseHoldType ==
  ASSUME clock \in Nat, NEW q \in LeaseRequests
  PROVE  /\ clock + LeaseTTL(q.size) \in Nat
         /\ LeaseHold(q) \in Nat
         /\ LeaseHold(q) <= clock + HoldTTL
         /\ LeaseHold(q) <= clock + LeaseTTL(q.size)
         /\ LeaseHold(q) > clock
<1> DEFINE a == clock + HoldTTL
           b == clock + LeaseTTL(q.size)
<1>1. a \in Nat  BY Limits
<1>2. b \in Nat  BY LeaseTTLType, ControlAssumption
<1> HIDE DEF a, b
<1>3. a \in Int /\ b \in Int  BY <1>1, <1>2
<1>4. Min({a, b}) \in {a, b} /\ Min({a, b}) <= a /\ Min({a, b}) <= b  BY <1>3, MinOfPair
<1>5. LeaseHold(q) = Min({a, b})  BY DEF LeaseHold, a, b
<1>6. a > clock  BY Limits DEF a
<1>7. b > clock
  <2>1. LeaseTTL(q.size) \in Nat /\ LeaseTTL(q.size) >= Ttl  BY LeaseTTLType, ControlAssumption
  <2> QED BY <2>1, Limits DEF b
<1> QED BY <1>1, <1>2, <1>4, <1>5, <1>6, <1>7 DEF a, b

\* A new lease on node n: the reservation and the token under a fresh id,
\* everything else as the purge leaves it.
LeaseMade(q, n, id) ==
  /\ n \in DOMAIN nodes /\ id \in Id \ DOMAIN tokens
  /\ Serving(Unexpired(reservations, clock), n, q.scope)
  /\ reservations' = Put(Unexpired(reservations, clock), id,
                         [node |-> n, expires |-> LeaseHold(q)])
  /\ tokens' = Put(tokens, id, [node |-> n, expires |-> clock + LeaseTTL(q.size),
                                group |-> NoGroup])
  /\ groups' = Unexpired(groups, clock)
  /\ UNCHANGED <<clock, nodes, registering, renewing>>

\* What createLease does when it succeeds.
LEMMA CreateLeaseEffect ==
  ASSUME IInv, NEW q \in LeaseRequests, CreateLease(q)
  PROVE  \E n, id : LeaseMade(q, n, id)
<1> DEFINE live == Unexpired(reservations, clock)
<1>1. PICK c \in Selected(LeaseCandidates(live, q)), id \in Fresh :
        /\ reservations' = Put(live, id, [node |-> c.id, expires |-> LeaseHold(q)])
        /\ tokens' = Put(tokens, id, [node |-> c.id, expires |-> clock + LeaseTTL(q.size),
                                      group |-> NoGroup])
  BY DEF CreateLease
<1>2. c.id \in DOMAIN nodes /\ Serving(live, c.id, q.scope)  BY LeaseChoice
<1>3. groups' = Unexpired(groups, clock) /\ UNCHANGED <<clock, nodes, registering, renewing>>
  BY DEF CreateLease, waiting
<1>4. id \in Id \ DOMAIN tokens  BY DEF Fresh
<1>5. LeaseMade(q, c.id, id)  BY <1>1, <1>2, <1>3, <1>4 DEF LeaseMade
<1> QED BY <1>5

\* A new group g: at, the node of each new id, is one-to-one, and each of these
\* nodes had a free slot after the purge.
GroupMade(q, g, ids, at) ==
  /\ g \in GroupId /\ \A id \in DOMAIN tokens : tokens[id].group # g
  /\ ids \subseteq Id /\ ids \cap DOMAIN tokens = {}
  /\ at \in [ids -> DOMAIN nodes]
  /\ \A i, j \in ids : at[i] = at[j] => i = j
  /\ \A id \in ids : Serving(Unexpired(reservations, clock), at[id], q.scope)
  /\ reservations' = PutAll(Unexpired(reservations, clock), [id \in ids |->
       [node |-> at[id], expires |-> clock + HoldTTL]])
  /\ groups' = Put(Unexpired(groups, clock), g, [ids |-> ids, expires |-> clock + HoldTTL])
  /\ tokens' = PutAll(tokens, [id \in ids |->
       [node |-> at[id], expires |-> clock + LeaseTTL(q.size), group |-> g]])
  /\ UNCHANGED <<clock, nodes, registering, renewing>>

\* What createDistributedGroup does when it succeeds.
LEMMA CreateGroupEffect ==
  ASSUME IInv, NEW q \in GroupRequests, CreateGroup(q)
  PROVE  \E g, ids, at : GroupMade(q, g, ids, at)
<1> DEFINE live == Unexpired(reservations, clock)
           till == clock + HoldTTL
           tokenTill == clock + LeaseTTL(q.size)
<1>1. PICK stages \in GroupPlans(live, q), g \in FreshGroup, ids \in SUBSET Fresh :
      \E place \in Bijection(ids, DOMAIN stages) :
        /\ reservations' = PutAll(live, StageReservations(stages, place, ids))
        /\ groups' = Put(Unexpired(groups, clock), g, [ids |-> ids, expires |-> till])
        /\ tokens' = PutAll(tokens, [id \in ids |->
             [node |-> stages[place[id]], expires |-> tokenTill, group |-> g]])
  BY DEF CreateGroup
<1>2. PICK place \in Bijection(ids, DOMAIN stages) :
        /\ reservations' = PutAll(live, [id \in ids |->
             [node |-> stages[place[id]], expires |-> till]])
        /\ groups' = Put(Unexpired(groups, clock), g, [ids |-> ids, expires |-> till])
        /\ tokens' = PutAll(tokens, [id \in ids |->
             [node |-> stages[place[id]], expires |-> tokenTill, group |-> g]])
  BY <1>1 DEF StageReservations
<1> DEFINE at == [id \in ids |-> stages[place[id]]]
<1>3. /\ \A id \in ids : place[id] \in DOMAIN stages
      /\ \A i, j \in ids : place[i] = place[j] => i = j
  BY <1>2 DEF Bijection, Injection, IsInjective
<1>4. /\ \A i \in DOMAIN stages : stages[i] \in DOMAIN nodes /\ Serving(live, stages[i], q.scope)
      /\ \A i, j \in DOMAIN stages : stages[i] = stages[j] => i = j
  BY GroupChoice, FiniteNodes DEF IInv
<1>5. /\ at \in [ids -> DOMAIN nodes]
      /\ \A i, j \in ids : at[i] = at[j] => i = j
      /\ \A id \in ids : Serving(live, at[id], q.scope)
  BY <1>3, <1>4
<1>6. /\ g \in GroupId /\ \A id \in DOMAIN tokens : tokens[id].group # g
      /\ ids \subseteq Id /\ ids \cap DOMAIN tokens = {}
  BY DEF FreshGroup, Fresh
<1>7. /\ [id \in ids |-> [node |-> stages[place[id]], expires |-> till]]
           = [id \in ids |-> [node |-> at[id], expires |-> till]]
      /\ [id \in ids |-> [node |-> stages[place[id]], expires |-> tokenTill, group |-> g]]
           = [id \in ids |-> [node |-> at[id], expires |-> tokenTill, group |-> g]]
  OBVIOUS
<1>8. UNCHANGED <<clock, nodes, registering, renewing>>  BY DEF CreateGroup, waiting
<1> HIDE DEF at, live
<1>9. GroupMade(q, g, ids, at)  BY <1>2, <1>5, <1>6, <1>7, <1>8 DEF live, GroupMade
<1> QED BY <1>9

\* createLease adds a backed reservation.
LEMMA CreateLeaseIInv ==
  ASSUME IInv, NEW q \in LeaseRequests, CreateLease(q)
  PROVE  IInv'
<1>1. PICK n, id : LeaseMade(q, n, id)  BY CreateLeaseEffect
<1>2. clock + LeaseTTL(q.size) \in Nat /\ LeaseHold(q) \in Nat
  BY LeaseHoldType DEF IInv, TypeOK
<1>3. TypeOK'
  BY <1>1, <1>2, SMTT(30) DEF LeaseMade, IInv, TypeOK, Unexpired, Restrict, Put
<1>4. /\ id \notin DOMAIN tokens /\ DOMAIN tokens' = DOMAIN tokens \cup {id}
      /\ tokens'[id].node = n /\ tokens'[id].group = NoGroup
      /\ \A k \in DOMAIN tokens : tokens'[k] = tokens[k]
  BY <1>1 DEF LeaseMade, Put
<1>5. /\ reservations'[id].node = n
      /\ \A k \in DOMAIN reservations' \ {id} :
           /\ k \in DOMAIN reservations /\ reservations'[k] = reservations[k]
           /\ reservations[k].expires > clock
  BY <1>1 DEF LeaseMade, Put, Unexpired, Restrict
<1>6. /\ \A g \in DOMAIN groups' : g \in DOMAIN groups /\ groups'[g] = groups[g]
      /\ \A g \in DOMAIN groups : groups[g].expires > clock => g \in DOMAIN groups'
  BY <1>1 DEF LeaseMade, Unexpired, Restrict
<1>7. \A g \in DOMAIN groups : groups[g].ids \subseteq DOMAIN tokens
  BY DEF IInv, TypeOK
<1>8. ReservationsBacked'
  <2>1. ASSUME NEW k \in DOMAIN reservations'
        PROVE  /\ k \in DOMAIN tokens' /\ reservations'[k].node = tokens'[k].node
               /\ tokens'[k].group # NoGroup =>
                    /\ tokens'[k].group \in DOMAIN groups'
                    /\ k \in groups'[tokens'[k].group].ids
                    /\ reservations'[k].expires = groups'[tokens'[k].group].expires
    <3>1. CASE k = id
      BY <1>4, <1>5, <3>1
    <3>2. CASE k # id
      BY <1>4, <1>5, <1>6, <2>1, <3>2 DEF IInv, ReservationsBacked
    <3> QED BY <3>1, <3>2
  <2>2. ASSUME NEW g \in DOMAIN groups', NEW k \in groups'[g].ids
        PROVE  tokens'[k].group = g
    BY <1>4, <1>6, <1>7, <2>2 DEF IInv, ReservationsBacked
  <2> QED BY <2>1, <2>2 DEF ReservationsBacked
<1> QED BY <1>3, <1>8 DEF IInv

\* releaseLease removes one reservation; the group that lists it stays.
LEMMA ReleaseLeaseIInv ==
  ASSUME IInv, NEW id \in Id, ReleaseLease(id)
  PROVE  IInv'
BY DEF IInv, TypeOK, ReservationsBacked, ReleaseLease, waiting, Drop, Restrict

\* createDistributedGroup adds a group and all of its reservations.
LEMMA CreateGroupIInv ==
  ASSUME IInv, NEW q \in GroupRequests, CreateGroup(q)
  PROVE  IInv'
<1>1. PICK g, ids, at : GroupMade(q, g, ids, at)  BY CreateGroupEffect
<1>2. clock + HoldTTL \in Nat /\ clock + LeaseTTL(q.size) \in Nat
  <2>1. q.size \in Int  BY ControlAssumption
  <2> QED BY <2>1, Limits, LeaseTTLType DEF IInv, TypeOK
<1>3. g # NoGroup  BY <1>1, ControlAssumption DEF GroupMade
<1>4. TypeOK'
  BY <1>1, <1>2 DEF GroupMade, IInv, TypeOK, Unexpired, Restrict, Put, PutAll
<1>5. ReservationsBacked'
  BY <1>1, <1>2, <1>3
     DEF GroupMade, IInv, TypeOK, ReservationsBacked, Unexpired, Restrict, Put, PutAll
<1> QED BY <1>4, <1>5 DEF IInv

\* The rollback of createDistributedGroup (lines 278-285) gives back exactly what
\* the failed attempt had taken: its net effect is the purge.
LEMMA RollbackRestores ==
  ASSUME IInv, NEW q \in GroupRequests, CreateGroupFails(q)
  PROVE  PurgeAt(clock)
<1> DEFINE live == Unexpired(reservations, clock)
<1>1. PICK stages \in GroupPlans(live, q), ids \in SUBSET Fresh :
      \E place \in Bijection(ids, DOMAIN stages), failed \in DOMAIN stages :
        LET done == {id \in ids : place[id] < failed}
        IN reservations' =
             Rollback(PutAll(live, StageReservations(stages, place, done)), done)
  BY DEF CreateGroupFails
<1>2. PICK place, failed :
        reservations' = LET done == {id \in ids : place[id] < failed}
                        IN Rollback(PutAll(live, StageReservations(stages, place, done)), done)
  BY <1>1
<1> DEFINE done == {id \in ids : place[id] < failed}
           new == StageReservations(stages, place, done)
<1>3. DOMAIN new = done /\ reservations' = Rollback(PutAll(live, new), done)
  BY <1>2 DEF StageReservations
<1>4. done \cap DOMAIN live = {}
  BY DEF Fresh, IInv, ReservationsBacked, Unexpired, Restrict
<1>5. live = [x \in DOMAIN live |-> live[x]]  BY DEF Unexpired, Restrict
<1> HIDE DEF live, new, done
<1>6. reservations' = live
  BY <1>3, <1>4, <1>5 DEF Rollback, Drop, Restrict, PutAll
<1> QED BY <1>6 DEF live, PurgeAt, CreateGroupFails

\* releaseDistributedGroup removes a group with all of its reservations.
LEMMA ReleaseGroupIInv ==
  ASSUME IInv, NEW g \in GroupId, ReleaseGroup(g)
  PROVE  IInv'
BY DEF IInv, TypeOK, ReservationsBacked, ReleaseGroup, waiting, Drop, Restrict

\* renewDistributedGroup moves the end of a group and of its reservations
\* together, after the purge, whatever time it has read.
LEMMA RenewGroupIInv ==
  ASSUME IInv, NEW w \in renewing, RenewGroup(w)
  PROVE  IInv'
<1> DEFINE g == w.group
           now == w.now
           live == Unexpired(reservations, now)
           kept == Unexpired(groups, now)
           till == now + HoldTTL
<1>1. g \in GroupId /\ till \in Nat  BY Limits DEF IInv, TypeOK
<1>2. UNCHANGED <<clock, nodes, registering, tokens>> /\ renewing' \subseteq renewing
  BY DEF RenewGroup
<1>3. CASE g \in DOMAIN kept
  <2>1. /\ groups' = Put(kept, g, [ids |-> kept[g].ids, expires |-> till])
        /\ reservations' = PutAll(live, [id \in DOMAIN live \cap kept[g].ids |->
                                          [node |-> live[id].node, expires |-> till]])
    BY <1>3 DEF RenewGroup
  <2> HIDE DEF till, now, g
  <2>2. TypeOK'
    BY <1>1, <1>2, <1>3, <2>1 DEF IInv, TypeOK, Unexpired, Restrict, Put, PutAll
  <2>3. ReservationsBacked'
    BY <1>1, <1>2, <1>3, <2>1
       DEF IInv, TypeOK, ReservationsBacked, Unexpired, Restrict, Put, PutAll
  <2> QED BY <2>2, <2>3 DEF IInv
<1>4. CASE g \notin DOMAIN kept
  <2>1. PurgeAt(now)  BY <1>4 DEF RenewGroup, PurgeAt
  <2> QED BY <1>2, <2>1, PurgeIInv
<1> QED BY <1>3, <1>4

\* Every handler, the clock and a restart preserve the invariant.
LEMMA NextIInv ==
  ASSUME IInv, [Next]_vars
  PROVE  IInv'
<1>1. ASSUME NEW r \in Reports, RegisterArrives(r)  PROVE IInv'
  BY <1>1, RegisterArrivesIInv
<1>2. ASSUME NEW w \in registering, Register(w)  PROVE IInv'
  BY <1>2, RegisterIInv
<1>3. ASSUME Purge \/ PurgeAt(clock), UNCHANGED <<clock, nodes, waiting, tokens>>
      PROVE  IInv'
  BY <1>3, PurgeIInv DEF Purge, PurgeAt, waiting
<1>4. CASE ListNodes
  BY <1>3, <1>4 DEF ListNodes
<1>5. ASSUME NEW q \in LeaseRequests, CreateLease(q)  PROVE IInv'
  BY <1>5, CreateLeaseIInv
<1>6. ASSUME NEW q \in LeaseRequests, LeaseRefused(q)  PROVE IInv'
  BY <1>3, <1>6 DEF LeaseRefused
<1>7. ASSUME NEW id \in Id, ReleaseLease(id)  PROVE IInv'
  BY <1>7, ReleaseLeaseIInv
<1>8. ASSUME NEW q \in GroupRequests, CreateGroup(q)  PROVE IInv'
  BY <1>8, CreateGroupIInv
<1>9. ASSUME NEW q \in GroupRequests, CreateGroupFails(q)  PROVE IInv'
  <2>1. PurgeAt(clock)  BY <1>9, RollbackRestores
  <2> QED BY <1>3, <1>9, <2>1 DEF CreateGroupFails
<1>10. ASSUME NEW q \in GroupRequests, GroupRefused(q)  PROVE IInv'
  BY <1>3, <1>10 DEF GroupRefused
<1>11. ASSUME NEW g \in GroupId, ReleaseGroup(g)  PROVE IInv'
  BY <1>11, ReleaseGroupIInv
<1>12. ASSUME NEW g \in GroupId, RenewArrives(g)  PROVE IInv'
  BY <1>12, RenewArrivesIInv
<1>13. ASSUME NEW w \in renewing, RenewGroup(w)  PROVE IInv'
  BY <1>13, RenewGroupIInv
<1>14. CASE Tick
  <2>1. /\ clock \in Nat /\ clock' = clock + 1
        /\ UNCHANGED <<nodes, reservations, groups, registering, renewing, tokens>>
    BY <1>14 DEF Tick, waiting, IInv, TypeOK
  <2>2. /\ registering' \subseteq [report : {r \in Reports : AcceptsReport(r)}, now : 0..clock']
        /\ renewing' \subseteq [group : GroupId, now : 0..clock']
    BY <2>1, WaitingStays
  <2> QED BY <2>1, <2>2 DEF IInv, TypeOK, ReservationsBacked
<1>15. CASE Restart
  BY <1>15 DEF Restart, IInv, TypeOK, ReservationsBacked
<1>16. CASE UNCHANGED vars
  BY <1>16 DEF vars, waiting, IInv, TypeOK, ReservationsBacked
<1> QED
  BY <1>1, <1>2, <1>4, <1>5, <1>6, <1>7, <1>8, <1>9, <1>10, <1>11, <1>12, <1>13, <1>14,
     <1>15, <1>16 DEF Next

\* The inductive invariant holds in every reachable state.
THEOREM IInvHolds == Spec => []IInv
<1>1. Init => IInv  BY InitIInv
<1>2. IInv /\ [Next]_vars => IInv'  BY NextIInv
<1> QED BY <1>1, <1>2, PTL DEF Spec

\* The maps of the Control server keep their types under every handler.
THEOREM TypeCorrect == Spec => []TypeOK
<1>1. IInv => TypeOK  BY DEF IInv
<1> QED BY <1>1, IInvHolds, PTL

\* Every reservation is backed by a token and, for a stage, by its group.
THEOREM ReservationsAreBacked == Spec => []ReservationsBacked
<1>1. IInv => ReservationsBacked  BY DEF IInv
<1> QED BY <1>1, IInvHolds, PTL
-----------------------------------------------------------------------------
(* The other invariants and the action properties *)

Keeps == UNCHANGED <<clock, reservations, groups, tokens>>

Purges == UNCHANGED <<clock, nodes, tokens>> /\ \E now \in 0..clock : PurgeAt(now)

Renews(w) == RenewGroup(w) /\ w.group \in DOMAIN Unexpired(groups, w.now)

\* What a step of Control does to the reservations, by kind: ten handlers or
\* outcomes of handlers reduce to a purge or to nothing.
LEMMA StepKinds ==
  ASSUME IInv, [Next]_vars
  PROVE  \/ Keeps \/ Purges \/ Tick \/ Restart
         \/ \E q \in LeaseRequests : CreateLease(q)
         \/ \E id \in Id : ReleaseLease(id)
         \/ \E q \in GroupRequests : CreateGroup(q)
         \/ \E g \in GroupId : ReleaseGroup(g)
         \/ \E w \in renewing : Renews(w)
<1>1. ASSUME NEW r \in Reports, RegisterArrives(r)  PROVE Keeps
  BY <1>1 DEF RegisterArrives, Keeps
<1>2. ASSUME NEW w \in registering, Register(w)  PROVE Keeps
  BY <1>2 DEF Register, Keeps
<1>3. ASSUME NEW g \in GroupId, RenewArrives(g)  PROVE Keeps
  BY <1>3 DEF RenewArrives, Keeps
<1>4. ASSUME Purge \/ PurgeAt(clock), UNCHANGED <<clock, nodes, tokens>>
      PROVE  Purges
  <2>1. clock \in 0..clock  BY DEF IInv, TypeOK
  <2>2. PurgeAt(clock)  BY <1>4 DEF Purge, PurgeAt
  <2> QED BY <1>4, <2>1, <2>2 DEF Purges
<1>5. CASE ListNodes  BY <1>4, <1>5 DEF ListNodes
<1>6. ASSUME NEW q \in LeaseRequests, LeaseRefused(q)  PROVE Purges
  BY <1>4, <1>6 DEF LeaseRefused
<1>7. ASSUME NEW q \in GroupRequests, CreateGroupFails(q)  PROVE Purges
  <2>1. PurgeAt(clock)  BY <1>7, RollbackRestores
  <2> QED BY <1>4, <1>7, <2>1 DEF CreateGroupFails
<1>8. ASSUME NEW q \in GroupRequests, GroupRefused(q)  PROVE Purges
  BY <1>4, <1>8 DEF GroupRefused
<1>9. ASSUME NEW w \in renewing, RenewGroup(w), ~Renews(w)  PROVE Purges
  <2>1. w.now \in 0..clock  BY DEF IInv, TypeOK
  <2>2. PurgeAt(w.now) /\ UNCHANGED <<clock, nodes, tokens>>
    BY <1>9 DEF RenewGroup, Renews, PurgeAt
  <2> QED BY <2>1, <2>2 DEF Purges
<1>10. CASE UNCHANGED vars  BY <1>10 DEF vars, Keeps
<1> QED BY <1>1, <1>2, <1>3, <1>5, <1>6, <1>7, <1>8, <1>9, <1>10 DEF Next

\* What a purge leaves, whenever the clock was read: entries as they were, and
\* all that have not expired.
Purged(old, new) ==
  /\ \A k \in DOMAIN new : k \in DOMAIN old /\ new[k] = old[k]
  /\ \A k \in DOMAIN old : old[k].expires > clock => k \in DOMAIN new

\* A purge with an older time removes less.
LEMMA PurgesEffect ==
  ASSUME IInv, Purges
  PROVE  /\ UNCHANGED <<clock, nodes, tokens>>
         /\ Purged(reservations, reservations') /\ Purged(groups, groups')
<1>1. PICK now \in 0..clock : PurgeAt(now)  BY DEF Purges
<1>2. clock \in Nat /\ \A id \in DOMAIN reservations : reservations[id].expires \in Nat
  BY DEF IInv, TypeOK
<1>3. \A g \in DOMAIN groups : groups[g].expires \in Nat  BY DEF IInv, TypeOK
<1>4. Purged(reservations, reservations')
  BY <1>1, <1>2 DEF PurgeAt, Unexpired, Restrict, Purged
<1>5. Purged(groups, groups')  BY <1>1, <1>2, <1>3 DEF PurgeAt, Unexpired, Restrict, Purged
<1> QED BY <1>4, <1>5 DEF Purges

\* What renewDistributedGroup does when it finds the group: g is the group and
\* now the time it read.
Renewed(g, now) ==
  /\ g \in DOMAIN groups /\ groups[g].expires > now
  /\ groups' = Put(Unexpired(groups, now), g,
                   [ids |-> groups[g].ids, expires |-> now + HoldTTL])
  /\ DOMAIN reservations' = DOMAIN Unexpired(reservations, now)
  /\ \A id \in DOMAIN reservations' :
       reservations'[id] = IF id \in groups[g].ids
                           THEN [node |-> reservations[id].node, expires |-> now + HoldTTL]
                           ELSE reservations[id]
  /\ UNCHANGED <<clock, nodes, tokens>>

\* A renewal that finds the group extends it and the reservations it still has.
LEMMA RenewEffect ==
  ASSUME NEW w, Renews(w)
  PROVE  Renewed(w.group, w.now)
<1> DEFINE g == w.group
           now == w.now
           live == Unexpired(reservations, now)
           kept == Unexpired(groups, now)
<1>1. /\ groups' = Put(kept, g, [ids |-> kept[g].ids, expires |-> now + HoldTTL])
      /\ reservations' = PutAll(live, [id \in DOMAIN live \cap kept[g].ids |->
                                        [node |-> live[id].node, expires |-> now + HoldTTL]])
      /\ UNCHANGED <<clock, nodes, tokens>>
  BY DEF Renews, RenewGroup
<1>2. g \in DOMAIN groups /\ groups[g].expires > now /\ kept[g].ids = groups[g].ids
  BY DEF Renews, Unexpired, Restrict
<1> HIDE DEF g, now
<1>3. Renewed(g, now)  BY <1>1, <1>2 DEF Renewed, PutAll, Unexpired, Restrict
<1> QED BY <1>3 DEF g, now

\* The renewal that acts in a step: its group, and a time that has come.
LEMMA RenewalTypes ==
  ASSUME IInv, NEW w \in renewing
  PROVE  w.group \in GroupId /\ w.now \in Nat /\ w.now <= clock /\ clock \in Nat
BY DEF IInv, TypeOK

\* A vanished client holds a slot for HoldTTL at most, and a lease's slot never
\* outlives its token.
THEOREM HoldsAreBounded == Spec => []HoldBounded
<1>1. Init => HoldBounded
  BY DEF Init, HoldBounded
<1>2. ASSUME IInv, HoldBounded, [Next]_vars
      PROVE  HoldBounded'
  <2>1. CASE Keeps \/ Tick \/ Restart \/ Purges
    <3>1. CASE Keeps \/ Tick \/ Restart
      BY <1>2, <3>1, Limits DEF Keeps, Tick, Restart, HoldBounded, IInv, TypeOK
    <3>2. CASE Purges
      BY <1>2, <3>2, PurgesEffect DEF Purged, HoldBounded
    <3> QED BY <2>1, <3>1, <3>2
  <2>2. ASSUME NEW q \in LeaseRequests, CreateLease(q)  PROVE HoldBounded'
    <3>1. PICK n, id : LeaseMade(q, n, id)  BY <1>2, <2>2, CreateLeaseEffect
    <3>2. LeaseHold(q) <= clock + HoldTTL /\ LeaseHold(q) <= clock + LeaseTTL(q.size)
      BY <1>2, LeaseHoldType DEF IInv, TypeOK
    <3> QED BY <1>2, <3>1, <3>2 DEF LeaseMade, HoldBounded, IInv, TypeOK, ReservationsBacked,
                                    Unexpired, Restrict, Put
  <2>3. ASSUME NEW q \in GroupRequests, CreateGroup(q)  PROVE HoldBounded'
    <3>1. PICK g, ids, at : GroupMade(q, g, ids, at)  BY <1>2, <2>3, CreateGroupEffect
    <3>2. g # NoGroup  BY <3>1, ControlAssumption DEF GroupMade
    <3>3. clock + HoldTTL \in Nat  BY <1>2, Limits DEF IInv, TypeOK
    <3> QED
      BY <1>2, <3>1, <3>2, <3>3 DEF GroupMade, HoldBounded, IInv, TypeOK, ReservationsBacked,
                                    Unexpired, Restrict, PutAll
  <2>4. ASSUME NEW id \in Id, ReleaseLease(id)  PROVE HoldBounded'
    BY <1>2, <2>4 DEF ReleaseLease, Drop, Restrict, HoldBounded
  <2>5. ASSUME NEW g \in GroupId, ReleaseGroup(g)  PROVE HoldBounded'
    BY <1>2, <2>5 DEF ReleaseGroup, Drop, Restrict, HoldBounded
  <2>6. ASSUME NEW w \in renewing, Renews(w)  PROVE HoldBounded'
    <3> DEFINE g == w.group
               now == w.now
    <3>1. Renewed(g, now)  BY <2>6, RenewEffect
    <3>2. g # NoGroup /\ now \in Nat /\ now <= clock /\ clock \in Nat
      BY <1>2, RenewalTypes, ControlAssumption
    <3> HIDE DEF g, now
    <3>3. \A id \in groups[g].ids : tokens[id].group = g
      BY <1>2, <3>1 DEF Renewed, IInv, ReservationsBacked
    <3>4. now + HoldTTL \in Nat /\ now + HoldTTL <= clock + HoldTTL  BY <3>2, Limits
    <3> SUFFICES ASSUME NEW id \in DOMAIN reservations'
                 PROVE  /\ reservations'[id].expires <= clock + HoldTTL
                        /\ tokens[id].group = NoGroup
                             => reservations'[id].expires <= tokens[id].expires
      BY <3>1 DEF HoldBounded, Renewed
    <3>5. id \in DOMAIN reservations  BY <3>1 DEF Renewed, Unexpired, Restrict
    <3>6. CASE id \in groups[g].ids  BY <3>1, <3>2, <3>3, <3>4, <3>6 DEF Renewed
    <3>7. CASE id \notin groups[g].ids  BY <1>2, <3>1, <3>5, <3>7 DEF Renewed, HoldBounded
    <3> QED BY <3>6, <3>7
  <2> QED BY <1>2, <2>1, <2>2, <2>3, <2>4, <2>5, <2>6, StepKinds
<1> QED BY <1>1, <1>2, IInvHolds, PTL DEF Spec

\* What has expired counts again only through a renewal of its group that had
\* read the clock before, and what was removed never does.
THEOREM RevivalsAreInTime == Spec => RevivedOnlyInTime
<1>1. ASSUME IInv, [Next]_vars
      PROVE  [\A id \in DOMAIN tokens : Held(id)' /\ ~Held(id) =>
                /\ id \in DOMAIN reservations
                /\ \E w \in renewing \ renewing' :
                     w.group = tokens[id].group /\ w.now < reservations[id].expires]_vars
  <2> SUFFICES ASSUME NEW id \in DOMAIN tokens, Held(id)', ~Held(id)
               PROVE  /\ id \in DOMAIN reservations
                      /\ \E w \in renewing \ renewing' :
                           w.group = tokens[id].group /\ w.now < reservations[id].expires
    OBVIOUS
  <2> USE DEF Held
  <2>1. CASE Keeps \/ Tick \/ Restart \/ Purges
    <3>1. CASE Keeps \/ Tick \/ Restart
      BY <1>1, <3>1, Limits DEF Keeps, Tick, Restart, IInv, TypeOK
    <3>2. CASE Purges
      BY <1>1, <3>2, PurgesEffect DEF Purged
    <3> QED BY <2>1, <3>1, <3>2
  <2>2. ASSUME NEW q \in LeaseRequests, CreateLease(q)  PROVE FALSE
    <3>1. PICK n, new : LeaseMade(q, n, new)  BY <1>1, <2>2, CreateLeaseEffect
    <3> QED BY <3>1 DEF LeaseMade, Unexpired, Restrict, Put
  <2>3. ASSUME NEW q \in GroupRequests, CreateGroup(q)  PROVE FALSE
    <3>1. PICK g, ids, at : GroupMade(q, g, ids, at)  BY <1>1, <2>3, CreateGroupEffect
    <3>2. id \notin ids  BY <3>1 DEF GroupMade
    <3> QED BY <3>1, <3>2 DEF GroupMade, Unexpired, Restrict, PutAll
  <2>4. ASSUME NEW i \in Id, ReleaseLease(i)  PROVE FALSE
    BY <2>4 DEF ReleaseLease, Drop, Restrict
  <2>5. ASSUME NEW g \in GroupId, ReleaseGroup(g)  PROVE FALSE
    BY <2>5 DEF ReleaseGroup, Drop, Restrict
  <2>6. ASSUME NEW w \in renewing, Renews(w)
        PROVE  /\ id \in DOMAIN reservations /\ w \notin renewing'
               /\ w.group = tokens[id].group /\ w.now < reservations[id].expires
    <3>1. Renewed(w.group, w.now)  BY <2>6, RenewEffect
    <3>2. w \notin renewing'  BY <2>6 DEF Renews, RenewGroup
    <3>3. id \in DOMAIN reservations /\ reservations[id].expires > w.now
      BY <3>1 DEF Renewed, Unexpired, Restrict
    <3>4. id \in groups[w.group].ids  BY <3>1, <3>3 DEF Renewed
    <3>5. tokens[id].group = w.group  BY <1>1, <3>1, <3>4 DEF Renewed, IInv, ReservationsBacked
    <3>6. w.now \in Nat /\ reservations[id].expires \in Nat
      BY <1>1, <3>3, RenewalTypes DEF IInv, TypeOK
    <3> QED BY <3>2, <3>3, <3>5, <3>6
  <2> QED BY <1>1, <2>1, <2>2, <2>3, <2>4, <2>5, <2>6, StepKinds
<1> QED BY <1>1, IInvHolds, PTL DEF Spec, RevivedOnlyInTime

\* While a group is held, only the release of the very reservation takes a
\* stage's slot away from it.
THEOREM GroupsKeepStages == Spec => GroupKeepsStages
<1>1. ASSUME IInv, [Next]_vars
      PROVE  [\A g \in DOMAIN groups : \A id \in groups[g].ids :
                Held(id) /\ ~Held(id)' => ~GroupHeld(g)' \/ ReleaseLease(id)]_vars
  <2> SUFFICES ASSUME NEW g \in DOMAIN groups, NEW id \in groups[g].ids,
                      Held(id), ~Held(id)', GroupHeld(g)'
               PROVE  ReleaseLease(id)
    OBVIOUS
  <2>1. /\ id \in DOMAIN tokens /\ tokens[id].group = g /\ g # NoGroup
        /\ g \in GroupId
        /\ reservations[id].expires = groups[g].expires
        /\ reservations[id].expires \in Nat /\ clock \in Nat
    <3>1. g \in GroupId /\ g # NoGroup  BY <1>1, ControlAssumption DEF IInv, TypeOK
    <3>2. tokens[id].group = g /\ id \in DOMAIN tokens
      BY <1>1 DEF IInv, TypeOK, ReservationsBacked
    <3> QED BY <1>1, <3>1, <3>2 DEF Held, IInv, TypeOK, ReservationsBacked
  <2> USE DEF Held, GroupHeld
  <2>2. CASE Keeps \/ Tick \/ Restart \/ Purges
    <3>1. CASE Keeps \/ Tick \/ Restart
      BY <2>1, <3>1 DEF Keeps, Tick, Restart
    <3>2. CASE Purges
      BY <1>1, <3>2, PurgesEffect DEF Purged
    <3> QED BY <2>2, <3>1, <3>2
  <2>3. ASSUME NEW q \in LeaseRequests, CreateLease(q)  PROVE FALSE
    <3>1. PICK n, new : LeaseMade(q, n, new)  BY <1>1, <2>3, CreateLeaseEffect
    <3> QED BY <2>1, <3>1 DEF LeaseMade, Unexpired, Restrict, Put
  <2>4. ASSUME NEW q \in GroupRequests, CreateGroup(q)  PROVE FALSE
    <3>1. PICK h, ids, at : GroupMade(q, h, ids, at)  BY <1>1, <2>4, CreateGroupEffect
    <3>2. id \notin ids /\ g # h  BY <2>1, <3>1 DEF GroupMade
    <3> QED BY <2>1, <3>1, <3>2 DEF GroupMade, Unexpired, Restrict, PutAll
  <2>5. ASSUME NEW i \in Id, ReleaseLease(i)  PROVE ReleaseLease(id)
    <3>1. i = id  BY <2>5 DEF ReleaseLease, Drop, Restrict
    <3> QED BY <2>5, <3>1
  <2>6. ASSUME NEW h \in GroupId, ReleaseGroup(h)  PROVE FALSE
    <3>1. h \in DOMAIN groups /\ h # g  BY <2>6 DEF ReleaseGroup, Drop, Restrict
    <3>2. id \notin groups[h].ids  BY <1>1, <2>1, <3>1 DEF IInv, ReservationsBacked
    <3> QED BY <2>6, <3>1, <3>2 DEF ReleaseGroup, Drop, Restrict
  <2>7. ASSUME NEW w \in renewing, Renews(w)  PROVE FALSE
    <3> DEFINE h == w.group
               now == w.now
    <3>1. Renewed(h, now)  BY <2>7, RenewEffect
    <3>2. now \in Nat /\ now <= clock  BY <1>1, RenewalTypes
    <3> HIDE DEF h, now
    <3>3. id \in DOMAIN reservations'  BY <2>1, <3>1, <3>2 DEF Renewed, Unexpired, Restrict
    <3>4. CASE g = h  BY <2>1, <3>1, <3>3, <3>4 DEF Renewed, Put
    <3>5. CASE g # h
      <4>1. id \notin groups[h].ids  BY <1>1, <2>1, <3>1, <3>5 DEF Renewed, IInv, ReservationsBacked
      <4> QED BY <2>1, <3>1, <3>3, <4>1 DEF Renewed
    <3> QED BY <3>4, <3>5
  <2> QED BY <1>1, <2>2, <2>3, <2>4, <2>5, <2>6, <2>7, StepKinds
<1> QED BY <1>1, IInvHolds, PTL DEF Spec, GroupKeepsStages

\* A node's reservations form a finite set, and the purge does not add any.
LEMMA ReservedBasics ==
  ASSUME IInv, NEW n
  PROVE  /\ IsFiniteSet(ReservedIds(reservations, n))
         /\ Reserved(reservations, n) \in Nat
         /\ ReservedIds(Unexpired(reservations, clock), n) \subseteq ReservedIds(reservations, n)
         /\ IsFiniteSet(ReservedIds(Unexpired(reservations, clock), n))
         /\ Reserved(Unexpired(reservations, clock), n) \in Nat
         /\ Reserved(Unexpired(reservations, clock), n) <= Reserved(reservations, n)
<1>1. IsFiniteSet(Id)  BY ControlAssumption
<1>2. ReservedIds(reservations, n) \subseteq Id  BY DEF IInv, TypeOK, ReservedIds
<1>3. IsFiniteSet(ReservedIds(reservations, n))  BY <1>1, <1>2, FS_Subset
<1>4. ReservedIds(Unexpired(reservations, clock), n) \subseteq ReservedIds(reservations, n)
  BY DEF ReservedIds, Unexpired, Restrict
<1> QED BY <1>3, <1>4, FS_Subset, FS_CardinalityType DEF Reserved

\* A node with a free slot can take one more reservation.
LEMMA ServingHasRoom ==
  ASSUME IInv, NEW n \in DOMAIN nodes, NEW scope,
         Serving(Unexpired(reservations, clock), n, scope)
  PROVE  Reserved(Unexpired(reservations, clock), n) + 1 <= nodes[n].slots
<1> DEFINE r == Reserved(Unexpired(reservations, clock), n)
           a == nodes[n].active
<1>1. r \in Int  BY ReservedBasics
<1>2. a \in Int /\ nodes[n].slots \in Int  BY DEF IInv, TypeOK
<1>3. Max({a, r}) < nodes[n].slots  BY DEF Serving, Active
<1> HIDE DEF r, a
<1>4. Max({a, r}) \in {a, r} /\ Max({a, r}) >= r  BY <1>1, <1>2, MaxOfPair
<1>5. r + 1 <= nodes[n].slots  BY <1>1, <1>2, <1>3, <1>4
<1> QED BY <1>5 DEF r

\* A step that adds at most one reservation to a node with a free slot, and none
\* to any other, stays within the node's slots.
LEMMA OneMoreFits ==
  ASSUME IInv, NEW n \in DOMAIN nodes, NEW id, NEW scope,
         \/ ReservedIds(reservations', n) \subseteq ReservedIds(reservations, n)
         \/ /\ ReservedIds(reservations', n)
                  = ReservedIds(Unexpired(reservations, clock), n) \cup {id}
            /\ Serving(Unexpired(reservations, clock), n, scope),
         Reserved(reservations', n) > Reserved(reservations, n)
  PROVE  Reserved(reservations', n) <= nodes[n].slots
<1> DEFINE live == Unexpired(reservations, clock)
<1>1. CASE ReservedIds(reservations', n) \subseteq ReservedIds(reservations, n)
  <2>1. Reserved(reservations', n) \in Nat /\ Reserved(reservations', n) <= Reserved(reservations, n)
    BY <1>1, ReservedBasics, FS_Subset, FS_CardinalityType DEF Reserved
  <2> QED BY <2>1, ReservedBasics
<1>2. CASE /\ ReservedIds(reservations', n) = ReservedIds(live, n) \cup {id}
           /\ Serving(live, n, scope)
  <2>1. IsFiniteSet(ReservedIds(live, n)) /\ Reserved(live, n) \in Nat  BY ReservedBasics
  <2>2. Reserved(live, n) + 1 <= nodes[n].slots  BY <1>2, ServingHasRoom
  <2>3. Reserved(reservations', n) \in {Reserved(live, n), Reserved(live, n) + 1}
    BY <1>2, <2>1, FS_AddElement DEF Reserved
  <2>4. nodes[n].slots \in Nat  BY DEF IInv, TypeOK
  <2> QED BY <2>1, <2>2, <2>3, <2>4
<1> QED BY <1>1, <1>2

\* A slot is only taken on a node that has one free, counting the reservations of
\* single leases and of groups together.
THEOREM AdmissionIsBounded == Spec => AdmissionWithinCapacity
<1>1. ASSUME IInv, [Next]_vars
      PROVE  [\A n \in DOMAIN nodes :
                Reserved(reservations', n) > Reserved(reservations, n)
                  => Reserved(reservations', n) <= nodes[n].slots]_vars
  <2> SUFFICES ASSUME NEW n \in DOMAIN nodes,
                      Reserved(reservations', n) > Reserved(reservations, n)
               PROVE  Reserved(reservations', n) <= nodes[n].slots
    OBVIOUS
  <2> DEFINE live == Unexpired(reservations, clock)
             Fewer == ReservedIds(reservations', n) \subseteq ReservedIds(reservations, n)
             OneMore(id, scope) == /\ ReservedIds(reservations', n) = ReservedIds(live, n) \cup {id}
                                   /\ Serving(live, n, scope)
  <2>1. CASE Keeps \/ Tick \/ Restart \/ Purges
    <3>1. Fewer
      BY <1>1, <2>1, PurgesEffect DEF Keeps, Tick, Restart, Purged, ReservedIds
    <3> QED BY <1>1, <3>1, OneMoreFits
  <2>2. ASSUME NEW q \in LeaseRequests, CreateLease(q)
        PROVE  Reserved(reservations', n) <= nodes[n].slots
    <3>1. PICK m, id : LeaseMade(q, m, id)  BY <1>1, <2>2, CreateLeaseEffect
    <3>2. CASE n # m
      <4>1. Fewer  BY <3>1, <3>2 DEF LeaseMade, ReservedIds, Put, Unexpired, Restrict
      <4> QED BY <1>1, <4>1, OneMoreFits
    <3>3. CASE n = m
      <4>1. OneMore(id, q.scope)
        BY <1>1, <3>1, <3>3 DEF LeaseMade, ReservedIds, Put, Unexpired, Restrict,
                                IInv, ReservationsBacked
      <4> QED BY <1>1, <4>1, OneMoreFits
    <3> QED BY <3>2, <3>3
  <2>3. ASSUME NEW q \in GroupRequests, CreateGroup(q)
        PROVE  Reserved(reservations', n) <= nodes[n].slots
    <3>1. PICK g, ids, at : GroupMade(q, g, ids, at)  BY <1>1, <2>3, CreateGroupEffect
    <3>2. CASE \A id \in ids : at[id] # n
      <4>1. Fewer  BY <3>1, <3>2 DEF GroupMade, ReservedIds, PutAll, Unexpired, Restrict
      <4> QED BY <1>1, <4>1, OneMoreFits
    <3>3. ASSUME NEW id \in ids, at[id] = n
          PROVE  Reserved(reservations', n) <= nodes[n].slots
      <4>1. \A i \in ids : at[i] = n <=> i = id  BY <3>1, <3>3 DEF GroupMade
      <4>2. ids \cap DOMAIN live = {}
        BY <1>1, <3>1 DEF GroupMade, Unexpired, Restrict, IInv, ReservationsBacked
      <4>3. OneMore(id, q.scope)
        BY <3>1, <3>3, <4>1, <4>2 DEF GroupMade, ReservedIds, PutAll
      <4> QED BY <1>1, <4>3, OneMoreFits
    <3> QED BY <3>2, <3>3
  <2>4. ASSUME NEW i \in Id, ReleaseLease(i)
        PROVE  Reserved(reservations', n) <= nodes[n].slots
    <3>1. Fewer  BY <2>4 DEF ReleaseLease, Drop, Restrict, ReservedIds
    <3> QED BY <1>1, <3>1, OneMoreFits
  <2>5. ASSUME NEW g \in GroupId, ReleaseGroup(g)
        PROVE  Reserved(reservations', n) <= nodes[n].slots
    <3>1. Fewer  BY <2>5 DEF ReleaseGroup, Drop, Restrict, ReservedIds
    <3> QED BY <1>1, <3>1, OneMoreFits
  <2>6. ASSUME NEW w \in renewing, Renews(w)
        PROVE  Reserved(reservations', n) <= nodes[n].slots
    <3> DEFINE g == w.group
               now == w.now
    <3>1. Renewed(g, now)  BY <2>6, RenewEffect
    <3> HIDE DEF g, now
    <3>2. \A id \in DOMAIN reservations' :
            id \in DOMAIN reservations /\ reservations'[id].node = reservations[id].node
      <4> SUFFICES ASSUME NEW id \in DOMAIN reservations'
                   PROVE  id \in DOMAIN reservations /\ reservations'[id].node = reservations[id].node
        OBVIOUS
      <4>1. id \in DOMAIN reservations  BY <3>1 DEF Renewed, Unexpired, Restrict
      <4>2. CASE id \in groups[g].ids  BY <3>1, <4>1, <4>2 DEF Renewed
      <4>3. CASE id \notin groups[g].ids  BY <3>1, <4>1, <4>3 DEF Renewed
      <4> QED BY <4>2, <4>3
    <3>3. Fewer  BY <3>2 DEF ReservedIds
    <3> QED BY <1>1, <3>3, OneMoreFits
  <2> QED BY <1>1, <2>1, <2>2, <2>3, <2>4, <2>5, <2>6, StepKinds
<1> QED BY <1>1, IInvHolds, PTL DEF Spec, AdmissionWithinCapacity

-----------------------------------------------------------------------------
(***************************************************************************)
(* Control implements SlotPool.                                            *)
(***************************************************************************)

\* The ids that hold a slot are known and hold it at a node.
LEMMA PoolTypes ==
  ASSUME IInv
  PROVE  /\ PoolCapacity \in [Node -> Nat]
         /\ DOMAIN PoolHeld = DOMAIN reservations
         /\ \A id \in DOMAIN PoolHeld : PoolHeld[id] = reservations[id].node
         /\ DOMAIN PoolHeld \subseteq DOMAIN tokens
<1>1. PoolCapacity \in [Node -> Nat]  BY DEF IInv, TypeOK, PoolCapacity
<1> QED BY <1>1 DEF PoolHeld, IInv, ReservationsBacked

\* What a purge leaves is a part of what is held.
LEMMA LiveIsHeld ==
  ASSUME IInv, NEW now
  PROVE  /\ DOMAIN Unexpired(reservations, now) \subseteq DOMAIN PoolHeld
         /\ \A id \in DOMAIN Unexpired(reservations, now) :
              Unexpired(reservations, now)[id] = reservations[id]
BY DEF PoolHeld, Unexpired, Restrict

\* SlotPool counts the same slots as reservedForNodeLocked after a purge.
LEMMA LoadIsReserved ==
  ASSUME IInv, NEW now, NEW n
  PROVE  Pool!Load(DOMAIN Unexpired(reservations, now), n)
           = Reserved(Unexpired(reservations, now), n)
<1> DEFINE S == DOMAIN Unexpired(reservations, now)
<1>1. Pool!Holders(S, n) = ReservedIds(Unexpired(reservations, now), n)
  BY PoolTypes, LiveIsHeld DEF Pool!Holders, ReservedIds
<1>2. \A T : Pool!Cardinality(T) = Cardinality(T)  BY DEF Pool!Cardinality, Cardinality
<1> QED BY <1>1, <1>2 DEF Pool!Load, Reserved

\* A node that can be chosen has a slot free once the purge is done.
LEMMA ChosenHasRoom ==
  ASSUME IInv, NEW n \in DOMAIN nodes, NEW scope,
         Serving(Unexpired(reservations, clock), n, scope)
  PROVE  n \in Node /\ Pool!Load(DOMAIN Unexpired(reservations, clock), n) < PoolCapacity[n]
<1> DEFINE live == Unexpired(reservations, clock)
<1>1. n \in Node /\ nodes[n].slots \in Nat  BY DEF IInv, TypeOK
<1>2. PoolCapacity[n] = nodes[n].slots  BY <1>1 DEF PoolCapacity
<1>3. Reserved(live, n) \in Nat  BY ReservedBasics
<1>4. Reserved(live, n) + 1 <= nodes[n].slots  BY ServingHasRoom
<1>5. Pool!Load(DOMAIN live, n) = Reserved(live, n)  BY LoadIsReserved
<1> HIDE DEF live
<1>6. Pool!Load(DOMAIN live, n) < PoolCapacity[n]  BY <1>1, <1>2, <1>3, <1>4, <1>5
<1> QED BY <1>1, <1>6 DEF live

\* A step that changes neither nodes nor tokens and only takes slots away is a
\* step of the pool.
LEMMA TakesAway ==
  ASSUME IInv, IInv', UNCHANGED <<nodes, tokens>>,
         DOMAIN reservations' \subseteq DOMAIN reservations,
         \A id \in DOMAIN reservations' : reservations'[id].node = reservations[id].node
  PROVE  Pool!Next
<1>1. /\ DOMAIN PoolHeld' \subseteq DOMAIN PoolHeld
      /\ \A id \in DOMAIN PoolHeld' : PoolHeld'[id] = PoolHeld[id]
  BY DEF PoolHeld
<1>2. Pool!Keeps(DOMAIN PoolHeld')  BY <1>1 DEF Pool!Keeps
<1>3. PoolCapacity' = PoolCapacity  BY DEF PoolCapacity
<1>4. Pool!End  BY <1>1, <1>2, <1>3 DEF Pool!End
<1> QED BY <1>4 DEF Pool!Next

-----------------------------------------------------------------------------
(* One lemma per kind of step *)

\* A registration is an offer; one that only arrives, like a renewal that does,
\* changes nothing of the pool.
LEMMA KeepsIsOffer ==
  ASSUME IInv, IInv', Keeps
  PROVE  Pool!Next
<1>1. PoolHeld' = PoolHeld  BY DEF Keeps, PoolHeld
<1>2. PoolCapacity' \in [Node -> Nat]  BY DEF IInv, TypeOK, PoolCapacity
<1>3. Pool!Offer  BY <1>1, <1>2 DEF Pool!Offer, Keeps
<1> QED BY <1>3 DEF Pool!Next

\* A new lease is a grant of one slot.
LEMMA LeaseIsGrant ==
  ASSUME IInv, IInv', NEW q \in LeaseRequests, CreateLease(q)
  PROVE  Pool!Next
<1>1. PICK n, id : LeaseMade(q, n, id)  BY CreateLeaseEffect
<1> DEFINE S == DOMAIN Unexpired(reservations, clock)
<1>2. n \in Node /\ Pool!Load(S, n) < PoolCapacity[n]
  BY <1>1, ChosenHasRoom DEF LeaseMade
<1>3. id \in Id \ DOMAIN tokens /\ DOMAIN tokens' = DOMAIN tokens \cup {id}
  BY <1>1 DEF LeaseMade, Put
<1>4. S \subseteq DOMAIN PoolHeld /\ id \notin S  BY <1>3, PoolTypes, LiveIsHeld
<1>5. DOMAIN PoolHeld' = S \cup {id}
  BY <1>1 DEF LeaseMade, Put, PoolHeld
<1>6. PoolHeld'[id] = n /\ \A i \in S : PoolHeld'[i] = PoolHeld[i]
  BY <1>1, <1>4, <1>5, PoolTypes, LiveIsHeld DEF LeaseMade, Put, PoolHeld
<1>7. PoolCapacity' = PoolCapacity  BY <1>1 DEF LeaseMade, PoolCapacity
<1> HIDE DEF S
<1>8. Pool!Grant
  <2>1. {id} \in SUBSET (Id \ DOMAIN tokens) /\ S \in SUBSET DOMAIN PoolHeld  BY <1>3, <1>4
  <2> QED BY <1>2, <1>3, <1>5, <1>6, <1>7, <2>1 DEF Pool!Grant
<1> QED BY <1>8 DEF Pool!Next

\* A new group is a grant of one slot for each of its stages.
LEMMA GroupIsGrant ==
  ASSUME IInv, IInv', NEW q \in GroupRequests, CreateGroup(q)
  PROVE  Pool!Next
<1>1. PICK g, ids, at : GroupMade(q, g, ids, at)  BY CreateGroupEffect
<1> DEFINE S == DOMAIN Unexpired(reservations, clock)
<1>2. \A id \in ids : at[id] \in Node /\ Pool!Load(S, at[id]) < PoolCapacity[at[id]]
  BY <1>1, ChosenHasRoom DEF GroupMade
<1>3. ids \in SUBSET (Id \ DOMAIN tokens) /\ DOMAIN tokens' = DOMAIN tokens \cup ids
  BY <1>1 DEF GroupMade, PutAll
<1>4. S \in SUBSET DOMAIN PoolHeld /\ ids \cap S = {}  BY <1>3, PoolTypes, LiveIsHeld
<1>5. DOMAIN PoolHeld' = S \cup ids
  BY <1>1 DEF GroupMade, PutAll, PoolHeld
<1>6. /\ \A id \in ids : PoolHeld'[id] = at[id]
      /\ \A id \in S : PoolHeld'[id] = PoolHeld[id]
  BY <1>1, <1>4, <1>5, PoolTypes, LiveIsHeld DEF GroupMade, PutAll, PoolHeld
<1>7. PoolCapacity' = PoolCapacity  BY <1>1 DEF GroupMade, PoolCapacity
<1>8. \A i, j \in ids : PoolHeld'[i] = PoolHeld'[j] => i = j  BY <1>1, <1>6 DEF GroupMade
<1> HIDE DEF S
<1>9. Pool!Grant  BY <1>2, <1>3, <1>4, <1>5, <1>6, <1>7, <1>8 DEF Pool!Grant
<1> QED BY <1>9 DEF Pool!Next

\* Every step of Control is a step of the pool or leaves it as it is.
LEMMA StepIsPoolStep ==
  ASSUME IInv, IInv', [Next]_vars
  PROVE  [Pool!Next]_Pool!vars
<1> DEFINE Fewer == /\ UNCHANGED <<nodes, tokens>>
                    /\ DOMAIN reservations' \subseteq DOMAIN reservations
                    /\ \A id \in DOMAIN reservations' :
                         reservations'[id].node = reservations[id].node
<1> SUFFICES Pool!Next  OBVIOUS
<1>1. CASE Keeps  BY <1>1, KeepsIsOffer
<1>2. CASE Purges \/ Tick
  <2>1. Fewer  BY <1>2, PurgesEffect DEF Purged, Tick
  <2> QED BY <2>1, TakesAway
<1>3. CASE Restart
  <2>1. DOMAIN nodes' = {} /\ DOMAIN reservations' = {} /\ UNCHANGED tokens
    BY <1>3 DEF Restart
  <2>2. PoolCapacity' = Pool!Unknown  BY <2>1 DEF PoolCapacity, Pool!Unknown
  <2>3. Pool!Keeps({})  BY <2>1 DEF Pool!Keeps, PoolHeld
  <2> QED BY <2>1, <2>2, <2>3 DEF Pool!Reset, Pool!Next
<1>4. ASSUME NEW id \in Id, ReleaseLease(id)  PROVE Pool!Next
  <2>1. Fewer  BY <1>4 DEF ReleaseLease, Drop, Restrict
  <2> QED BY <2>1, TakesAway
<1>5. ASSUME NEW g \in GroupId, ReleaseGroup(g)  PROVE Pool!Next
  <2>1. Fewer  BY <1>5 DEF ReleaseGroup, Drop, Restrict
  <2> QED BY <2>1, TakesAway
<1>6. ASSUME NEW w \in renewing, Renews(w)  PROVE Pool!Next
  <2> DEFINE g == w.group
             now == w.now
  <2>1. Renewed(g, now)  BY <1>6, RenewEffect
  <2> HIDE DEF g, now
  <2>2. Fewer
    <3>1. UNCHANGED <<nodes, tokens>> /\ DOMAIN reservations' \subseteq DOMAIN reservations
      BY <2>1 DEF Renewed, Unexpired, Restrict
    <3>2. ASSUME NEW i \in DOMAIN reservations'
          PROVE  reservations'[i].node = reservations[i].node
      <4>1. CASE i \in groups[g].ids  BY <2>1, <4>1 DEF Renewed
      <4>2. CASE i \notin groups[g].ids  BY <2>1, <4>2 DEF Renewed
      <4> QED BY <4>1, <4>2
    <3> QED BY <3>1, <3>2
  <2> QED BY <2>2, TakesAway
<1> QED BY <1>1, <1>2, <1>3, <1>4, <1>5, <1>6, LeaseIsGrant, GroupIsGrant, StepKinds

\* Control implements the pool of slots, for every set of nodes, ids and requests:
\* admission, renewal (a late one too), rollback, expiry and restarts never give
\* an id a second slot, give back one that was taken away or exceed what a node
\* offers.
THEOREM ControlIsSlotPool == Spec => ImplementsSlotPool
<1>1. Init => Pool!Init
  <2> SUFFICES ASSUME Init  PROVE Pool!Init  OBVIOUS
  <2>1. DOMAIN nodes = {} /\ reservations = <<>> /\ tokens = <<>>  BY DEF Init
  <2>2. PoolCapacity = Pool!Unknown  BY <2>1 DEF PoolCapacity, Pool!Unknown
  <2>3. PoolHeld = <<>> /\ DOMAIN tokens = {}  BY <2>1 DEF PoolHeld
  <2> QED BY <2>2, <2>3 DEF Pool!Init
<1>2. IInv /\ IInv' /\ [Next]_vars => [Pool!Next]_Pool!vars  BY StepIsPoolStep
<1> QED BY <1>1, <1>2, IInvHolds, PTL DEF Spec, ImplementsSlotPool, Pool!Spec
=============================================================================
