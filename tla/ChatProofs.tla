----------------------------- MODULE ChatProofs -----------------------------
(***************************************************************************)
(* Proofs about Chat, for any chats, hosts, models, slots, attempts and    *)
(* any number of failures.                                                 *)
(***************************************************************************)
EXTENDS Chat, FiniteSetTheorems, TLAPS

Label == {"idle", "leasing", "probing", "locking", "uploading", "posting", "waiting",
          "streaming", "releasing"}
Holding == Label \ {"idle", "leasing"}
Unsent == {"leasing", "probing", "locking", "uploading"}
Wishes == [Chats -> Model \cup {Plain}]

(***************************************************************************)
(* The proxy's half: what Control and the proxies know of leases.          *)
(***************************************************************************)

ProxyType ==
  /\ capacity \in [Node -> Nat] /\ spent \subseteq Id
  /\ DOMAIN held \subseteq spent /\ \A id \in DOMAIN held : held[id] \in Node
  /\ pc \in [Chats -> Label] /\ tried \in [Chats -> SUBSET Node] /\ wants \in Wishes
  /\ lease \in [Chats -> Reservation \cup {None}]
  /\ lost \subseteq DOMAIN held

(* Ids are given out in order, so the next one is new. *)
Counted == \E n \in Nat : spent = 1..n

Tries == \A c \in Chats : IsFiniteSet(tried[c]) /\ Cardinality(tried[c]) < Attempts

(* A proxy knows a lease exactly while it is past leasing, nobody else      *)
(* knows that lease, and nobody has lost it.                                *)
Leased ==
  /\ \A c \in Chats : lease[c] # None <=> pc[c] \in Holding
  /\ \A c \in Chats : lease[c] # None => lease[c].id \in spent /\ lease[c].id \notin lost
  /\ \A c, d \in Chats :
       lease[c] # None /\ lease[d] # None /\ lease[c].id = lease[d].id => c = d

ProxyInv == ProxyType /\ Counted /\ Tries /\ Leased /\ SlotsAccounted

(***************************************************************************)
(* The hosts' half: handlers, the mutex and the process it guards.         *)
(***************************************************************************)

HostType ==
  /\ task \in [Chats -> Task \cup {None}]
  /\ active \in [Node -> Nat] /\ mutex \in [Node -> Chats \cup {None}]
  /\ cmd \in [Node -> Model \cup {None}] /\ server \in [Node -> Process \cup {None}]

Chatting(h) == {c \in Chats : task[c] # None /\ HostOf(c) = h}
Counting ==
  \A h \in Node : /\ IsFiniteSet(Chatting(h)) /\ active[h] = Cardinality(Chatting(h))
                  /\ active[h] <= MaxConcurrency[h]

(* A handler between Lock and the end of copyResponse has the mutex of its  *)
(* host; once Ensure is done the runtime's digest is its model's.           *)
Managed(c) ==
  /\ task[c] # None
  /\ \/ task[c].at \in {"ensuring", "loading", "forwarding"}
     \/ task[c].at = "streaming" /\ task[c].model # Plain

Manages(c) ==
  /\ At(c, "queued") => task[c].model # Plain
  /\ Managed(c) => task[c].model # Plain /\ mutex[HostOf(c)] = c
  /\ Managed(c) /\ task[c].at # "ensuring" => cmd[HostOf(c)] = task[c].model

(* The process the runtime keeps runs the model of its digest. *)
Runs(h) == Tracked(h) => server[h].model = cmd[h]

HostInv ==
  /\ HostType /\ Counting
  /\ \A c \in Chats : Manages(c)
  /\ \A h \in Node : Runs(h)

(* A chat whose request is not sent yet has no handler. *)
Linked == \A c \in Chats : pc[c] \in Unsent => task[c] = None

IInv == ProxyInv /\ HostInv /\ Linked /\ faults \in 0..MaxFaults

-----------------------------------------------------------------------------
(* What the assumption says of the constants. *)
LEMMA Constants ==
  /\ Reachable \subseteq Node /\ MaxConcurrency \in [Node -> Nat \ {0}]
  /\ Attempts \in Nat /\ Attempts > 0 /\ MaxFaults \in Nat /\ Id \subseteq Nat
  /\ Asks \in [Chats -> SUBSET (Model \cup {Plain})] /\ Plain \notin Model
  /\ None \notin Model /\ None \notin Chats /\ None # Plain
  /\ None \notin Reservation /\ None \notin Task /\ None \notin Process
BY ChatAssumption

(* Faults are counted up to their bound. *)
LEMMA FaultType ==
  ASSUME IInv, Fault \/ UNCHANGED faults
  PROVE  faults' \in 0..MaxFaults
BY Constants DEF IInv, Fault

(* What the listed properties need of the invariant. *)
LEMMA Implied == IInv => TypeOK /\ SlotsAccounted /\ TasksCounted /\ ServedByOwnModel
<1> SUFFICES ASSUME IInv PROVE TypeOK /\ SlotsAccounted /\ TasksCounted /\ ServedByOwnModel
  OBVIOUS
<1>1. TypeOK
  BY DEF IInv, ProxyInv, HostInv, ProxyType, HostType, Tries, TypeOK, Label, Wishes
<1>2. SlotsAccounted
  BY DEF IInv, ProxyInv
<1>3. TasksCounted
  BY DEF IInv, HostInv, Counting, Chatting, TasksCounted
<1>4. ServedByOwnModel
  <2> SUFFICES ASSUME NEW c \in Chats, At(c, "streaming"), task[c].model # Plain, Tracked(HostOf(c))
               PROVE  server[HostOf(c)].model = task[c].model
    BY DEF ServedByOwnModel
  <2>1. task[c] \in Task /\ HostOf(c) \in Node
    BY DEF IInv, HostInv, HostType, Task, HostOf, At
  <2>2. cmd[HostOf(c)] = task[c].model
    BY DEF IInv, HostInv, Manages, Managed, At
  <2> QED BY <2>1, <2>2 DEF IInv, HostInv, Runs
<1> QED BY <1>1, <1>2, <1>3, <1>4

(* Nobody chats and nothing is held at first. *)
LEMMA InitIInv == Init => IInv
<1> SUFFICES ASSUME Init PROVE IInv
  OBVIOUS
<1> USE DEF Init
<1>1. ProxyInv
  <2>1. capacity \in [Node -> Nat]
    BY Constants
  <2>2. DOMAIN held = {} /\ spent = {} /\ lost = {}
    OBVIOUS
  <2>3. /\ pc \in [Chats -> Label] /\ tried \in [Chats -> SUBSET Node]
        /\ wants \in Wishes /\ lease \in [Chats -> Reservation \cup {None}]
    BY DEF Label, Wishes
  <2>4. Counted
    <3>1. spent = 1..0 /\ 0 \in Nat
      OBVIOUS
    <3> QED BY <3>1 DEF Counted
  <2>5. Tries
    BY Constants, FS_EmptySet DEF Tries
  <2>6. Leased /\ SlotsAccounted
    BY <2>2 DEF Leased, SlotsAccounted, Holding, Label
  <2> QED BY <2>1, <2>2, <2>3, <2>4, <2>5, <2>6 DEF ProxyInv, ProxyType
<1>2. HostInv
  <2>1. HostType
    BY DEF HostType
  <2>2. Counting
    <3>1. \A h \in Node : Chatting(h) = {}
      BY DEF Chatting
    <3>2. IsFiniteSet({}) /\ Cardinality({}) = 0
      BY FS_EmptySet
    <3>3. \A h \in Node : active[h] = 0 /\ 0 <= MaxConcurrency[h]
      BY Constants
    <3> QED BY <3>1, <3>2, <3>3 DEF Counting
  <2>3. (\A c \in Chats : Manages(c)) /\ (\A h \in Node : Runs(h))
    BY DEF Manages, Managed, At, Runs, Tracked
  <2> QED BY <2>1, <2>2, <2>3 DEF HostInv
<1>3. Linked /\ faults \in 0..MaxFaults
  BY Constants DEF Linked, Unsent
<1> QED BY <1>1, <1>2, <1>3 DEF IInv

-----------------------------------------------------------------------------
(***************************************************************************)
(* Steps of the proxy's half.                                              *)
(***************************************************************************)

(* A chat moves on without winning or losing its lease. *)
LEMMA PcStep ==
  ASSUME ProxyInv, UNCHANGED <<capacity, held, spent, lease, lost>>, pc' \in [Chats -> Label],
         \A c \in Chats : pc'[c] \in Holding <=> pc[c] \in Holding,
         tried' \in [Chats -> SUBSET Node], \A c \in Chats : tried'[c] \in {tried[c], {}},
         wants' \in Wishes
  PROVE  ProxyInv'
<1>1. ProxyType'
  BY DEF ProxyInv, ProxyType
<1>2. Tries'
  <2>1. IsFiniteSet({}) /\ Cardinality({}) = 0
    BY FS_EmptySet
  <2> QED BY <2>1, Constants DEF ProxyInv, Tries
<1>3. Leased'
  BY DEF ProxyInv, Leased
<1>4. Counted' /\ SlotsAccounted'
  BY DEF ProxyInv, Counted, SlotsAccounted
<1> QED BY <1>1, <1>2, <1>3, <1>4 DEF ProxyInv

(* Control grants a lease under an id that nobody has been given. *)
LEMMA GrantedFacts ==
  ASSUME ProxyInv, NEW id \in Id, NEW h \in Node, Granted(id, h)
  PROVE  /\ id \notin spent /\ id \notin DOMAIN held /\ id \notin lost
         /\ spent' = spent \cup {id} /\ capacity' = capacity
         /\ DOMAIN held' = DOMAIN held \cup {id}
         /\ \A i \in DOMAIN held' : held'[i] \in Node
         /\ Counted'
<1>1. PICK n \in Nat : spent = 1..n
  BY DEF ProxyInv, Counted
<1>2. Cardinality(spent) = n
  BY <1>1, FS_Interval
<1>3. id = n + 1 /\ spent' = spent \cup {id} /\ capacity' = capacity
  BY <1>2 DEF Granted
<1>4. id \notin spent /\ spent' = 1..(n + 1) /\ n + 1 \in Nat
  BY <1>1, <1>3
<1>5. id \notin DOMAIN held /\ id \notin lost
  BY <1>4 DEF ProxyInv, ProxyType
<1>6. held' = [i \in DOMAIN held \cup {id} |-> IF i = id THEN h ELSE held[i]]
  BY DEF Granted
<1>7. DOMAIN held' = DOMAIN held \cup {id} /\ \A i \in DOMAIN held' : held'[i] \in Node
  BY <1>6 DEF ProxyInv, ProxyType
<1>8. Counted'
  BY <1>4 DEF Counted
<1> QED BY <1>3, <1>4, <1>5, <1>7, <1>8

(* A lease takes a fresh id, known to this chat alone. *)
LEMMA LeaseStep ==
  ASSUME ProxyInv, NEW c \in Chats, pc[c] = "leasing", NEW id \in Id, NEW h \in Node,
         Granted(id, h), lease' = [lease EXCEPT ![c] = [id |-> id, host |-> h]],
         Goto(c, "probing"), UNCHANGED <<tried, wants, lost>>
  PROVE  ProxyInv'
<1> DEFINE x == [id |-> id, host |-> h]
<1>1. x \in Reservation /\ x.id = id /\ x # None
  BY Constants DEF Reservation
<1> HIDE DEF x
<1>2. /\ id \notin spent /\ id \notin DOMAIN held /\ id \notin lost
      /\ spent' = spent \cup {id} /\ capacity' = capacity
      /\ DOMAIN held' = DOMAIN held \cup {id}
      /\ \A i \in DOMAIN held' : held'[i] \in Node
      /\ Counted'
  BY GrantedFacts
<1>3. ProxyType /\ Leased /\ lease[c] = None
  BY DEF ProxyInv, Leased, Holding, Label
<1>4. /\ lease' \in [Chats -> Reservation \cup {None}] /\ lease'[c] = x
      /\ \A d \in Chats \ {c} : lease'[d] = lease[d]
  BY <1>1, <1>3 DEF ProxyType, x
<1>5. /\ pc' \in [Chats -> Label] /\ pc'[c] = "probing"
      /\ \A d \in Chats \ {c} : pc'[d] = pc[d]
  BY <1>3 DEF ProxyType, Goto, Label
<1>6. ProxyType'
  BY <1>2, <1>3, <1>4, <1>5 DEF ProxyType
<1>7. Tries'
  BY DEF ProxyInv, Tries
<1>8. Leased'
  <2>1. \A d \in Chats : lease'[d] # None <=> pc'[d] \in Holding
    BY <1>1, <1>3, <1>4, <1>5 DEF Leased, Holding, Label
  <2>2. \A d \in Chats : lease'[d] # None => lease'[d].id \in spent' /\ lease'[d].id \notin lost'
    BY <1>1, <1>2, <1>3, <1>4 DEF Leased
  <2>3. \A d \in Chats \ {c} : lease'[d] # None => lease'[d].id # id
    BY <1>2, <1>3, <1>4 DEF Leased
  <2>4. \A a, b \in Chats :
          lease'[a] # None /\ lease'[b] # None /\ lease'[a].id = lease'[b].id => a = b
    BY <1>1, <1>3, <1>4, <2>3 DEF Leased
  <2> QED BY <2>1, <2>2, <2>4 DEF Leased
<1>9. SlotsAccounted'
  BY <1>1, <1>2, <1>3, <1>4 DEF ProxyInv, SlotsAccounted
<1> QED BY <1>2, <1>6, <1>7, <1>8, <1>9 DEF ProxyInv

(* A chat that is through forgets the hosts it tried. *)
LEMMA ReturnFacts ==
  ASSUME ProxyInv, NEW c \in Chats, Return(c)
  PROVE  /\ pc' \in [Chats -> Label] /\ pc'[c] = "idle"
         /\ \A d \in Chats \ {c} : pc'[d] = pc[d]
         /\ tried' \in [Chats -> SUBSET Node] /\ Tries' /\ wants' \in Wishes
<1>1. ProxyType /\ Tries
  BY DEF ProxyInv
<1>2. pc' \in [Chats -> Label] /\ pc'[c] = "idle" /\ \A d \in Chats \ {c} : pc'[d] = pc[d]
  BY <1>1 DEF ProxyType, Return, Goto, Label
<1>3. /\ tried' \in [Chats -> SUBSET Node] /\ tried'[c] = {}
      /\ \A d \in Chats \ {c} : tried'[d] = tried[d]
  BY <1>1 DEF ProxyType, Return
<1>4. Tries'
  BY <1>1, <1>3, FS_EmptySet, Constants DEF Tries
<1>5. wants' \in Wishes
  BY <1>1 DEF ProxyType, Return, Wishes
<1> QED BY <1>2, <1>3, <1>4, <1>5

(* A lease whose answer is lost is held and lost. *)
LEMMA LeaseUnheardStep ==
  ASSUME ProxyInv, NEW c \in Chats, pc[c] = "leasing", NEW id \in Id, NEW h \in Node,
         Granted(id, h), lost' = lost \cup {id}, Return(c), UNCHANGED lease
  PROVE  ProxyInv'
<1>1. /\ id \notin spent /\ spent' = spent \cup {id} /\ capacity' = capacity
      /\ DOMAIN held' = DOMAIN held \cup {id}
      /\ \A i \in DOMAIN held' : held'[i] \in Node
      /\ Counted'
  BY GrantedFacts
<1>2. /\ pc' \in [Chats -> Label] /\ pc'[c] = "idle"
      /\ \A d \in Chats \ {c} : pc'[d] = pc[d]
      /\ tried' \in [Chats -> SUBSET Node] /\ Tries' /\ wants' \in Wishes
  BY ReturnFacts
<1>3. ProxyType /\ Leased /\ lease[c] = None
  BY DEF ProxyInv, Leased, Holding, Label
<1>4. ProxyType'
  BY <1>1, <1>2, <1>3 DEF ProxyType
<1>5. Leased'
  BY <1>1, <1>2, <1>3 DEF Leased, Holding, Label
<1>6. SlotsAccounted'
  BY <1>1 DEF ProxyInv, SlotsAccounted
<1> QED BY <1>1, <1>2, <1>4, <1>5, <1>6 DEF ProxyInv

(* No lease: the chat ends and holds nothing. *)
LEMMA LeaseFailsStep ==
  ASSUME ProxyInv, NEW c \in Chats, pc[c] = "leasing", Return(c), UNCHANGED <<pool, lease, lost>>
  PROVE  ProxyInv'
<1>1. /\ pc' \in [Chats -> Label] /\ pc'[c] = "idle"
      /\ \A d \in Chats \ {c} : pc'[d] = pc[d]
      /\ tried' \in [Chats -> SUBSET Node] /\ wants' \in Wishes
  BY ReturnFacts
<1>2. \A d \in Chats : tried'[d] \in {tried[d], {}}
  BY DEF ProxyInv, ProxyType, Return
<1> QED BY <1>1, <1>2, PcStep DEF pool, Holding, Label

(* The proxy is through with its lease: it is released, or is lost if       *)
(* Control still holds it.                                                  *)
LEMMA ReleasedStep ==
  ASSUME ProxyInv, NEW c \in Chats, pc[c] \in Holding, Released(c),
         pc' \in [Chats -> Label], pc'[c] \notin Holding, \A d \in Chats \ {c} : pc'[d] = pc[d],
         tried' \in [Chats -> SUBSET Node], Tries', wants' \in Wishes
  PROVE  ProxyInv'
<1> DEFINE i == lease[c].id
<1>1. ProxyType /\ Leased /\ SlotsAccounted /\ lease[c] # None /\ i \in spent /\ i \notin lost
  BY DEF ProxyInv, Leased
<1>2. /\ lease' \in [Chats -> Reservation \cup {None}] /\ lease'[c] = None
      /\ \A d \in Chats \ {c} : lease'[d] = lease[d]
  BY <1>1 DEF ProxyType, Released
<1>3. /\ capacity' = capacity /\ spent' = spent
      /\ \/ /\ held' = [j \in DOMAIN held \ {i} |-> held[j]] /\ lost' = lost
         \/ held' = held /\ lost' = lost \cup ({i} \cap DOMAIN held)
  BY DEF Released, Ended, pool
<1> HIDE DEF i
<1>4. /\ DOMAIN held' \subseteq DOMAIN held /\ (\A j \in DOMAIN held' : held'[j] \in Node)
      /\ lost' \subseteq DOMAIN held'
      /\ lost' \subseteq lost \cup {i} /\ lost \subseteq lost'
      /\ i \in DOMAIN held' => i \in lost'
  <2>1. CASE held' = [j \in DOMAIN held \ {i} |-> held[j]] /\ lost' = lost
    BY <1>1, <2>1 DEF ProxyType
  <2>2. CASE held' = held /\ lost' = lost \cup ({i} \cap DOMAIN held)
    BY <1>1, <2>2 DEF ProxyType
  <2> QED BY <1>3, <2>1, <2>2
<1>5. ProxyType'
  BY <1>1, <1>2, <1>3, <1>4 DEF ProxyType
<1>6. Leased'
  <2>1. \A d \in Chats \ {c} : lease[d] # None => lease[d].id # i
    BY <1>1 DEF Leased, i
  <2>2. \A d \in Chats : lease'[d] # None <=> pc'[d] \in Holding
    BY <1>1, <1>2 DEF Leased
  <2>3. \A d \in Chats : lease'[d] # None => lease'[d].id \in spent' /\ lease'[d].id \notin lost'
    BY <1>1, <1>2, <1>3, <1>4, <2>1 DEF Leased
  <2>4. \A a, b \in Chats :
          lease'[a] # None /\ lease'[b] # None /\ lease'[a].id = lease'[b].id => a = b
    BY <1>1, <1>2 DEF Leased
  <2> QED BY <2>2, <2>3, <2>4 DEF Leased
<1>7. SlotsAccounted'
  BY <1>1, <1>2, <1>4 DEF SlotsAccounted, i
<1>8. Counted'
  BY <1>3 DEF ProxyInv, Counted
<1> QED BY <1>5, <1>6, <1>7, <1>8 DEF ProxyInv

(* leaseReachable remembers one more host, while it may try another. *)
LEMMA TryNextFacts ==
  ASSUME ProxyInv, NEW c \in Chats, lease[c] # None, TryNext(c)
  PROVE  /\ pc' \in [Chats -> Label] /\ pc'[c] = "leasing"
         /\ \A d \in Chats \ {c} : pc'[d] = pc[d]
         /\ tried' \in [Chats -> SUBSET Node] /\ Tries' /\ wants' \in Wishes
<1>1. ProxyType /\ Tries
  BY DEF ProxyInv
<1>2. pc' \in [Chats -> Label] /\ pc'[c] = "leasing" /\ \A d \in Chats \ {c} : pc'[d] = pc[d]
  BY <1>1 DEF ProxyType, TryNext, Goto, Label
<1>3. lease[c].host \in Node
  BY <1>1 DEF ProxyType, Reservation
<1>4. /\ tried' \in [Chats -> SUBSET Node] /\ tried'[c] = tried[c] \cup {lease[c].host}
      /\ \A d \in Chats \ {c} : tried'[d] = tried[d]
  BY <1>1, <1>3 DEF ProxyType, TryNext
<1>5. /\ IsFiniteSet(tried[c]) /\ Cardinality(tried[c]) \in Nat
      /\ Cardinality(tried[c]) + 1 < Attempts
  BY <1>1, FS_CardinalityType DEF Tries, TryNext
<1>6. IsFiniteSet(tried'[c]) /\ Cardinality(tried'[c]) < Attempts
  <2>1. /\ IsFiniteSet(tried[c] \cup {lease[c].host})
        /\ Cardinality(tried[c] \cup {lease[c].host}) \in
             {Cardinality(tried[c]), Cardinality(tried[c]) + 1}
    BY <1>5, FS_AddElement
  <2>2. Cardinality(tried[c] \cup {lease[c].host}) < Attempts
    BY <1>5, <2>1, Constants
  <2> QED BY <1>4, <2>1, <2>2
<1>7. Tries'
  <2> SUFFICES ASSUME NEW d \in Chats
               PROVE  IsFiniteSet(tried'[d]) /\ Cardinality(tried'[d]) < Attempts
    BY DEF Tries
  <2>1. CASE d = c
    BY <1>6, <2>1
  <2>2. CASE d # c
    BY <1>1, <1>4, <2>2 DEF Tries
  <2> QED BY <2>1, <2>2
<1>8. wants' \in Wishes
  BY <1>1 DEF ProxyType, TryNext
<1> QED BY <1>2, <1>4, <1>7, <1>8

(* A host fails its probe: its lease is released or its release lost. *)
LEMMA DropStep ==
  ASSUME ProxyInv, NEW c \in Chats, pc[c] = "probing", Released(c), TryNext(c) \/ Return(c)
  PROVE  ProxyInv'
<1>1. lease[c] # None /\ pc[c] \in Holding
  BY DEF ProxyInv, Leased, Holding, Label
<1>2. /\ pc' \in [Chats -> Label] /\ pc'[c] \notin Holding
      /\ \A d \in Chats \ {c} : pc'[d] = pc[d]
      /\ tried' \in [Chats -> SUBSET Node] /\ Tries' /\ wants' \in Wishes
  BY <1>1, TryNextFacts, ReturnFacts DEF Holding, Label
<1> QED BY <1>1, <1>2, ReleasedStep

(* The deferred release, of a chat that held one lease. *)
LEMMA FinishStep ==
  ASSUME ProxyInv, NEW c \in Chats, pc[c] = "releasing", Released(c), Return(c)
  PROVE  ProxyInv'
<1>1. /\ pc' \in [Chats -> Label] /\ pc'[c] \notin Holding
      /\ \A d \in Chats \ {c} : pc'[d] = pc[d]
      /\ tried' \in [Chats -> SUBSET Node] /\ Tries' /\ wants' \in Wishes
  BY ReturnFacts DEF Holding, Label
<1> QED BY <1>1, ReleasedStep DEF Holding, Label

(* Control forgets reservations, and with them what was lost. *)
LEMMA ForgetStep ==
  ASSUME ProxyInv, UNCHANGED <<proxy, spent>>, capacity' \in [Node -> Nat],
         DOMAIN held' \subseteq DOMAIN held, \A i \in DOMAIN held' : held'[i] \in Node,
         lost' = lost \cap DOMAIN held'
  PROVE  ProxyInv'
<1>1. UNCHANGED <<pc, tried, wants, lease, spent>>
  BY DEF proxy
<1>2. ProxyType'
  BY <1>1 DEF ProxyInv, ProxyType
<1>3. Counted' /\ Tries'
  BY <1>1 DEF ProxyInv, Counted, Tries
<1>4. Leased' /\ SlotsAccounted'
  BY <1>1 DEF ProxyInv, Leased, SlotsAccounted
<1> QED BY <1>2, <1>3, <1>4 DEF ProxyInv

(* A slot that expires leaves the chat its lease, which frees nothing later. *)
LEMMA ExpireStep ==
  ASSUME IInv, NEW id \in Id, Expire(id)
  PROVE  ProxyInv'
<1>1. /\ ProxyInv /\ held' = [j \in DOMAIN held \ {id} |-> held[j]] /\ UNCHANGED <<proxy, spent>>
      /\ capacity' = capacity /\ lost' = lost \ {id}
  BY DEF IInv, Expire, Ended
<1>2. /\ ProxyType /\ DOMAIN held' = DOMAIN held \ {id}
      /\ \A j \in DOMAIN held' : held'[j] = held[j]
  BY <1>1 DEF ProxyInv
<1>3. /\ capacity' \in [Node -> Nat] /\ DOMAIN held' \subseteq DOMAIN held
      /\ lost' = lost \cap DOMAIN held' /\ \A j \in DOMAIN held' : held'[j] \in Node
  BY <1>1, <1>2 DEF ProxyType
<1> QED BY <1>1, <1>3, ForgetStep

(* Control forgets every slot at once. *)
LEMMA ControlRestartsStep ==
  ASSUME IInv, ControlRestarts
  PROVE  ProxyInv'
<1>1. /\ ProxyInv /\ UNCHANGED <<proxy, spent>> /\ DOMAIN held' = {} /\ lost' = {}
      /\ capacity' = [n \in Node |-> 0]
  BY DEF IInv, ControlRestarts, Pool!Unknown
<1> QED BY <1>1, ForgetStep

(* A heartbeat changes what a host offers, not who holds it. *)
LEMMA HeartbeatStep ==
  ASSUME IInv, NEW h \in Node, Heartbeat(h)
  PROVE  ProxyInv'
<1>1. /\ ProxyInv /\ ProxyType /\ UNCHANGED <<proxy, spent, held, lost>>
      /\ capacity' = [capacity EXCEPT ![h] = MaxConcurrency[h]]
  BY DEF IInv, ProxyInv, Heartbeat
<1>2. /\ capacity' \in [Node -> Nat] /\ lost' = lost \cap DOMAIN held'
      /\ \A j \in DOMAIN held' : held'[j] \in Node
  BY <1>1, Constants DEF ProxyType
<1> QED BY <1>1, <1>2, ForgetStep

-----------------------------------------------------------------------------
(***************************************************************************)
(* Steps of the hosts' half.                                               *)
(***************************************************************************)

Tasks == [Chats -> Task \cup {None}]

(* What the type says of a handler that runs. *)
LEMMA TaskFacts ==
  ASSUME HostInv, NEW c \in Chats, task[c] # None
  PROVE  /\ task \in Tasks /\ task[c] \in Task /\ HostOf(c) = task[c].host /\ HostOf(c) \in Node
         /\ task[c].model \in Model \cup {Plain} /\ task[c].at \in Places
<1>1. task \in Tasks
  BY DEF HostInv, HostType, Tasks
<1>2. task[c] \in Task
  BY <1>1 DEF Tasks
<1> QED BY <1>1, <1>2 DEF Task, HostOf

(* The handler is at another place, the other handlers where they were. *)
Moved(c, label) ==
  /\ task' \in Tasks /\ task'[c] # None
  /\ task'[c].host = task[c].host /\ task'[c].at = label
  /\ \A d \in Chats \ {c} : task'[d] = task[d]

(* A handler goes to another place of the same host, for the same model. *)
LEMMA MoveFacts ==
  ASSUME HostInv, NEW c \in Chats, task[c] # None, NEW label \in Places, Move(c, label)
  PROVE  Moved(c, label) /\ task'[c].model = task[c].model
<1> DEFINE y == [task[c] EXCEPT !.at = label]
<1>1. task \in Tasks /\ task[c] \in Task
  BY TaskFacts
<1>2. y \in Task /\ y.host = task[c].host /\ y.model = task[c].model /\ y.at = label
  BY <1>1 DEF Task
<1>3. task' = [task EXCEPT ![c] = y]
  BY DEF Move
<1>4. y # None
  BY <1>2, Constants
<1> HIDE DEF y
<1> QED BY <1>1, <1>2, <1>3, <1>4 DEF Tasks, Moved

(* A handler goes on: only what concerns it, and what the mutex protects    *)
(* from the others, can change.                                             *)
LEMMA GoStep ==
  ASSUME HostInv, NEW c \in Chats, task[c] # None, NEW label, Moved(c, label), UNCHANGED active,
         mutex' \in [Node -> Chats \cup {None}], cmd' \in [Node -> Model \cup {None}],
         server' \in [Node -> Process \cup {None}],
         \A d \in Chats \ {c} : Managed(d) => /\ mutex'[HostOf(d)] = mutex[HostOf(d)]
                                              /\ cmd'[HostOf(d)] = cmd[HostOf(d)],
         Manages(c)', \A h \in Node : Runs(h)'
  PROVE  HostInv'
<1>1. HostType'
  BY DEF HostInv, HostType, Moved, Tasks
<1>2. \A h \in Node : Chatting(h)' = Chatting(h)
  BY DEF Moved, Chatting, HostOf
<1>3. Counting'
  BY <1>2 DEF HostInv, Counting
<1>4. ASSUME NEW d \in Chats \ {c} PROVE Manages(d)'
  <2>1. task'[d] = task[d] /\ Manages(d)
    BY DEF Moved, HostInv
  <2>2. Managed(d)' <=> Managed(d)
    BY <2>1 DEF Managed
  <2> QED BY <2>1, <2>2 DEF Manages, At, HostOf
<1> QED BY <1>1, <1>3, <1>4 DEF HostInv

(* It goes on and leaves mutex and runtime alone. *)
LEMMA StepStep ==
  ASSUME HostInv, NEW c \in Chats, task[c] # None, NEW label, Moved(c, label),
         UNCHANGED <<active, mutex, cmd, server>>, Manages(c)'
  PROVE  HostInv'
<1>1. /\ mutex' \in [Node -> Chats \cup {None}] /\ cmd' \in [Node -> Model \cup {None}]
      /\ server' \in [Node -> Process \cup {None}]
  BY DEF HostInv, HostType
<1>2. \A h \in Node : Runs(h)'
  BY DEF HostInv, Runs, Tracked
<1> QED BY <1>1, <1>2, GoStep

(* A handler returns. *)
LEMMA LeaveStep ==
  ASSUME HostInv, NEW c \in Chats, task[c] # None, Leave(c),
         cmd' \in [Node -> Model \cup {None}], server' \in [Node -> Process \cup {None}],
         \A d \in Chats \ {c} : Managed(d) => cmd'[HostOf(d)] = cmd[HostOf(d)],
         \A h \in Node : Runs(h)'
  PROVE  HostInv'
<1>1. task \in Tasks /\ HostOf(c) \in Node /\ HostType /\ Counting
  BY TaskFacts DEF HostInv
<1>h. PICK h \in Node : h = HostOf(c)
  BY <1>1
<1>2. task' \in Tasks /\ task'[c] = None /\ \A d \in Chats \ {c} : task'[d] = task[d]
  BY <1>1 DEF Leave, Tasks
<1>3. /\ mutex' \in [Node -> Chats \cup {None}]
      /\ \A g \in Node, d \in Chats \ {c} : mutex[g] = d => mutex'[g] = d
  BY <1>1 DEF Leave, HostType
<1>4. /\ Chatting(h)' = Chatting(h) \ {c} /\ c \in Chatting(h)
      /\ \A g \in Node \ {h} : Chatting(g)' = Chatting(g)
  BY <1>h, <1>2 DEF Chatting, HostOf
<1>5. /\ IsFiniteSet(Chatting(h)) /\ active[h] = Cardinality(Chatting(h))
      /\ active[h] <= MaxConcurrency[h] /\ active[h] \in Nat /\ MaxConcurrency[h] \in Nat
  BY <1>1, Constants DEF Counting, HostType
<1>6. /\ IsFiniteSet(Chatting(h)') /\ Cardinality(Chatting(h)') = active[h] - 1
      /\ active[h] - 1 \in Nat
  <2> DEFINE S == Chatting(h)
  <2> HIDE DEF S
  <2>1. IsFiniteSet(S) /\ c \in S /\ Cardinality(S) = active[h]
    BY <1>4, <1>5 DEF S
  <2>2. IsFiniteSet(S \ {c}) /\ Cardinality(S \ {c}) = Cardinality(S) - 1
    BY <2>1, FS_RemoveElement
  <2>3. Cardinality(S \ {c}) \in Nat
    BY <2>2, FS_CardinalityType
  <2> QED BY <1>4, <2>1, <2>2, <2>3 DEF S
<1>7. /\ active' \in [Node -> Nat] /\ active'[h] = active[h] - 1
      /\ \A g \in Node \ {h} : active'[g] = active[g]
  BY <1>h, <1>1, <1>6 DEF Leave, HostType
<1>8. HostType'
  BY <1>2, <1>3, <1>7 DEF HostType, Tasks
<1>9. Counting'
  <2>1. active'[h] = Cardinality(Chatting(h)') /\ active'[h] <= MaxConcurrency[h]
    BY <1>5, <1>6, <1>7
  <2> SUFFICES ASSUME NEW g \in Node
               PROVE  /\ IsFiniteSet(Chatting(g)') /\ active'[g] = Cardinality(Chatting(g)')
                      /\ active'[g] <= MaxConcurrency[g]
    BY DEF Counting
  <2>2. CASE g = h
    BY <1>6, <2>1, <2>2
  <2>3. CASE g # h
    BY <1>1, <1>4, <1>7, <2>3 DEF Counting
  <2> QED BY <2>2, <2>3
<1>10. ASSUME NEW d \in Chats PROVE Manages(d)'
  <2>1. CASE d = c
    BY <1>2, <2>1 DEF Manages, Managed, At
  <2>2. CASE d # c
    <3>1. task'[d] = task[d] /\ Manages(d)
      BY <1>2, <2>2 DEF HostInv
    <3>2. Managed(d)' <=> Managed(d)
      BY <3>1 DEF Managed
    <3>3. Managed(d) => HostOf(d) \in Node
      BY TaskFacts DEF Managed
    <3> QED BY <1>3, <2>2, <3>1, <3>2, <3>3 DEF Manages, At, HostOf
  <2> QED BY <2>1, <2>2
<1> QED BY <1>8, <1>9, <1>10 DEF HostInv

(* What stopLocked leaves on the port, with the runtime's digest after it:  *)
(* next, an old process nobody keeps, or one that is kept no longer.        *)
LEMMA StoppedFacts ==
  ASSUME HostInv, NEW h \in Node, NEW m \in Model \cup {None}, NEW next \in Process \cup {None},
         next # None => next.model = m, Stopped(h, next), cmd' = [cmd EXCEPT ![h] = m]
  PROVE  /\ cmd' \in [Node -> Model \cup {None}] /\ server' \in [Node -> Process \cup {None}]
         /\ \A g \in Node : Runs(g)'
         /\ \A g \in Node \ {h} : cmd'[g] = cmd[g]
         /\ Fault \/ UNCHANGED faults
<1>1. cmd \in [Node -> Model \cup {None}] /\ server \in [Node -> Process \cup {None}]
  BY DEF HostInv, HostType
<1>2. /\ cmd' \in [Node -> Model \cup {None}] /\ cmd'[h] = m
      /\ \A g \in Node \ {h} : cmd'[g] = cmd[g]
  BY <1>1
<1>3. \A g \in Node : Runs(g)
  BY DEF HostInv
<1>4. CASE /\ server' = [server EXCEPT ![h] = IF Tracked(h) \/ @ = None THEN next ELSE @]
           /\ UNCHANGED faults
  <2>1. /\ server' \in [Node -> Process \cup {None}]
        /\ server'[h] = next \/ (server'[h] = server[h] /\ ~Tracked(h))
        /\ \A g \in Node \ {h} : server'[g] = server[g]
    BY <1>1, <1>4
  <2>2. ASSUME NEW g \in Node PROVE Runs(g)'
    <3>1. CASE g = h
      BY <1>2, <2>1, <3>1 DEF Runs, Tracked
    <3>2. CASE g # h
      BY <1>2, <1>3, <2>1, <3>2 DEF Runs, Tracked
    <3> QED BY <3>1, <3>2
  <2> QED BY <1>2, <1>4, <2>1, <2>2
<1>5. CASE Tracked(h) /\ Fault /\ server' = [server EXCEPT ![h].tracked = FALSE]
  <2> DEFINE p == [server[h] EXCEPT !.tracked = FALSE]
  <2>1. server[h] \in Process
    BY <1>1, <1>5 DEF Tracked
  <2>2. p \in Process /\ ~p.tracked
    BY <2>1 DEF Process
  <2>3. server' = [server EXCEPT ![h] = p]
    BY <1>5
  <2> HIDE DEF p
  <2>4. /\ server' \in [Node -> Process \cup {None}] /\ server'[h] = p
        /\ \A g \in Node \ {h} : server'[g] = server[g]
    BY <1>1, <2>2, <2>3
  <2>5. ASSUME NEW g \in Node PROVE Runs(g)'
    <3>1. CASE g = h
      BY <2>2, <2>4, <3>1 DEF Runs, Tracked
    <3>2. CASE g # h
      BY <1>2, <1>3, <2>4, <3>2 DEF Runs, Tracked
    <3> QED BY <3>1, <3>2
  <2> QED BY <1>2, <1>5, <2>4, <2>5
<1> QED BY <1>4, <1>5 DEF Stopped

(* Two handlers that hold the same mutex are one. *)
LEMMA OneManages ==
  ASSUME HostInv, NEW c \in Chats, NEW d \in Chats, Managed(c), Managed(d), HostOf(c) = HostOf(d)
  PROVE  c = d
BY DEF HostInv, Manages

-----------------------------------------------------------------------------
(***************************************************************************)
(* The two halves together.                                                *)
(***************************************************************************)

(* What a step of a handler may do to the proxies: one that is still        *)
(* connected is told of the answer's beginning or end.                      *)
Notified(c) ==
  /\ pc' = pc \/ (Connected(c) /\ \E label \in {"streaming", "releasing"} : Goto(c, label))
  /\ UNCHANGED <<capacity, held, spent, tried, wants, lease, lost>>

(* A step of a host of which at most the chat's own proxy learns. *)
LEMMA NotifiedStep ==
  ASSUME IInv, NEW c \in Chats, Notified(c), HostInv', faults' \in 0..MaxFaults,
         task' \in Tasks, \A d \in Chats : task[d] = None => task'[d] = None
  PROVE  IInv'
<1>1. /\ ProxyInv /\ pc \in [Chats -> Label] /\ tried \in [Chats -> SUBSET Node]
      /\ wants \in Wishes /\ Linked
  BY DEF IInv, ProxyInv, ProxyType
<1>2. /\ pc' \in [Chats -> Label]
      /\ \A d \in Chats : \/ pc'[d] = pc[d]
                          \/ /\ pc[d] \in {"waiting", "streaming"}
                             /\ pc'[d] \in {"streaming", "releasing"}
  BY <1>1 DEF Notified, Goto, Connected, Label
<1>3. \A d \in Chats : pc'[d] \in Holding <=> pc[d] \in Holding
  BY <1>2 DEF Holding, Label
<1>4. ProxyInv'
  <2>1. UNCHANGED <<capacity, held, spent, lease, lost>> /\ tried' = tried /\ wants' = wants
    BY DEF Notified
  <2> QED BY <1>1, <1>2, <1>3, <2>1, PcStep
<1>5. Linked'
  BY <1>1, <1>2 DEF Linked, Unsent
<1> QED BY <1>4, <1>5 DEF IInv

(* A step that leaves the hosts alone. *)
LEMMA ProxyOnly ==
  ASSUME IInv, ProxyInv', UNCHANGED <<host, runtime>>, faults' \in 0..MaxFaults, Linked'
  PROVE  IInv'
<1>1. UNCHANGED <<task, active, mutex, cmd, server>>
  BY DEF host, runtime
<1>2. HostInv'
  <2>1. HostType'
    BY <1>1 DEF IInv, HostInv, HostType
  <2>2. Counting'
    BY <1>1 DEF IInv, HostInv, Counting, Chatting, HostOf
  <2>3. \A c \in Chats : Manages(c)'
    BY <1>1 DEF IInv, HostInv, Manages, Managed, At, HostOf
  <2>4. \A h \in Node : Runs(h)'
    BY <1>1 DEF IInv, HostInv, Runs, Tracked
  <2> QED BY <2>1, <2>2, <2>3, <2>4 DEF HostInv
<1> QED BY <1>2 DEF IInv

(* A step of the proxy that neither gains nor gives up a lease. *)
LEMMA JumpStep ==
  ASSUME IInv, NEW c \in Chats, NEW from \in Label, NEW to \in Label, Jump(c, from, to),
         from \in Holding <=> to \in Holding,
         to \in Unsent => task[c] = None
  PROVE  IInv'
<1>1. /\ ProxyInv /\ pc \in [Chats -> Label] /\ tried \in [Chats -> SUBSET Node]
      /\ wants \in Wishes
      /\ UNCHANGED <<capacity, held, spent, tried, wants, lease, lost>>
      /\ UNCHANGED <<host, runtime, faults>> /\ UNCHANGED task
  BY DEF IInv, ProxyInv, ProxyType, Jump, pool, host
<1>2. /\ pc' \in [Chats -> Label] /\ pc[c] = from /\ pc'[c] = to
      /\ \A d \in Chats \ {c} : pc'[d] = pc[d]
  BY <1>1 DEF Jump, Goto
<1>3. \A d \in Chats : pc'[d] \in Holding <=> pc[d] \in Holding
  BY <1>2
<1>4. ProxyInv'
  BY <1>1, <1>2, <1>3, PcStep
<1>5. Linked'
  BY <1>1, <1>2 DEF IInv, Linked
<1>6. faults' \in 0..MaxFaults
  BY <1>1 DEF IInv
<1> QED BY <1>1, <1>4, <1>5, <1>6, ProxyOnly

(* The preflight succeeds, and the model that is asked for is known. *)
LEMMA ReachedStep ==
  ASSUME IInv, NEW c \in Chats, Reached(c)
  PROVE  IInv'
<1>1. /\ ProxyInv /\ ProxyType /\ pc[c] = "probing" /\ task[c] = None
      /\ UNCHANGED <<capacity, held, spent, lease, lost>>
      /\ UNCHANGED <<host, runtime, faults>> /\ UNCHANGED task
  BY DEF IInv, ProxyInv, Linked, Unsent, Reached, pool, host
<1>2. PICK m \in Asks[c] : /\ wants' = [wants EXCEPT ![c] = m]
                           /\ Goto(c, IF m = Plain THEN "posting" ELSE "locking")
  BY DEF Reached
<1>3. wants' \in Wishes
  BY <1>1, <1>2, Constants DEF ProxyType, Wishes
<1>4. /\ pc' \in [Chats -> Label] /\ pc'[c] \in {"posting", "locking"}
      /\ \A d \in Chats \ {c} : pc'[d] = pc[d]
  BY <1>1, <1>2 DEF ProxyType, Goto, Label
<1>5. /\ tried' \in [Chats -> SUBSET Node] /\ \A d \in Chats : tried'[d] \in {tried[d], {}}
  BY <1>1 DEF ProxyType, Reached
<1>6. \A d \in Chats : pc'[d] \in Holding <=> pc[d] \in Holding
  BY <1>1, <1>4 DEF Holding, Label
<1>7. ProxyInv'
  BY <1>1, <1>3, <1>4, <1>5, <1>6, PcStep
<1>8. Linked'
  BY <1>1, <1>4 DEF IInv, Linked
<1>9. faults' \in 0..MaxFaults
  BY <1>1 DEF IInv
<1> QED BY <1>1, <1>7, <1>8, <1>9, ProxyOnly

(* The model is brought to the host and the request sent, or neither. *)
LEMMA ForwardSteps ==
  ASSUME IInv, NEW c \in Chats, LockUpload(c) \/ Uploaded(c) \/ Posted(c) \/ ForwardFails(c)
  PROVE  IInv'
<1>1. CASE LockUpload(c)
  <2>1. Jump(c, "locking", "uploading")
    BY <1>1 DEF LockUpload
  <2>2. task[c] = None
    BY <2>1 DEF IInv, Linked, Unsent, Jump
  <2> QED BY <2>1, <2>2, JumpStep DEF Label, Holding
<1>2. CASE Uploaded(c)
  <2>1. Jump(c, "uploading", "posting")
    BY <1>2 DEF Uploaded
  <2> QED BY <2>1, JumpStep DEF Label, Holding, Unsent
<1>3. CASE Posted(c)
  <2>1. Jump(c, "posting", "waiting")
    BY <1>3 DEF Posted
  <2> QED BY <2>1, JumpStep DEF Label, Holding, Unsent
<1>4. CASE ForwardFails(c)
  <2>1. CASE Jump(c, "uploading", "releasing")
    BY <2>1, JumpStep DEF Label, Holding, Unsent
  <2>2. CASE Jump(c, "posting", "releasing")
    BY <2>2, JumpStep DEF Label, Holding, Unsent
  <2> QED BY <1>4, <2>1, <2>2 DEF ForwardFails
<1> QED BY <1>1, <1>2, <1>3, <1>4

(* The proxy's other steps. *)
LEMMA ProxySteps ==
  ASSUME IInv, NEW c \in Chats,
         \/ Begin(c) \/ Lease(c) \/ LeaseUnheard(c) \/ GiveUp(c)
         \/ LeaseFails(c) \/ Drop(c) \/ HeaderTimeout(c) \/ Finish(c)
  PROVE  IInv'
<1>1. CASE Begin(c)
  <2>1. Jump(c, "idle", "leasing") /\ task[c] = None
    BY <1>1 DEF Begin
  <2> QED BY <2>1, JumpStep DEF Label, Holding
<1>3. CASE GiveUp(c)
  <2>1. Jump(c, "streaming", "releasing")
    BY <1>3 DEF GiveUp
  <2> QED BY <2>1, JumpStep DEF Label, Holding, Unsent
<1>4. CASE HeaderTimeout(c)
  <2>1. Jump(c, "waiting", "releasing")
    BY <1>4 DEF HeaderTimeout
  <2> QED BY <2>1, JumpStep DEF Label, Holding, Unsent
<1>5. ASSUME pc[c] \in {"leasing", "probing", "releasing"}, UNCHANGED <<host, runtime, faults>>,
             ProxyInv', pc' = [pc EXCEPT ![c] = pc'[c]],
             pc'[c] \in Unsent => pc[c] \in Unsent
      PROVE  IInv'
  <2>1. task' = task /\ pc \in [Chats -> Label] /\ faults' \in 0..MaxFaults
    BY <1>5 DEF host, IInv, ProxyInv, ProxyType
  <2>2. Linked'
    BY <1>5, <2>1 DEF IInv, Linked
  <2> QED BY <1>5, <2>1, <2>2, ProxyOnly
<1>6. ProxyInv /\ pc \in [Chats -> Label]
  BY DEF IInv, ProxyInv, ProxyType
<1>7. CASE Lease(c)
  <2>1. /\ pc[c] = "leasing" /\ Goto(c, "probing") /\ UNCHANGED <<tried, wants, lost>>
        /\ UNCHANGED <<host, runtime, faults>>
    BY <1>7 DEF Lease
  <2>2. ProxyInv'
    BY <1>6, <1>7, <2>1, LeaseStep DEF Lease
  <2>3. pc' = [pc EXCEPT ![c] = pc'[c]]
    BY <1>6, <2>1 DEF Goto
  <2> QED BY <1>5, <2>1, <2>2, <2>3 DEF Unsent
<1>8. CASE LeaseUnheard(c)
  <2>1. pc[c] = "leasing" /\ Return(c) /\ UNCHANGED lease /\ UNCHANGED <<host, runtime, faults>>
    BY <1>8 DEF LeaseUnheard
  <2>2. ProxyInv'
    BY <1>6, <1>8, <2>1, LeaseUnheardStep DEF LeaseUnheard
  <2>3. pc' = [pc EXCEPT ![c] = pc'[c]]
    BY <1>6, <2>1 DEF Return, Goto
  <2> QED BY <1>5, <2>1, <2>2, <2>3 DEF Unsent
<1>9. CASE LeaseFails(c)
  <2>1. pc[c] = "leasing" /\ Return(c) /\ UNCHANGED <<host, runtime, faults>>
    BY <1>9 DEF LeaseFails
  <2>2. ProxyInv'
    BY <1>6, <1>9, <2>1, LeaseFailsStep DEF LeaseFails
  <2>3. pc' = [pc EXCEPT ![c] = pc'[c]]
    BY <1>6, <2>1 DEF Return, Goto
  <2> QED BY <1>5, <2>1, <2>2, <2>3 DEF Unsent
<1>10. CASE Drop(c)
  <2>1. pc[c] = "probing" /\ UNCHANGED <<host, runtime, faults>>
    BY <1>10 DEF Drop
  <2>2. ProxyInv'
    BY <1>6, <1>10, DropStep DEF Drop
  <2>3. pc' = [pc EXCEPT ![c] = pc'[c]]
    BY <1>6, <1>10 DEF Drop, TryNext, Return, Goto
  <2> QED BY <1>5, <2>1, <2>2, <2>3 DEF Unsent
<1>11. CASE Finish(c)
  <2>1. pc[c] = "releasing" /\ Return(c) /\ UNCHANGED <<host, runtime, faults>>
    BY <1>11 DEF Finish
  <2>2. ProxyInv'
    BY <1>6, <1>11, FinishStep DEF Finish
  <2>3. pc' = [pc EXCEPT ![c] = pc'[c]] /\ pc'[c] = "idle"
    BY <1>6, <2>1 DEF Return, Goto
  <2> QED BY <1>5, <2>1, <2>2, <2>3 DEF Unsent
<1> QED BY <1>1, <1>3, <1>4, <1>7, <1>8, <1>9, <1>10, <1>11

(* Control's steps. *)
LEMMA ControlSteps ==
  ASSUME IInv,
         \/ ControlRestarts
         \/ \E id \in Id : Expire(id)
         \/ \E h \in Node : Heartbeat(h)
  PROVE  IInv'
<1>1. UNCHANGED <<proxy, host, runtime>> /\ (Fault \/ UNCHANGED faults)
  BY DEF ControlRestarts, Expire, Heartbeat
<1>2. ProxyInv'
  BY ControlRestartsStep, ExpireStep, HeartbeatStep
<1>3. Linked'
  BY <1>1 DEF IInv, Linked, proxy, host
<1>4. faults' \in 0..MaxFaults
  BY <1>1, FaultType
<1> QED BY <1>1, <1>2, <1>3, <1>4, ProxyOnly

(* acquireTask: one more handler, below the limit. *)
LEMMA AdmitStep ==
  ASSUME IInv, NEW c \in Chats, Admit(c)
  PROVE  IInv'
<1>1. /\ ProxyInv /\ ProxyType /\ HostInv /\ HostType /\ Counting /\ task \in Tasks
      /\ task[c] = None
  BY DEF IInv, ProxyInv, HostInv, HostType, Tasks, Linked, Admit
<1>2. lease[c] # None
  BY <1>1 DEF ProxyInv, Leased, Holding, Label, Admit
<1>3. PICK h \in Node : h = lease[c].host
  BY <1>1, <1>2 DEF ProxyType, Reservation
<1>4. /\ pc[c] = "waiting" /\ active[h] < MaxConcurrency[h]
      /\ active' = [active EXCEPT ![h] = @ + 1] /\ wants' = [wants EXCEPT ![c] = Plain]
      /\ UNCHANGED <<capacity, held, spent, pc, tried, lease, lost, mutex, cmd, server, faults>>
  BY <1>3 DEF Admit, pool, runtime
<1>5. PICK m \in Model \cup {Plain} :
        task' = [task EXCEPT ![c] = [host |-> h, model |-> m, at |-> "admitted"]]
  BY <1>1, <1>3 DEF Admit, ProxyType, Wishes
<1> DEFINE y == [host |-> h, model |-> m, at |-> "admitted"]
<1>6. y \in Task /\ y # None /\ y.host = h /\ y.at = "admitted"
  BY Constants DEF Task, Places
<1> HIDE DEF y
<1>7. task' \in Tasks /\ task'[c] = y /\ \A d \in Chats \ {c} : task'[d] = task[d]
  BY <1>1, <1>5, <1>6 DEF Tasks, y
<1>8. ProxyInv'
  <2>1. /\ pc' \in [Chats -> Label] /\ tried' \in [Chats -> SUBSET Node] /\ wants' \in Wishes
    BY <1>1, <1>4 DEF ProxyType, Wishes
  <2> QED BY <1>1, <1>4, <2>1, PcStep
<1>9. Linked'
  BY <1>1, <1>4, <1>7 DEF IInv, Linked, Unsent
<1>10. Counting'
  <2>1. /\ Chatting(h)' = Chatting(h) \cup {c} /\ c \notin Chatting(h)
        /\ \A g \in Node \ {h} : Chatting(g)' = Chatting(g)
    BY <1>1, <1>6, <1>7 DEF Chatting, HostOf
  <2>2. /\ IsFiniteSet(Chatting(h)) /\ active[h] = Cardinality(Chatting(h))
        /\ active[h] \in Nat /\ MaxConcurrency[h] \in Nat
    BY <1>1, Constants DEF Counting, HostType
  <2>3. IsFiniteSet(Chatting(h)') /\ Cardinality(Chatting(h)') = active[h] + 1
    BY <2>1, <2>2, FS_AddElement
  <2>4. active'[h] = active[h] + 1 /\ \A g \in Node \ {h} : active'[g] = active[g]
    BY <1>1, <1>4 DEF HostType
  <2>5. active'[h] <= MaxConcurrency[h]
    BY <1>4, <2>2, <2>4
  <2> SUFFICES ASSUME NEW g \in Node
               PROVE  /\ IsFiniteSet(Chatting(g)') /\ active'[g] = Cardinality(Chatting(g)')
                      /\ active'[g] <= MaxConcurrency[g]
    BY DEF Counting
  <2>6. CASE g = h
    BY <2>3, <2>4, <2>5, <2>6
  <2>7. CASE g # h
    BY <1>1, <2>1, <2>4, <2>7 DEF Counting
  <2> QED BY <2>6, <2>7
<1>11. HostType'
  <2>1. active' \in [Node -> Nat]
    BY <1>1, <1>4 DEF HostType
  <2> QED BY <1>1, <1>4, <1>7, <2>1 DEF HostType, Tasks
<1>12. ASSUME NEW d \in Chats PROVE Manages(d)'
  <2>1. CASE d = c
    BY <1>6, <1>7, <2>1 DEF Manages, Managed, At
  <2>2. CASE d # c
    BY <1>1, <1>4, <1>7, <2>2 DEF HostInv, Manages, Managed, At, HostOf
  <2> QED BY <2>1, <2>2
<1>13. \A g \in Node : Runs(g)'
  BY <1>1, <1>4 DEF HostInv, Runs, Tracked
<1>14. faults' \in 0..MaxFaults
  BY <1>4 DEF IInv
<1> QED BY <1>8, <1>9, <1>10, <1>11, <1>12, <1>13, <1>14 DEF IInv, HostInv

-----------------------------------------------------------------------------
(***************************************************************************)
(* Steps of the handlers.                                                  *)
(***************************************************************************)

(* The handler goes from one place to the next, and the proxy may be told.  *)
(* What holds of the place it reaches has to be shown.                      *)
LEMMA PlaceStep ==
  ASSUME IInv, NEW c \in Chats, NEW from, NEW to \in Places, At(c, from), Move(c, to), Notified(c),
         UNCHANGED <<active, mutex, runtime, faults>>,
         to = "queued" => task[c].model # Plain,
         to \in {"forwarding", "streaming"} =>
           \/ from \in {"loading", "forwarding"}
           \/ from = "ensuring" /\ cmd[HostOf(c)] = task[c].model
           \/ to = "streaming" /\ task[c].model = Plain,
         to \notin {"ensuring", "loading"}
  PROVE  IInv'
<1>1. /\ HostInv /\ Manages(c) /\ task[c] # None /\ task[c].at = from
      /\ UNCHANGED <<active, mutex, cmd, server>> /\ faults' \in 0..MaxFaults
  BY DEF IInv, HostInv, At, runtime
<1>2. Moved(c, to) /\ task'[c].model = task[c].model
  BY <1>1, MoveFacts
<1>3. Manages(c)'
  <2>1. /\ task'[c] # None /\ task'[c].host = task[c].host /\ task'[c].at = to
        /\ task'[c].model = task[c].model
    BY <1>2 DEF Moved
  <2>2. CASE to \notin {"forwarding", "streaming"}
    <3>1. ~(Managed(c)')
      BY <2>1, <2>2 DEF Managed
    <3>2. At(c, "queued")' => task'[c].model # Plain
      BY <2>1 DEF At
    <3> QED BY <3>1, <3>2 DEF Manages
  <2>3. CASE to \in {"forwarding", "streaming"}
    <3>1. ~(At(c, "queued")')
      BY <2>1, <2>3 DEF At
    <3>2. CASE Managed(c) /\ (task[c].at # "ensuring" \/ cmd[HostOf(c)] = task[c].model)
      BY <1>1, <2>1, <3>1, <3>2 DEF Manages, HostOf
    <3>3. CASE to = "streaming" /\ task[c].model = Plain
      <4>1. ~(Managed(c)')
        BY <2>1, <3>3 DEF Managed
      <4> QED BY <3>1, <4>1 DEF Manages
    <3> QED BY <1>1, <2>3, <3>2, <3>3 DEF Managed
  <2> QED BY <2>2, <2>3
<1>4. HostInv'
  BY <1>1, <1>2, <1>3, StepStep
<1>5. task' \in Tasks /\ \A d \in Chats : task[d] = None => task'[d] = None
  BY <1>1, <1>2 DEF Moved
<1> QED BY <1>1, <1>4, <1>5, NotifiedStep

(* A handler goes on under the mutex it has, or needs none. *)
LEMMA GoSteps ==
  ASSUME IInv, NEW c \in Chats,
         Queue(c) \/ Hit(c) \/ Loaded(c) \/ Direct(c) \/ Stream(c)
  PROVE  IInv'
<1>1. ASSUME UNCHANGED <<pool, proxy, lost>> PROVE Notified(c)
  BY <1>1 DEF Notified, pool, proxy
<1>2. ASSUME UNCHANGED <<pool, tried, wants, lease, lost>>,
             IF Connected(c) THEN Goto(c, "streaming") ELSE UNCHANGED pc
      PROVE  Notified(c)
  BY <1>2 DEF Notified, pool
<1>3. CASE Queue(c)
  BY <1>1, <1>3, PlaceStep DEF Queue, Step, Places
<1>4. CASE Hit(c)
  BY <1>1, <1>4, PlaceStep DEF Hit, Step, Places
<1>5. CASE Loaded(c)
  BY <1>1, <1>5, PlaceStep DEF Loaded, Step, Places
<1>6. CASE Direct(c)
  BY <1>2, <1>6, PlaceStep DEF Direct, Answer, Places
<1>7. CASE Stream(c)
  BY <1>2, <1>7, PlaceStep DEF Stream, Answer, Places
<1> QED BY <1>3, <1>4, <1>5, <1>6, <1>7

(* A token that lapsed: the handler goes to the plain runtime. *)
LEMMA LapseStep ==
  ASSUME IInv, NEW c \in Chats, Lapse(c)
  PROVE  IInv'
<1>1. /\ HostInv /\ task[c] # None /\ task[c].at = "admitted" /\ Notified(c)
      /\ UNCHANGED <<active, mutex, cmd, server>> /\ faults' \in 0..MaxFaults
  BY DEF IInv, Lapse, At, Notified, pool, proxy, runtime
<1>2. task \in Tasks /\ task[c] \in Task
  BY <1>1, TaskFacts
<1> DEFINE y == [task[c] EXCEPT !.model = Plain]
<1>3. y \in Task /\ y.host = task[c].host /\ y.at = "admitted" /\ task' = [task EXCEPT ![c] = y]
  BY <1>1, <1>2 DEF Task, Lapse
<1> HIDE DEF y
<1>4. Moved(c, "admitted") /\ task'[c] = y
  BY <1>2, <1>3, Constants DEF Moved, Tasks
<1>5. Manages(c)'
  BY <1>3, <1>4 DEF Manages, Managed, At
<1>6. HostInv'
  BY <1>1, <1>4, <1>5, StepStep
<1>7. task' \in Tasks /\ \A d \in Chats : task[d] = None => task'[d] = None
  BY <1>1, <1>4 DEF Moved
<1> QED BY <1>1, <1>6, <1>7, NotifiedStep

(* managedMu is taken while nobody has it. *)
LEMMA LockStep ==
  ASSUME IInv, NEW c \in Chats, Lock(c)
  PROVE  IInv'
<1>1. /\ HostInv /\ Manages(c) /\ At(c, "queued") /\ task[c] # None /\ task[c].model # Plain
      /\ Notified(c) /\ Move(c, "ensuring") /\ mutex[HostOf(c)] = None
      /\ UNCHANGED <<active, cmd, server>> /\ faults' \in 0..MaxFaults
  BY DEF IInv, HostInv, Manages, Lock, At, Notified, pool, proxy, runtime
<1>2. Moved(c, "ensuring") /\ task'[c].model = task[c].model /\ HostOf(c) \in Node
  BY <1>1, MoveFacts, TaskFacts DEF Places
<1>3. /\ mutex \in [Node -> Chats \cup {None}] /\ cmd' \in [Node -> Model \cup {None}]
      /\ server' \in [Node -> Process \cup {None}]
  BY <1>1 DEF HostInv, HostType
<1>4. /\ mutex' \in [Node -> Chats \cup {None}] /\ mutex'[HostOf(c)] = c
      /\ \A g \in Node : g # HostOf(c) => mutex'[g] = mutex[g]
  BY <1>2, <1>3 DEF Lock
<1>5. ASSUME NEW d \in Chats \ {c}, Managed(d)
      PROVE  mutex'[HostOf(d)] = mutex[HostOf(d)] /\ cmd'[HostOf(d)] = cmd[HostOf(d)]
  <2>1. mutex[HostOf(d)] = d /\ HostOf(d) \in Node
    BY <1>1, <1>5, TaskFacts DEF HostInv, Manages, Managed
  <2>2. HostOf(d) # HostOf(c)
    BY <1>1, <2>1, Constants
  <2> QED BY <1>1, <1>4, <2>1, <2>2
<1>6. Manages(c)'
  <2>1. /\ task'[c] # None /\ task'[c].host = task[c].host /\ task'[c].at = "ensuring"
        /\ task'[c].model # Plain
    BY <1>1, <1>2 DEF Moved
  <2> QED BY <1>4, <2>1 DEF Manages, At, HostOf
<1>7. \A h \in Node : Runs(h)'
  BY <1>1 DEF HostInv, Runs, Tracked
<1>8. HostInv'
  BY <1>1, <1>2, <1>3, <1>4, <1>5, <1>6, <1>7, GoStep
<1>9. task' \in Tasks /\ \A d \in Chats : task[d] = None => task'[d] = None
  BY <1>1, <1>2 DEF Moved
<1> QED BY <1>1, <1>8, <1>9, NotifiedStep

(* Ensure replaces the process: nobody else is being answered by it. *)
LEMMA StartStep ==
  ASSUME IInv, NEW c \in Chats, Start(c)
  PROVE  IInv'
<1> DEFINE m == task[c].model
           p == [model |-> m, ready |-> FALSE, tracked |-> TRUE]
<1>1. /\ HostInv /\ Manages(c) /\ At(c, "ensuring") /\ task[c] # None /\ task[c].at = "ensuring"
      /\ Notified(c) /\ Move(c, "loading") /\ UNCHANGED <<active, mutex>>
      /\ Stopped(HostOf(c), p) /\ cmd' = [cmd EXCEPT ![HostOf(c)] = m]
  BY DEF IInv, HostInv, Start, At, Notified, pool, proxy
<1>2. /\ Moved(c, "loading") /\ task'[c].model = m /\ HostOf(c) \in Node
      /\ m \in Model \cup {Plain} /\ task \in Tasks
  BY <1>1, MoveFacts, TaskFacts DEF Places
<1>3. Managed(c) /\ m # Plain /\ mutex[HostOf(c)] = c
  BY <1>1 DEF Managed, Manages
<1>4. p \in Process /\ p.model = m
  BY <1>2, <1>3 DEF Process
<1> HIDE DEF p
<1>5. /\ cmd' \in [Node -> Model \cup {None}] /\ server' \in [Node -> Process \cup {None}]
      /\ \A g \in Node : Runs(g)'
      /\ \A g \in Node \ {HostOf(c)} : cmd'[g] = cmd[g]
      /\ Fault \/ UNCHANGED faults
  <2>1. m \in Model \cup {None} /\ p \in Process \cup {None}
    BY <1>2, <1>3, <1>4
  <2> HIDE DEF m
  <2> QED BY <1>1, <1>2, <1>4, <2>1, StoppedFacts
<1>6. /\ cmd'[HostOf(c)] = m /\ mutex' \in [Node -> Chats \cup {None}]
  BY <1>1, <1>2 DEF HostInv, HostType
<1>7. ASSUME NEW d \in Chats \ {c}, Managed(d)
      PROVE  mutex'[HostOf(d)] = mutex[HostOf(d)] /\ cmd'[HostOf(d)] = cmd[HostOf(d)]
  <2>1. HostOf(d) \in Node
    BY <1>1, <1>7, TaskFacts DEF Managed
  <2>2. HostOf(d) # HostOf(c)
    BY <1>1, <1>3, <1>7, OneManages
  <2> QED BY <1>1, <1>5, <2>1, <2>2
<1>8. Manages(c)'
  <2>1. /\ task'[c] # None /\ task'[c].host = task[c].host /\ task'[c].at = "loading"
    BY <1>2 DEF Moved
  <2>2. mutex'[HostOf(c)] = c
    BY <1>1, <1>3
  <2> QED BY <1>2, <1>3, <1>6, <2>1, <2>2 DEF Manages, At, HostOf
<1>9. HostInv'
  BY <1>1, <1>2, <1>5, <1>6, <1>7, <1>8, GoStep
<1>10. task' \in Tasks /\ \A d \in Chats : task[d] = None => task'[d] = None
  BY <1>1, <1>2 DEF Moved
<1>11. faults' \in 0..MaxFaults
  BY <1>5, FaultType
<1> QED BY <1>1, <1>9, <1>10, <1>11, NotifiedStep

(* What a handler that returns does to the others. *)
LEMMA LeaveNotifies ==
  ASSUME IInv, NEW c \in Chats, task[c] # None, Leave(c), UNCHANGED <<pool, lost>>
  PROVE  Notified(c) /\ task' \in Tasks /\ \A d \in Chats : task[d] = None => task'[d] = None
<1>1. Notified(c)
  BY DEF Leave, Replied, Notified, pool
<1>2. task \in Tasks /\ task' = [task EXCEPT ![c] = None]
  BY TaskFacts DEF IInv, Leave
<1> QED BY <1>1, <1>2 DEF Tasks

(* A handler ends and gives back its task and its mutex. *)
LEMMA QuitStep ==
  ASSUME IInv, NEW c \in Chats, NEW from, Quit(c, from)
  PROVE  IInv'
<1>1. /\ HostInv /\ task[c] # None /\ Leave(c) /\ UNCHANGED <<pool, lost>> /\ UNCHANGED <<cmd, server>>
      /\ faults' \in 0..MaxFaults
  BY DEF IInv, Quit, At, runtime
<1>2. /\ cmd' \in [Node -> Model \cup {None}] /\ server' \in [Node -> Process \cup {None}]
      /\ \A h \in Node : Runs(h)'
  BY <1>1 DEF HostInv, HostType, Runs, Tracked
<1>3. \A d \in Chats \ {c} : Managed(d) => cmd'[HostOf(d)] = cmd[HostOf(d)]
  BY <1>1
<1>4. HostInv'
  BY <1>1, <1>2, <1>3, LeaveStep
<1>5. Notified(c) /\ task' \in Tasks /\ \A d \in Chats : task[d] = None => task'[d] = None
  BY <1>1, LeaveNotifies
<1> QED BY <1>1, <1>4, <1>5, NotifiedStep

(* A client that leaves while the model loads stops the new process. *)
LEMMA AbandonStep ==
  ASSUME IInv, NEW c \in Chats, NEW from \in {"ensuring", "loading"}, Abandon(c, from)
  PROVE  IInv'
<1>1. /\ HostInv /\ task[c] # None /\ Managed(c) /\ Leave(c) /\ UNCHANGED <<pool, lost>>
      /\ Stopped(HostOf(c), None) /\ cmd' = [cmd EXCEPT ![HostOf(c)] = None]
  BY DEF IInv, Abandon, At, Managed
<1>2. HostOf(c) \in Node
  BY <1>1, TaskFacts
<1>3. /\ cmd' \in [Node -> Model \cup {None}] /\ server' \in [Node -> Process \cup {None}]
      /\ \A g \in Node : Runs(g)'
      /\ \A g \in Node \ {HostOf(c)} : cmd'[g] = cmd[g]
      /\ Fault \/ UNCHANGED faults
  BY <1>1, <1>2, StoppedFacts
<1>4. ASSUME NEW d \in Chats \ {c}, Managed(d) PROVE cmd'[HostOf(d)] = cmd[HostOf(d)]
  <2>1. HostOf(d) \in Node
    BY <1>1, <1>4, TaskFacts DEF Managed
  <2>2. HostOf(d) # HostOf(c)
    BY <1>1, <1>4, OneManages
  <2> QED BY <1>3, <2>1, <2>2
<1>5. HostInv'
  BY <1>1, <1>3, <1>4, LeaveStep
<1>6. Notified(c) /\ task' \in Tasks /\ \A d \in Chats : task[d] = None => task'[d] = None
  BY <1>1, LeaveNotifies
<1>7. faults' \in 0..MaxFaults
  BY <1>3, FaultType
<1> QED BY <1>5, <1>6, <1>7, NotifiedStep

-----------------------------------------------------------------------------
(***************************************************************************)
(* Processes that start, end and are restarted.                            *)
(***************************************************************************)

(* A step of the process on a port: it runs the model it did, or none.      *)
LEMMA ServerStep ==
  ASSUME IInv, NEW h \in Node, UNCHANGED <<pool, proxy, lost, host, cmd>>,
         faults' \in 0..MaxFaults, NEW p \in Process \cup {None}, server' = [server EXCEPT ![h] = p],
         p # None => server[h] # None /\ p.model = server[h].model /\ (p.tracked => server[h].tracked)
  PROVE  IInv'
<1>1. /\ ProxyInv /\ HostInv /\ Linked
      /\ UNCHANGED <<capacity, held, spent, pc, tried, wants, lease, lost, task, active, mutex, cmd>>
  BY DEF IInv, pool, proxy, host
<1>2. /\ server' \in [Node -> Process \cup {None}] /\ server'[h] = p
      /\ \A g \in Node \ {h} : server'[g] = server[g]
  BY <1>1 DEF HostInv, HostType
<1>3. HostType' /\ Counting'
  BY <1>1, <1>2 DEF HostInv, HostType, Counting, Chatting, HostOf
<1>4. \A c \in Chats : Manages(c)'
  BY <1>1 DEF HostInv, Manages, Managed, At, HostOf
<1>5. ASSUME NEW g \in Node PROVE Runs(g)'
  <2>1. Runs(g)
    BY <1>1 DEF HostInv
  <2>2. CASE g = h
    BY <1>1, <1>2, <2>1, <2>2 DEF Runs, Tracked
  <2>3. CASE g # h
    BY <1>1, <1>2, <2>1, <2>3 DEF Runs, Tracked
  <2> QED BY <2>2, <2>3
<1>6. ProxyInv'
  BY <1>1, PcStep DEF ProxyInv, ProxyType
<1>7. Linked'
  BY <1>1 DEF Linked
<1> QED BY <1>3, <1>4, <1>5, <1>6, <1>7 DEF IInv, HostInv

(* A loaded server keeps its model. *)
LEMMA ServerReadyStep ==
  ASSUME IInv, NEW h \in Node, ServerReady(h)
  PROVE  IInv'
<1> DEFINE p == [server[h] EXCEPT !.ready = TRUE]
<1>1. server[h] \in Process
  BY DEF IInv, HostInv, HostType, ServerReady
<1>2. p \in Process /\ p.model = server[h].model /\ p.tracked = server[h].tracked
  BY <1>1 DEF Process
<1>3. server' = [server EXCEPT ![h] = p] /\ server[h] # None
      /\ UNCHANGED <<pool, proxy, lost, host, cmd>> /\ faults' \in 0..MaxFaults
  BY DEF ServerReady, IInv
<1> HIDE DEF p
<1> QED BY <1>2, <1>3, ServerStep

(* A server that dies is kept by nobody. *)
LEMMA ServerDiesStep ==
  ASSUME IInv, NEW h \in Node, ServerDies(h)
  PROVE  IInv'
<1>1. Fault \/ UNCHANGED faults
  BY DEF ServerDies
<1>2. faults' \in 0..MaxFaults
  BY <1>1, FaultType
<1> QED BY <1>2, ServerStep DEF ServerDies

(* The host forgets its handlers, its mutex and its process all at once. *)
LEMMA HostRestartsStep ==
  ASSUME IInv, NEW h \in Node, HostRestarts(h)
  PROVE  IInv'
<1> DEFINE gone == {c \in Chats : task[c] # None /\ HostOf(c) = h}
<1>1. /\ ProxyInv /\ HostInv /\ Linked /\ HostType /\ ProxyType /\ Counting
      /\ UNCHANGED <<capacity, held, spent, tried, wants, lease, lost>>
  BY DEF IInv, HostInv, ProxyInv, HostRestarts, pool
<1>2. /\ task' \in Tasks /\ \A c \in gone : task'[c] = None
      /\ \A c \in Chats \ gone : task'[c] = task[c]
  BY <1>1 DEF HostRestarts, HostType, Tasks
<1>3. /\ pc' \in [Chats -> Label]
      /\ \A c \in Chats : pc'[c] = pc[c] \/ (Connected(c) /\ pc'[c] = "releasing")
  BY <1>1 DEF HostRestarts, ProxyType, Label
<1>4. /\ active' \in [Node -> Nat] /\ active'[h] = 0 /\ mutex' \in [Node -> Chats \cup {None}]
      /\ cmd' \in [Node -> Model \cup {None}]
      /\ \A g \in Node \ {h} : active'[g] = active[g] /\ mutex'[g] = mutex[g] /\ cmd'[g] = cmd[g]
  BY <1>1 DEF HostRestarts, HostType
<1>5. /\ server' \in [Node -> Process \cup {None}]
      /\ server'[h] = None \/ ~server'[h].tracked
      /\ \A g \in Node \ {h} : server'[g] = server[g]
  <2>1. CASE server[h] = None
    BY <1>1, <2>1 DEF HostRestarts, HostType
  <2>2. CASE server[h] # None
    <3> DEFINE p == [server[h] EXCEPT !.tracked = FALSE]
    <3>1. server[h] \in Process
      BY <1>1, <2>2 DEF HostType
    <3>2. p \in Process /\ ~p.tracked
      BY <3>1 DEF Process
    <3>3. server' = [server EXCEPT ![h] = p]
      BY <2>2 DEF HostRestarts
    <3> HIDE DEF p
    <3> QED BY <1>1, <3>2, <3>3 DEF HostType
  <2> QED BY <2>1, <2>2
<1>6. ProxyInv'
  <2>1. \A c \in Chats : pc'[c] \in Holding <=> pc[c] \in Holding
    BY <1>3 DEF Connected, Holding, Label
  <2>2. tried \in [Chats -> SUBSET Node] /\ wants \in Wishes
    BY <1>1 DEF ProxyType
  <2> QED BY <1>1, <1>3, <2>1, <2>2, PcStep
<1>7. Linked'
  BY <1>1, <1>2, <1>3 DEF Linked, Unsent, Connected
<1>8. HostType'
  BY <1>2, <1>4, <1>5 DEF HostType, Tasks
<1>9. Counting'
  <2>1. Chatting(h)' = {} /\ \A g \in Node \ {h} : Chatting(g)' = Chatting(g)
    BY <1>2 DEF Chatting, HostOf
  <2>2. IsFiniteSet({}) /\ Cardinality({}) = 0 /\ 0 <= MaxConcurrency[h]
    BY FS_EmptySet, Constants
  <2> SUFFICES ASSUME NEW g \in Node
               PROVE  /\ IsFiniteSet(Chatting(g)') /\ active'[g] = Cardinality(Chatting(g)')
                      /\ active'[g] <= MaxConcurrency[g]
    BY DEF Counting
  <2>3. CASE g = h
    BY <1>4, <2>1, <2>2, <2>3
  <2>4. CASE g # h
    BY <1>1, <1>4, <2>1, <2>4 DEF Counting
  <2> QED BY <2>3, <2>4
<1>10. ASSUME NEW c \in Chats PROVE Manages(c)'
  <2>1. CASE task'[c] = None
    BY <2>1 DEF Manages, Managed, At
  <2>2. CASE task'[c] # None
    <3>1. task'[c] = task[c] /\ task[c] # None /\ HostOf(c) # h /\ Manages(c)
      BY <1>1, <1>2, <2>2 DEF HostInv
    <3>2. HostOf(c) \in Node
      BY <1>1, <3>1, TaskFacts
    <3>3. Managed(c)' <=> Managed(c)
      BY <3>1 DEF Managed
    <3> QED BY <1>4, <3>1, <3>2, <3>3 DEF Manages, At, HostOf
  <2> QED BY <2>1, <2>2
<1>11. ASSUME NEW g \in Node PROVE Runs(g)'
  <2>1. CASE g = h
    BY <1>5, <2>1 DEF Runs, Tracked
  <2>2. CASE g # h
    BY <1>1, <1>4, <1>5, <2>2 DEF HostInv, Runs, Tracked
  <2> QED BY <2>1, <2>2
<1>12. faults' \in 0..MaxFaults
  BY FaultType DEF HostRestarts
<1> QED BY <1>6, <1>7, <1>8, <1>9, <1>10, <1>11, <1>12 DEF IInv, HostInv

-----------------------------------------------------------------------------
(* Every step keeps the invariant. *)
LEMMA StepIInv == IInv /\ [Next]_vars => IInv'
<1> SUFFICES ASSUME IInv, [Next]_vars PROVE IInv'
  OBVIOUS
<1>1. ASSUME NEW c \in Chats,
             \/ Begin(c) \/ Lease(c) \/ LeaseUnheard(c) \/ Reached(c) \/ Admit(c)
             \/ LockUpload(c) \/ Uploaded(c) \/ Posted(c) \/ ForwardFails(c)
             \/ TimeUp(c) \/ GiveUp(c) \/ Handler(c) \/ StreamEnds(c) \/ Lock(c)
      PROVE  IInv'
  <2>1. CASE \/ Begin(c) \/ Lease(c) \/ LeaseUnheard(c) \/ GiveUp(c) \/ TimeUp(c)
    BY <2>1, ProxySteps DEF TimeUp
  <2>6. CASE \/ Reached(c) \/ LockUpload(c) \/ Uploaded(c) \/ Posted(c) \/ ForwardFails(c)
    BY <2>6, ReachedStep, ForwardSteps
  <2>2. CASE Admit(c) \/ Lock(c) \/ Lapse(c) \/ Start(c)
    BY <2>2, AdmitStep, LockStep, LapseStep, StartStep
  <2>3. CASE Queue(c) \/ Hit(c) \/ Loaded(c) \/ Direct(c) \/ Stream(c)
    BY <2>3, GoSteps
  <2>4. CASE NotCached(c) \/ LoadFails(c) \/ StreamFails(c) \/ StreamCancelled(c) \/ StreamEnds(c)
    BY <2>4, QuitStep DEF NotCached, LoadFails, StreamFails, StreamCancelled, StreamEnds
  <2>5. CASE StartFails(c) \/ LoadTimeout(c)
    BY <2>5, AbandonStep DEF StartFails, LoadTimeout
  <2> QED BY <1>1, <2>1, <2>2, <2>3, <2>4, <2>5, <2>6 DEF Handler
<1>2. ASSUME NEW h \in Node, Heartbeat(h) \/ ServerReady(h) \/ ServerDies(h) \/ HostRestarts(h)
      PROVE  IInv'
  BY <1>2, ControlSteps, ServerReadyStep, ServerDiesStep, HostRestartsStep
<1>3. ASSUME (\E id \in Id : Expire(id)) \/ ControlRestarts PROVE IInv'
  BY <1>3, ControlSteps
<1>4. CASE UNCHANGED vars
  <2>1. /\ UNCHANGED <<pool, proxy, lost, host, runtime, faults>>
        /\ UNCHANGED <<capacity, held, spent, pc, tried, wants, lease, lost, task>>
    BY <1>4 DEF vars, pool, proxy, host
  <2>2. ProxyInv' /\ Linked'
    BY <2>1, PcStep DEF IInv, ProxyInv, ProxyType, Linked
  <2>3. faults' \in 0..MaxFaults
    BY <2>1 DEF IInv
  <2> QED BY <2>1, <2>2, <2>3, ProxyOnly
<1> QED BY <1>1, <1>2, <1>3, <1>4 DEF Next

(* The invariant of proxies and hosts together. *)
THEOREM ChatInvariant == Spec => []IInv
BY InitIInv, StepIInv, PTL DEF Spec

(* TypeOK: in particular nothing that is lost is not held any more, and     *)
(* leaseReachable never tries more hosts than it may.                       *)
THEOREM TypeCorrect == Spec => []TypeOK
<1>1. IInv => TypeOK
  BY Implied
<1> QED BY <1>1, ChatInvariant, PTL

(* Every held slot is a chat's to release, or was lost on the way           *)
(* (leaseReachable, releaseLease).                                          *)
THEOREM NoSlotLeaks == Spec => []SlotsAccounted
<1>1. IInv => SlotsAccounted
  BY Implied
<1> QED BY <1>1, ChatInvariant, PTL

(* The host counts its handlers, within its limit (acquireTask).            *)
THEOREM TasksAreCounted == Spec => []TasksCounted
<1>1. IInv => TasksCounted
  BY Implied
<1> QED BY <1>1, ChatInvariant, PTL

(* An answer of the managed runtime comes from the model that was asked for *)
(* (managedMu is held from Ensure to the end of copyResponse).              *)
THEOREM AnsweredByOwnModel == Spec => []ServedByOwnModel
<1>1. IInv => ServedByOwnModel
  BY Implied
<1> QED BY <1>1, ChatInvariant, PTL
=============================================================================
