---------------------------- MODULE RelayProofs ----------------------------
(***************************************************************************)
(* Proofs about Relay, for any pairs, streams, addresses, limits and any   *)
(* number of connections.                                                  *)
(***************************************************************************)
EXTENDS Relay, FiniteSetTheorems, TLAPS

Handlers == {"unused", "handshake", "control", "greeting", "serving", "stream",
             "notify", "waiting", "pairing", "relaying", "done"}

(* Before a half of a stream is parked or joined it has no partner. *)
Early == {"unused", "handshake", "control", "greeting", "serving", "stream"}

(* Where a connection's handler is says what is known of the connection. *)
Placed(c) ==
  /\ at[c] = "unused" <=> c > dialled
  /\ at[c] = "unused" => ~open[c]
  /\ at[c] # "unused" => /\ hello[c] \in Hello
                         /\ hello[c].stream # Nobody => hello[c].pair = Forward[hello[c].stream].pair
  /\ at[c] = "handshake" => open[c]
  /\ at[c] \in {"stream", "notify", "waiting", "pairing", "relaying"} => hello[c].stream \in Stream
  /\ at[c] \in Early => partner[c] = Nobody
  /\ at[c] \in {"pairing", "relaying"} => partner[c] # Nobody

(* A connection that owes its pair a place is closed. *)
OwedInv == owed \subseteq Conn /\ \A c \in owed : ~open[c] /\ at[c] # "unused"

(* A control connection that is registered, or being replaced, has got as   *)
(* far as the table.                                                        *)
Replacements ==
  \A c \in Conn :
    at[c] = "greeting" /\ found[c] # Nobody => at[found[c]] \in {"greeting", "serving", "done"}

Registrations ==
  \A p \in Pair, r \in Role :
    controls[p][r] # Nobody => at[controls[p][r]] \in {"greeting", "serving", "done"}

(* A pending stream has one half, which is that stream's, waits and has no  *)
(* partner.                                                                 *)
HalfOf(s, r) == streams[s][r]
Half(s, r) ==
  LET d == HalfOf(s, r) IN
    /\ d \in Conn /\ HalfOf(s, peerRole(r)) = Nobody
    /\ at[d] \in {"notify", "waiting"} /\ partner[d] = Nobody
    /\ hello[d].stream = s /\ hello[d].role = r
OneHalf(s) == streams[s] # Nobody => \E r \in Role : Half(s, r)

(* WaitingIsReachable, of a half that is about to notify its peer too. *)
Reachable(c) ==
  open[c] /\ at[c] \in {"notify", "waiting"} /\ ~stuck =>
    \/ streams[hello[c].stream] # Nobody /\ streams[hello[c].stream][hello[c].role] = c
    \/ partner[c] # Nobody /\ at[partner[c]] \in {"pairing", "relaying"}

(* The counters; the handlers and the connections they hold; the table of   *)
(* control connections; and the table of pending streams with its halves.   *)
CountInv ==
  /\ activeConnections \in Nat
  /\ connectionsByIP \in [Address -> Nat]
  /\ connectionsByPair \in [Pair -> Nat]
  /\ PlacesCounted

PlaceInv ==
  /\ dialled \in 0..MaxDials
  /\ hello \in [Conn -> Hello \cup {Nobody}]
  /\ at \in [Conn -> Handlers]
  /\ open \in [Conn -> BOOLEAN]
  /\ found \in [Conn -> Peer]
  /\ partner \in [Conn -> Peer]
  /\ \A c \in Conn : Placed(c)
  /\ OwedInv

ControlInv ==
  /\ controls \in [Pair -> [Role -> Peer]]
  /\ Registrations
  /\ Replacements
  /\ ServedControlRegistered

StreamInv ==
  /\ streams \in [Stream -> Pending \cup {Nobody}]
  /\ timers \subseteq Stream \X Conn
  /\ stuck \in BOOLEAN
  /\ asked \subseteq Stream
  /\ PairsMatch
  /\ \A s \in Stream : OneHalf(s)
  /\ \A c \in Conn : Reachable(c)

IInv == CountInv /\ PlaceInv /\ ControlInv /\ StreamInv

-----------------------------------------------------------------------------
(***************************************************************************)
(* Facts about the constants and operators.                                *)
(***************************************************************************)

(* What the assumption says of the constants, a fact at a time. *)
LEMMA Constants ==
  /\ Nobody \notin Conn /\ Nobody \notin Stream /\ Nobody \notin Pending
  /\ MaxDials \in Nat
  /\ MaxConnections \in Nat /\ MaxConnectionsPerIP \in Nat /\ MaxConnectionsPerPair \in Nat
  /\ MaxConnections > 0 /\ MaxConnectionsPerIP > 0 /\ MaxConnectionsPerPair > 0
BY RelayAssumption

(* A forwarded stream belongs to one pair and role. *)
LEMMA Forwards ==
  ASSUME NEW s \in Stream
  PROVE  Forward[s].pair \in Pair /\ Forward[s].role \in Role /\ Forward[s].target \in Target
BY RelayAssumption

(* peerRole swaps the two roles. *)
LEMMA PeerRoles ==
  ASSUME NEW r \in Role
  PROVE  /\ peerRole(r) \in Role /\ peerRole(r) # r /\ peerRole(peerRole(r)) = r
         /\ \A q \in Role : q = r \/ q = peerRole(r)
BY DEF Role, peerRole

(* Every agent dials from one of the addresses. *)
LEMMA Addresses ==
  ASSUME NEW p \in Pair, NEW r \in Role
  PROVE  IP[p][r] \in Address
BY DEF Address

(* There are finitely many connections, so the places they hold are counted. *)
LEMMA ConnFinite ==
  ASSUME NEW S \in SUBSET Conn
  PROVE  IsFiniteSet(S) /\ Cardinality(S) \in Nat
<1>1. IsFiniteSet(Conn)
  BY Constants, FS_Interval DEF Conn
<1>2. IsFiniteSet(S)
  BY <1>1, FS_Subset
<1> QED
  BY <1>2, FS_CardinalityType

(* Closing some of the connections of a set gives back that many places. *)
LEMMA GivenBack ==
  ASSUME NEW S \in SUBSET Conn, NEW T \in SUBSET S
  PROVE  /\ Cardinality(S \ T) = Cardinality(S) - Cardinality(T)
         /\ Cardinality(S \ T) \in Nat
         /\ Cardinality(S \ T) <= Cardinality(S)
<1>1. /\ IsFiniteSet(S) /\ Cardinality(S) \in Nat
      /\ Cardinality(T) \in Nat
      /\ Cardinality(S \ T) \in Nat
  BY ConnFinite
<1>2. Cardinality(S \ T) = Cardinality(S) - Cardinality(S \cap T)
  BY <1>1, FS_Difference
<1>3. S \cap T = T
  OBVIOUS
<1>4. Cardinality(S \ T) = Cardinality(S) - Cardinality(T)
  BY <1>2, <1>3, Zenon
<1> DEFINE n == Cardinality(S)
           k == Cardinality(T)
           m == Cardinality(S \ T)
<1>5. n \in Nat /\ k \in Nat /\ m \in Nat /\ m = n - k
  BY <1>1, <1>4
<1> HIDE DEF n, k, m
<1>6. m = n - k /\ m \in Nat /\ m <= n
  BY <1>5
<1> QED
  BY <1>6 DEF n, k, m

(* A connection that was not counted takes one more place. *)
LEMMA OneMore ==
  ASSUME NEW S \in SUBSET Conn, NEW c \in Conn, c \notin S
  PROVE  Cardinality(S \cup {c}) = Cardinality(S) + 1
BY ConnFinite, FS_AddElement

(* A half of a pending stream is a connection or absent. *)
LEMMA PendingPeers ==
  ASSUME NEW m \in Pending, NEW r \in Role
  PROVE  m[r] \in Peer
BY DEF Pending, Role

(* The invariant says at least that every variable has its type. *)
LEMMA Typed == IInv => TypeOK
BY DEF IInv, CountInv, PlaceInv, ControlInv, StreamInv, TypeOK, Handlers, OwedInv

-----------------------------------------------------------------------------
(***************************************************************************)
(* The counters.                                                           *)
(***************************************************************************)

(* The connections counted: in all, for an address and for a pair. *)
Opened == {c \in Conn : open[c]}
OpenedFrom(a) == {c \in Conn : open[c] /\ Ip(c) = a}
OpenedBy(p) == {c \in Conn : /\ (open[c] /\ Admitted(c)) \/ c \in owed
                             /\ hello[c].pair = p}

(* PlacesCounted, in their terms. *)
LEMMA Counting ==
  PlacesCounted <=>
    /\ activeConnections = Cardinality(Opened)
    /\ activeConnections <= MaxConnections
    /\ \A a \in Address : /\ connectionsByIP[a] = Cardinality(OpenedFrom(a))
                          /\ connectionsByIP[a] <= MaxConnectionsPerIP
    /\ \A p \in Pair : /\ connectionsByPair[p] = Cardinality(OpenedBy(p))
                       /\ connectionsByPair[p] <= MaxConnectionsPerPair
BY DEF PlacesCounted, Opened, OpenedFrom, OpenedBy

(* The same after a step. *)
LEMMA CountingPrime ==
  PlacesCounted' <=>
    /\ activeConnections' = Cardinality(Opened')
    /\ activeConnections' <= MaxConnections
    /\ \A a \in Address : /\ connectionsByIP'[a] = Cardinality(OpenedFrom(a)')
                          /\ connectionsByIP'[a] <= MaxConnectionsPerIP
    /\ \A p \in Pair : /\ connectionsByPair'[p] = Cardinality(OpenedBy(p)')
                       /\ connectionsByPair'[p] <= MaxConnectionsPerPair
BY DEF PlacesCounted, Opened, OpenedFrom, OpenedBy

(* Before any connection is dialled all counters are zero. *)
LEMMA InitCounts == Init => CountInv
<1> SUFFICES ASSUME Init PROVE CountInv
  OBVIOUS
<1>1. /\ activeConnections = 0
      /\ connectionsByIP = [a \in Address |-> 0]
      /\ connectionsByPair = [p \in Pair |-> 0]
      /\ open = [c \in Conn |-> FALSE] /\ owed = {}
  BY DEF Init
<1>2. /\ Opened = {}
      /\ \A a \in Address : OpenedFrom(a) = {}
      /\ \A p \in Pair : OpenedBy(p) = {}
  BY <1>1 DEF Opened, OpenedFrom, OpenedBy
<1>3. Cardinality({}) = 0
  BY FS_EmptySet
<1>4. /\ Cardinality(Opened) = 0
      /\ \A a \in Address : Cardinality(OpenedFrom(a)) = 0
      /\ \A p \in Pair : Cardinality(OpenedBy(p)) = 0
  BY <1>2, <1>3
<1>5. PlacesCounted
  BY <1>1, <1>4, Counting, Constants
<1> QED
  BY <1>1, <1>5 DEF CountInv

(* A step that opens and closes nothing and takes nobody past the handshake *)
(* counts what was counted before.                                          *)
LEMMA CountsKept ==
  ASSUME CountInv, UNCHANGED <<counters, open, hello>>,
         \A d \in Conn : open[d] => (Admitted(d)' <=> Admitted(d))
  PROVE  CountInv'
<1>1. /\ Opened' = Opened
      /\ \A a \in Address : OpenedFrom(a)' = OpenedFrom(a)
      /\ \A p \in Pair : OpenedBy(p)' = OpenedBy(p)
  BY DEF Opened, OpenedFrom, OpenedBy, Ip, counters
<1>2. PlacesCounted'
  BY <1>1, Counting, CountingPrime DEF CountInv, counters
<1> QED
  BY <1>2 DEF CountInv, counters

(* Close gives back exactly the places of the connections that were still   *)
(* open, whatever the set it is given.                                      *)
LEMMA CloseCounts ==
  ASSUME CountInv, NEW S \in SUBSET Conn, Close(S), UNCHANGED hello,
         \A d \in Conn : open'[d] => (Admitted(d)' <=> Admitted(d))
  PROVE  CountInv'
<1> DEFINE T == {c \in S : open[c]}
           TA(a) == {c \in T : Ip(c) = a}
<1>1. /\ open' = [c \in Conn |-> open[c] /\ c \notin S]
      /\ activeConnections' = activeConnections - Cardinality(T)
      /\ connectionsByIP' = [a \in Address |-> connectionsByIP[a] - Cardinality(TA(a))]
      /\ connectionsByPair' = connectionsByPair
      /\ owed' = owed \cup {c \in T : Admitted(c)}
  BY DEF Close, Tally
<1>2. /\ Opened' = Opened \ T
      /\ T \subseteq Opened /\ Opened \subseteq Conn
  BY <1>1 DEF Opened
<1>3. ASSUME NEW a \in Address
      PROVE  /\ OpenedFrom(a)' = OpenedFrom(a) \ TA(a)
             /\ TA(a) \subseteq OpenedFrom(a) /\ OpenedFrom(a) \subseteq Conn
  BY <1>1 DEF OpenedFrom, Ip
<1>4. ASSUME NEW p \in Pair
      PROVE  OpenedBy(p)' = OpenedBy(p)
  <2>1. ASSUME NEW d \in Conn
        PROVE  (open'[d] /\ Admitted(d)') \/ d \in owed' <=> (open[d] /\ Admitted(d)) \/ d \in owed
    <3>1. open'[d] <=> open[d] /\ d \notin S
      BY <1>1
    <3>2. d \in owed' <=> d \in owed \/ (d \in S /\ open[d] /\ Admitted(d))
      BY <1>1
    <3> QED
      BY <3>1, <3>2
  <2> QED
    BY <2>1 DEF OpenedBy
<1> HIDE DEF T, TA
<1>5. /\ activeConnections' = Cardinality(Opened')
      /\ activeConnections' \in Nat
      /\ activeConnections' <= MaxConnections
  <2>1. /\ Cardinality(Opened') = Cardinality(Opened) - Cardinality(T)
        /\ Cardinality(Opened') \in Nat
        /\ Cardinality(Opened') <= Cardinality(Opened)
    BY <1>2, GivenBack
  <2>2. /\ activeConnections = Cardinality(Opened)
        /\ activeConnections \in Nat
        /\ activeConnections <= MaxConnections
    BY Counting DEF CountInv
  <2> QED
    BY <1>1, <2>1, <2>2, Constants
<1>6. ASSUME NEW a \in Address
      PROVE  /\ connectionsByIP'[a] = Cardinality(OpenedFrom(a)')
             /\ connectionsByIP'[a] \in Nat
             /\ connectionsByIP'[a] <= MaxConnectionsPerIP
  <2>1. /\ Cardinality(OpenedFrom(a)') = Cardinality(OpenedFrom(a)) - Cardinality(TA(a))
        /\ Cardinality(OpenedFrom(a)') \in Nat
        /\ Cardinality(OpenedFrom(a)') <= Cardinality(OpenedFrom(a))
    BY <1>3, GivenBack
  <2>2. /\ connectionsByIP[a] = Cardinality(OpenedFrom(a))
        /\ connectionsByIP[a] \in Nat
        /\ connectionsByIP[a] <= MaxConnectionsPerIP
    BY Counting DEF CountInv
  <2> QED
    BY <1>1, <2>1, <2>2, Constants
<1>7. ASSUME NEW p \in Pair
      PROVE  /\ connectionsByPair'[p] = Cardinality(OpenedBy(p)')
             /\ connectionsByPair'[p] \in Nat
             /\ connectionsByPair'[p] <= MaxConnectionsPerPair
  BY <1>1, <1>4, Counting DEF CountInv
<1>8. PlacesCounted'
  BY <1>5, <1>6, <1>7, CountingPrime
<1>9. connectionsByIP' \in [Address -> Nat]
  BY <1>1, <1>6
<1>10. connectionsByPair' \in [Pair -> Nat]
  BY <1>1 DEF CountInv
<1> QED
  BY <1>5, <1>8, <1>9, <1>10 DEF CountInv

(* Serve admits a connection only while there is a place in all and one for *)
(* its address; a connection in its handshake is not counted for its pair.  *)
LEMMA AcceptCounts ==
  ASSUME CountInv, PlaceInv, NEW h \in Hello, Accept(h)
  PROVE  CountInv'
<1> DEFINE c == dialled + 1
           a == IP[h.pair][h.role]
<1>1. /\ c \in Conn /\ at[c] = "unused" /\ ~open[c] /\ a \in Address /\ c \notin owed
  BY Constants, Addresses DEF PlaceInv, OwedInv, Placed, Accept, Conn, Hello
<1>2. /\ hello' = [hello EXCEPT ![c] = h]
      /\ \A d \in Conn : d # c => hello'[d] = hello[d]
      /\ hello'[c] = h
  BY <1>1 DEF Accept, PlaceInv
<1>3. CASE ~HasPlace(a)
  <2>1. /\ at' = [at EXCEPT ![c] = "done"]
        /\ UNCHANGED <<counters, open>>
    BY <1>3 DEF Accept
  <2>2. /\ Opened' = Opened
        /\ \A b \in Address : OpenedFrom(b)' = OpenedFrom(b)
        /\ \A p \in Pair : OpenedBy(p)' = OpenedBy(p)
    BY <1>1, <1>2, <2>1 DEF Opened, OpenedFrom, OpenedBy, Ip, Admitted, PlaceInv, counters
  <2> QED
    BY <2>1, <2>2, Counting, CountingPrime DEF CountInv, counters
<1>4. CASE HasPlace(a)
  <2>1. /\ activeConnections' = activeConnections + 1
        /\ connectionsByIP' = [connectionsByIP EXCEPT ![a] = @ + 1]
        /\ at' = [at EXCEPT ![c] = "handshake"]
        /\ open' = [open EXCEPT ![c] = TRUE]
        /\ connectionsByPair' = connectionsByPair /\ owed' = owed
    BY <1>4 DEF Accept
  <2>2. /\ \A d \in Conn : open'[d] <=> open[d] \/ d = c
        /\ \A d \in Conn : d # c => at'[d] = at[d]
        /\ at'[c] = "handshake"
    BY <1>1, <2>1 DEF PlaceInv
  <2>3. /\ Opened' = Opened \cup {c}
        /\ Opened \subseteq Conn /\ c \notin Opened
    BY <1>1, <2>2 DEF Opened
  <2>4. /\ OpenedFrom(a)' = OpenedFrom(a) \cup {c}
        /\ OpenedFrom(a) \subseteq Conn /\ c \notin OpenedFrom(a)
    BY <1>1, <1>2, <2>2 DEF OpenedFrom, Ip
  <2>5. \A b \in Address : b # a => OpenedFrom(b)' = OpenedFrom(b)
    BY <1>1, <1>2, <2>2 DEF OpenedFrom, Ip
  <2>6. \A p \in Pair : OpenedBy(p)' = OpenedBy(p)
    BY <1>1, <1>2, <2>1, <2>2 DEF OpenedBy, Admitted
  <2>7. /\ Cardinality(Opened') = Cardinality(Opened) + 1
        /\ Cardinality(OpenedFrom(a)') = Cardinality(OpenedFrom(a)) + 1
    BY <1>1, <2>3, <2>4, OneMore
  <2>8. /\ activeConnections < MaxConnections
        /\ connectionsByIP[a] < MaxConnectionsPerIP
    BY <1>4 DEF HasPlace
  <2> HIDE DEF c, a
  <2>9. /\ activeConnections' = Cardinality(Opened')
        /\ activeConnections' \in Nat
        /\ activeConnections' <= MaxConnections
    BY <2>1, <2>7, <2>8, Counting, Constants DEF CountInv
  <2>10. ASSUME NEW b \in Address
         PROVE  /\ connectionsByIP'[b] = Cardinality(OpenedFrom(b)')
                /\ connectionsByIP'[b] \in Nat
                /\ connectionsByIP'[b] <= MaxConnectionsPerIP
    <3>1. /\ connectionsByIP[b] = Cardinality(OpenedFrom(b))
          /\ connectionsByIP[b] \in Nat
          /\ connectionsByIP[b] <= MaxConnectionsPerIP
      BY Counting DEF CountInv
    <3>2. CASE b = a
      <4>1. connectionsByIP'[b] = connectionsByIP[b] + 1
        BY <2>1, <3>2 DEF CountInv
      <4> QED
        BY <3>1, <3>2, <4>1, <2>7, <2>8, Constants
    <3>3. CASE b # a
      <4>1. connectionsByIP'[b] = connectionsByIP[b]
        BY <2>1, <3>3 DEF CountInv
      <4> QED
        BY <3>1, <3>3, <4>1, <2>5
    <3> QED
      BY <3>2, <3>3
  <2>11. PlacesCounted'
    BY <2>1, <2>6, <2>9, <2>10, Counting, CountingPrime DEF CountInv
  <2>12. connectionsByIP' \in [Address -> Nat]
    BY <2>1, <2>10 DEF CountInv
  <2> QED
    BY <2>1, <2>9, <2>11, <2>12 DEF CountInv
<1> QED
  BY <1>3, <1>4

(* acquirePair counts a connection for its pair once it is authenticated. *)
LEMMA AdmitCounts ==
  ASSUME CountInv, PlaceInv, NEW c \in Conn, Admit(c)
  PROVE  CountInv'
<1>1. /\ at[c] = "handshake" /\ open[c] /\ hello[c].pair \in Pair /\ hello' = hello
      /\ c \notin owed
  BY DEF Admit, PlaceInv, OwedInv, Placed, Hello, agents
<1>p. PICK p \in Pair : p = hello[c].pair
  BY <1>1
<1>2. CASE ~PairHasPlace(p)
  <2>1. Close({c}) /\ at' = [at EXCEPT ![c] = "done"]
    BY <1>2, <1>p DEF Admit
  <2>2. \A d \in Conn : open'[d] => (Admitted(d)' <=> Admitted(d))
    BY <2>1 DEF Close, Admitted, PlaceInv
  <2> QED
    BY <1>1, <2>1, <2>2, CloseCounts
<1>3. CASE PairHasPlace(p)
  <2>1. /\ connectionsByPair' = [connectionsByPair EXCEPT ![p] = @ + 1]
        /\ at' = [at EXCEPT ![c] = IF hello[c].stream = Nobody THEN "control" ELSE "stream"]
        /\ UNCHANGED <<activeConnections, connectionsByIP, owed, open>>
        /\ connectionsByPair[p] < MaxConnectionsPerPair
    BY <1>3, <1>p DEF Admit, PairHasPlace
  <2>2. \A d \in Conn : Admitted(d)' <=> Admitted(d) \/ d = c
    BY <2>1 DEF Admitted, PlaceInv
  <2>3. /\ Opened' = Opened
        /\ \A a \in Address : OpenedFrom(a)' = OpenedFrom(a)
    BY <1>1, <2>1 DEF Opened, OpenedFrom, Ip
  <2>4. \A q \in Pair : q # p => OpenedBy(q)' = OpenedBy(q)
    BY <1>1, <1>p, <2>1, <2>2 DEF OpenedBy
  <2>5. /\ OpenedBy(p)' = OpenedBy(p) \cup {c}
        /\ OpenedBy(p) \subseteq Conn /\ c \notin OpenedBy(p)
    <3>1. \A d \in Conn : d \in OpenedBy(p)' <=> /\ (open[d] /\ Admitted(d)') \/ d \in owed
                                                 /\ hello[d].pair = p
      BY <1>1, <2>1 DEF OpenedBy
    <3>2. \A d \in Conn : d \in OpenedBy(p) <=> /\ (open[d] /\ Admitted(d)) \/ d \in owed
                                                /\ hello[d].pair = p
      BY DEF OpenedBy
    <3>3. OpenedBy(p)' \subseteq Conn /\ OpenedBy(p) \subseteq Conn
      BY DEF OpenedBy
    <3>4. ~Admitted(c)
      BY <1>1 DEF Admitted
    <3> QED
      BY <1>1, <1>p, <2>2, <3>1, <3>2, <3>3, <3>4
  <2>6. Cardinality(OpenedBy(p)') = Cardinality(OpenedBy(p)) + 1
    BY <2>5, OneMore
  <2>7. ASSUME NEW q \in Pair
        PROVE  /\ connectionsByPair'[q] = Cardinality(OpenedBy(q)')
               /\ connectionsByPair'[q] \in Nat
               /\ connectionsByPair'[q] <= MaxConnectionsPerPair
    <3>1. /\ connectionsByPair[q] = Cardinality(OpenedBy(q))
          /\ connectionsByPair[q] \in Nat
          /\ connectionsByPair[q] <= MaxConnectionsPerPair
      BY Counting DEF CountInv
    <3>2. CASE q = p
      <4>1. connectionsByPair'[q] = connectionsByPair[q] + 1
        BY <2>1, <3>2 DEF CountInv
      <4> QED
        BY <3>1, <3>2, <4>1, <2>1, <2>6, Constants
    <3>3. CASE q # p
      <4>1. connectionsByPair'[q] = connectionsByPair[q]
        BY <2>1, <3>3 DEF CountInv
      <4> QED
        BY <3>1, <3>3, <4>1, <2>4
    <3> QED
      BY <3>2, <3>3
  <2>8. PlacesCounted'
    BY <2>1, <2>3, <2>7, Counting, CountingPrime DEF CountInv
  <2>9. connectionsByPair' \in [Pair -> Nat]
    BY <2>1, <2>7 DEF CountInv
  <2> QED
    BY <2>1, <2>8, <2>9 DEF CountInv
<1> QED
  BY <1>2, <1>3

-----------------------------------------------------------------------------
(***************************************************************************)
(* One connection's handler moves on: what each part of the invariant      *)
(* needs of the step.                                                      *)
(***************************************************************************)

(* The handler of c moves on to w. *)
Moves(c, w) ==
  /\ at[c] # "unused"
  /\ at' = [at EXCEPT ![c] = w]
  /\ UNCHANGED <<hello, dialled>>
  /\ open' \in [Conn -> BOOLEAN]
  /\ \A d \in Conn : open'[d] => open[d]
  /\ owed' \subseteq Conn
  /\ \A d \in owed' : ~open'[d] /\ at[d] # "unused"

(* Close opens nothing, and closes what it is given. *)
LEMMA Closing ==
  ASSUME PlaceInv, NEW S \in SUBSET Conn, Close(S)
  PROVE  /\ open' \in [Conn -> BOOLEAN]
         /\ \A d \in Conn : open'[d] <=> open[d] /\ d \notin S
         /\ owed' \subseteq Conn
         /\ \A d \in owed' : ~open'[d] /\ at[d] # "unused"
<1>1. /\ open' = [c \in Conn |-> open[c] /\ c \notin S]
      /\ owed' = owed \cup {c \in {d \in S : open[d]} : Admitted(c)}
  BY DEF Close, Tally
<1>2. /\ open' \in [Conn -> BOOLEAN]
      /\ \A d \in Conn : open'[d] <=> open[d] /\ d \notin S
  BY <1>1 DEF PlaceInv
<1>3. owed' \subseteq Conn
  BY <1>1 DEF PlaceInv, OwedInv
<1>4. ASSUME NEW d \in owed' PROVE ~open'[d] /\ at[d] # "unused"
  <2>1. CASE d \in owed
    BY <1>2, <1>3, <2>1 DEF PlaceInv, OwedInv
  <2>2. CASE d \in S /\ open[d]
    BY <1>2, <1>3, <2>2 DEF PlaceInv, Placed
  <2> QED
    BY <1>1, <2>1, <2>2
<1> QED
  BY <1>2, <1>3, <1>4

(* A step that closes nothing owes nothing more. *)
LEMMA OwesNoMore ==
  ASSUME PlaceInv, UNCHANGED <<owed, open>>
  PROVE  /\ open' \in [Conn -> BOOLEAN]
         /\ \A d \in Conn : open'[d] => open[d]
         /\ owed' \subseteq Conn
         /\ \A d \in owed' : ~open'[d] /\ at[d] # "unused"
BY DEF PlaceInv, OwedInv

(* Where the other handlers are does not change. *)
LEMMA Moved ==
  ASSUME PlaceInv, NEW c \in Conn, NEW w \in Handlers, Moves(c, w)
  PROVE  /\ at' \in [Conn -> Handlers] /\ at'[c] = w
         /\ \A d \in Conn : d # c => at'[d] = at[d]
BY DEF PlaceInv, Moves

(* What a connection that is no longer in its handshake must still satisfy. *)
LEMMA MovePlaces ==
  ASSUME PlaceInv, NEW c \in Conn, NEW w \in Handlers \ {"unused", "handshake"},
         Moves(c, w),
         found' \in [Conn -> Peer], partner' \in [Conn -> Peer],
         \A d \in Conn : d # c /\ at[d] = "handshake" => open'[d],
         \A d \in Conn : d # c /\ at[d] \in Early => partner'[d] = Nobody,
         \A d \in Conn : d # c /\ partner'[d] = Nobody => partner[d] = Nobody,
         w \in {"stream", "notify", "waiting", "pairing", "relaying"} => hello[c].stream \in Stream,
         w \in Early => partner'[c] = Nobody,
         w \in {"pairing", "relaying"} => partner'[c] # Nobody
  PROVE  PlaceInv'
<1>1. /\ at' \in [Conn -> Handlers] /\ at'[c] = w
      /\ \A d \in Conn : d # c => at'[d] = at[d]
  BY Moved
<1>2. /\ hello' = hello /\ dialled' = dialled /\ at[c] # "unused"
      /\ open' \in [Conn -> BOOLEAN]
      /\ \A d \in Conn : open'[d] => open[d]
  BY DEF Moves
<1>3. ASSUME NEW d \in Conn PROVE Placed(d)'
  <2>1. Placed(d)
    BY DEF PlaceInv
  <2>2. CASE d = c
    BY <1>1, <1>2, <2>1, <2>2 DEF Placed
  <2>3. CASE d # c
    BY <1>1, <1>2, <2>1, <2>3 DEF Placed
  <2> QED
    BY <2>2, <2>3
<1>4. OwedInv'
  BY <1>1 DEF OwedInv, Moves
<1> QED
  BY <1>1, <1>2, <1>3, <1>4 DEF PlaceInv

(* The table of control connections stays right while no handler enters or  *)
(* re-enters the part of handleControl that is registered, and none leaves  *)
(* the connection it replaced open.                                         *)
LEMMA MoveControls ==
  ASSUME PlaceInv, ControlInv, NEW c \in Conn, NEW w \in Handlers, Moves(c, w),
         controls' = controls,
         at[c] \in {"greeting", "serving", "done"} => w \in {"greeting", "serving", "done"},
         w \in {"greeting", "serving"} => at[c] \in {"greeting", "serving"},
         w = "greeting" => at[c] = "greeting",
         \A d \in Conn : at[d] = "greeting" => found'[d] = found[d],
         at[c] = "greeting" /\ w # "greeting" /\ found[c] # Nobody => ~open'[found[c]]
  PROVE  ControlInv'
<1>1. /\ at'[c] = w
      /\ \A d \in Conn : d # c => at'[d] = at[d]
      /\ hello' = hello
      /\ \A d \in Conn : open'[d] => open[d]
  BY Moved DEF Moves
<1>2. controls' \in [Pair -> [Role -> Peer]]
  BY DEF ControlInv
<1>3. Registrations'
  <2> SUFFICES ASSUME NEW p \in Pair, NEW r \in Role, controls[p][r] # Nobody
               PROVE  at'[controls[p][r]] \in {"greeting", "serving", "done"}
    BY DEF Registrations
  <2>1. /\ controls[p][r] \in Conn
        /\ at[controls[p][r]] \in {"greeting", "serving", "done"}
    BY DEF ControlInv, Registrations, Peer
  <2> QED
    BY <1>1, <2>1
<1>4. ServedControlRegistered'
  <2> SUFFICES ASSUME NEW d \in Conn, open'[d], at'[d] \in {"greeting", "serving"}
               PROVE  Registered(d)' = d \/ \E e \in Conn : at'[e] = "greeting" /\ found'[e] = d
    BY DEF ServedControlRegistered
  <2>1. open[d] /\ at[d] \in {"greeting", "serving"}
    BY <1>1
  <2>2. Registered(d)' = Registered(d)
    BY <1>1 DEF Registered
  <2>3. ASSUME NEW e \in Conn, at[e] = "greeting", found[e] = d
        PROVE  at'[e] = "greeting" /\ found'[e] = d
    BY <1>1, <2>3, Constants
  <2> QED
    BY <2>1, <2>2, <2>3 DEF ControlInv, ServedControlRegistered
<1>5. Replacements'
  <2> SUFFICES ASSUME NEW d \in Conn, at'[d] = "greeting", found'[d] # Nobody
               PROVE  at'[found'[d]] \in {"greeting", "serving", "done"}
    BY DEF Replacements
  <2>1. at[d] = "greeting" /\ found'[d] = found[d]
    BY <1>1
  <2>2. found[d] \in Conn /\ at[found[d]] \in {"greeting", "serving", "done"}
    BY <2>1 DEF ControlInv, Replacements, PlaceInv, Peer
  <2> QED
    BY <1>1, <2>1, <2>2
<1> QED
  BY <1>2, <1>3, <1>4, <1>5 DEF ControlInv

(* The pending streams and the pairs stay right while no half comes or goes *)
(* and a handler that ends its pair closes the other half.                  *)
LEMMA MoveStreams ==
  ASSUME PlaceInv, StreamInv, NEW c \in Conn, NEW w \in Handlers, Moves(c, w),
         UNCHANGED <<streams, timers, stuck, partner>>, asked' \subseteq Stream,
         at[c] \in {"notify", "waiting"} <=> w \in {"notify", "waiting"},
         at[c] \in {"pairing", "relaying"} =>
           w \in {"pairing", "relaying"} \/ \A d \in Conn : partner[d] = c => ~open'[d]
  PROVE  StreamInv'
<1>1. /\ at'[c] = w
      /\ \A d \in Conn : d # c => at'[d] = at[d]
      /\ hello' = hello
      /\ \A d \in Conn : open'[d] => open[d]
  BY Moved DEF Moves
<1>2. PairsMatch'
  BY <1>1 DEF StreamInv, PairsMatch
<1>3. ASSUME NEW s \in Stream PROVE OneHalf(s)'
  <2> SUFFICES ASSUME streams[s] # Nobody PROVE \E r \in Role : Half(s, r)'
    BY DEF OneHalf
  <2>1. PICK r \in Role : Half(s, r)
    BY DEF StreamInv, OneHalf
  <2>2. Half(s, r)'
    BY <1>1, <2>1 DEF Half, HalfOf
  <2> QED
    BY <2>2
<1>4. ASSUME NEW d \in Conn PROVE Reachable(d)'
  <2> SUFFICES ASSUME open'[d], at'[d] \in {"notify", "waiting"}, ~stuck
               PROVE  \/ streams[hello[d].stream] # Nobody /\ streams[hello[d].stream][hello[d].role] = d
                      \/ partner[d] # Nobody /\ at'[partner[d]] \in {"pairing", "relaying"}
    BY <1>1 DEF Reachable
  <2>1. open[d] /\ at[d] \in {"notify", "waiting"}
    BY <1>1
  <2>2. \/ streams[hello[d].stream] # Nobody /\ streams[hello[d].stream][hello[d].role] = d
        \/ partner[d] # Nobody /\ at[partner[d]] \in {"pairing", "relaying"}
    BY <2>1 DEF StreamInv, Reachable
  <2>3. CASE partner[d] # Nobody /\ at[partner[d]] \in {"pairing", "relaying"}
    <3>1. partner[d] \in Conn
      BY <2>3 DEF PlaceInv, Peer
    <3> QED
      BY <1>1, <2>3, <3>1
  <2> QED
    BY <2>2, <2>3
<1> QED
  BY <1>2, <1>3, <1>4 DEF StreamInv

-----------------------------------------------------------------------------
(***************************************************************************)
(* Every step preserves the invariant.                                     *)
(***************************************************************************)

(* The relay starts with no connection. *)
LEMMA InitIInv == Init => IInv
<1> SUFFICES ASSUME Init PROVE IInv
  OBVIOUS
<1>1. CountInv
  BY InitCounts
<1>2. PlaceInv
  <2>1. /\ dialled = 0 /\ hello = [c \in Conn |-> Nobody]
        /\ at = [c \in Conn |-> "unused"] /\ open = [c \in Conn |-> FALSE]
        /\ found = [c \in Conn |-> Nobody] /\ partner = [c \in Conn |-> Nobody]
    BY DEF Init
  <2>2. ASSUME NEW c \in Conn PROVE Placed(c)
    BY <2>1, Constants DEF Placed, Conn
  <2>3. dialled \in 0..MaxDials
    BY <2>1, Constants
  <2>4. /\ hello \in [Conn -> Hello \cup {Nobody}] /\ at \in [Conn -> Handlers]
        /\ open \in [Conn -> BOOLEAN]
        /\ found \in [Conn -> Peer] /\ partner \in [Conn -> Peer]
    BY <2>1 DEF Handlers, Peer
  <2>5. OwedInv
    BY DEF Init, OwedInv
  <2> QED
    BY <2>2, <2>3, <2>4, <2>5 DEF PlaceInv
<1>3. ControlInv
  BY Constants DEF Init, ControlInv, Registrations, Replacements, ServedControlRegistered, Peer
<1>4. StreamInv
  <2>1. /\ streams = [s \in Stream |-> Nobody] /\ timers = {} /\ stuck = FALSE /\ asked = {}
        /\ open = [c \in Conn |-> FALSE] /\ partner = [c \in Conn |-> Nobody]
    BY DEF Init
  <2> QED
    BY <2>1 DEF StreamInv, PairsMatch, OneHalf, Reachable
<1> QED
  BY <1>1, <1>2, <1>3, <1>4 DEF IInv

(* A handler that holds no half of a pending stream and no pair closes its  *)
(* own connection and ends.                                                 *)
LEMMA Leaves ==
  ASSUME IInv, NEW c \in Conn,
         at[c] \in {"handshake", "control", "greeting", "serving", "stream"},
         at[c] = "greeting" => OldClosed(c),
         Close({c}), at' = [at EXCEPT ![c] = "done"],
         UNCHANGED <<controls, streams, timers, stuck, agents, found, partner>>
  PROVE  IInv'
<1>1. /\ PlaceInv /\ CountInv /\ ControlInv /\ StreamInv
  BY DEF IInv
<1>2. /\ open' \in [Conn -> BOOLEAN]
      /\ \A d \in Conn : open'[d] <=> open[d] /\ d # c
      /\ owed' \subseteq Conn
      /\ \A d \in owed' : ~open'[d] /\ at[d] # "unused"
  BY <1>1, Closing
<1>3. Moves(c, "done") /\ "done" \in Handlers
  BY <1>2 DEF Moves, agents, Handlers
<1>4. CountInv'
  <2>1. \A d \in Conn : open'[d] => (Admitted(d)' <=> Admitted(d))
    BY <1>1, <1>2 DEF Admitted, PlaceInv
  <2> QED
    BY <1>1, <2>1, CloseCounts DEF agents
<1>5. PlaceInv'
  <2>1. /\ found' \in [Conn -> Peer] /\ partner' \in [Conn -> Peer]
        /\ \A d \in Conn : d # c /\ at[d] = "handshake" => open'[d]
        /\ \A d \in Conn : at[d] \in Early => partner'[d] = Nobody
        /\ partner' = partner
    BY <1>1, <1>2 DEF PlaceInv, Placed
  <2>2. "done" \in Handlers \ {"unused", "handshake"} /\ "done" \notin Early
    BY DEF Handlers, Early
  <2> QED
    BY <1>1, <1>3, <2>1, <2>2, MovePlaces
<1>6. ControlInv'
  <2>1. at[c] = "greeting" /\ found[c] # Nobody => ~open'[found[c]]
    <3>1. found[c] \in Peer
      BY <1>1 DEF PlaceInv
    <3> QED
      BY <1>2, <3>1 DEF OldClosed, Peer
  <2> QED
    BY <1>1, <1>3, <2>1, MoveControls
<1>7. StreamInv'
  <2>1. asked' \subseteq Stream
    BY <1>1 DEF StreamInv, agents
  <2> QED
    BY <1>1, <1>3, <2>1, MoveStreams
<1> QED
  BY <1>4, <1>5, <1>6, <1>7 DEF IInv

(* A handshake that fails. *)
LEMMA HandshakeFailsStep ==
  ASSUME IInv, NEW c \in Conn, HandshakeFails(c)
  PROVE  IInv'
BY Leaves DEF HandshakeFails

(* A control connection that cannot be greeted stays registered, closed. *)
LEMMA GreetFailsStep ==
  ASSUME IInv, NEW c \in Conn, GreetFails(c)
  PROVE  IInv'
BY Leaves DEF GreetFails

(* A half that is turned away was never parked. *)
LEMMA TurnAwayStep ==
  ASSUME IInv, NEW c \in Conn, TurnAway(c)
  PROVE  IInv'
BY Leaves DEF TurnAway

(* An authenticated connection goes on to its handler or is closed. *)
LEMMA AdmitStep ==
  ASSUME IInv, NEW c \in Conn, Admit(c)
  PROVE  IInv'
<1>1. /\ PlaceInv /\ CountInv /\ ControlInv /\ StreamInv
  BY DEF IInv
<1>2. CASE ~PairHasPlace(hello[c].pair)
  BY <1>2, Leaves DEF Admit
<1>3. CASE PairHasPlace(hello[c].pair)
  <2>1. PICK w \in {"control", "stream"} :
          /\ w = IF hello[c].stream = Nobody THEN "control" ELSE "stream"
          /\ at' = [at EXCEPT ![c] = w]
    BY <1>3 DEF Admit
  <2>2. /\ open' = open /\ owed' = owed /\ at[c] = "handshake"
        /\ UNCHANGED <<controls, streams, timers, stuck, agents, found, partner>>
    BY <1>3 DEF Admit
  <2>3. w \in Handlers \ {"unused", "handshake"} /\ w \in Early
    BY <2>1 DEF Handlers, Early
  <2>4. Moves(c, w)
    BY <1>1, <2>1, <2>2, OwesNoMore DEF Moves, agents
  <2>5. /\ hello[c] \in Hello
        /\ w = "stream" => hello[c].stream \in Stream
    BY <1>1, <2>1, <2>2 DEF PlaceInv, Placed, Hello
  <2>6. PlaceInv'
    <3>1. /\ found' \in [Conn -> Peer] /\ partner' \in [Conn -> Peer]
          /\ \A d \in Conn : at[d] = "handshake" => open'[d]
          /\ \A d \in Conn : at[d] \in Early => partner'[d] = Nobody
          /\ partner' = partner
      BY <1>1, <2>2 DEF PlaceInv, Placed
    <3>2. partner'[c] = Nobody
      BY <2>2, <3>1 DEF Early
    <3> QED
      BY <1>1, <2>1, <2>3, <2>4, <2>5, <3>1, <3>2, MovePlaces
  <2>7. ControlInv'
    BY <1>1, <2>1, <2>2, <2>3, <2>4, MoveControls
  <2>8. StreamInv'
    <3>1. asked' \subseteq Stream
      BY <1>1, <2>2 DEF StreamInv, agents
    <3> QED
      BY <1>1, <2>1, <2>2, <2>3, <2>4, <3>1, MoveStreams
  <2> QED
    BY <1>1, <2>6, <2>7, <2>8, AdmitCounts DEF IInv
<1> QED
  BY <1>2, <1>3

(* "ready" is written to a control connection. *)
LEMMA GreetStep ==
  ASSUME IInv, NEW c \in Conn, Greet(c)
  PROVE  IInv'
<1>1. /\ PlaceInv /\ CountInv /\ ControlInv /\ StreamInv
  BY DEF IInv
<1>2. /\ at[c] = "greeting" /\ at' = [at EXCEPT ![c] = "serving"] /\ OldClosed(c)
      /\ UNCHANGED <<counters, controls, streams, timers, stuck, agents, open, found, partner>>
  BY DEF Greet
<1>3. Moves(c, "serving") /\ "serving" \in Handlers \ {"unused", "handshake"}
  BY <1>1, <1>2, OwesNoMore DEF Moves, agents, Handlers, counters
<1>4. CountInv'
  <2>1. \A d \in Conn : open[d] => (Admitted(d)' <=> Admitted(d))
    BY <1>1, <1>2 DEF Admitted, PlaceInv
  <2> QED
    BY <1>1, <1>2, <2>1, CountsKept DEF agents
<1>5. PlaceInv'
  <2>1. /\ found' \in [Conn -> Peer] /\ partner' \in [Conn -> Peer]
        /\ \A d \in Conn : at[d] = "handshake" => open'[d]
        /\ \A d \in Conn : at[d] \in Early => partner'[d] = Nobody
        /\ partner' = partner
    BY <1>1, <1>2 DEF PlaceInv, Placed
  <2>2. partner'[c] = Nobody
    BY <1>2, <2>1 DEF Early
  <2> QED
    BY <1>1, <1>3, <2>1, <2>2, MovePlaces
<1>6. ControlInv'
  <2>1. found[c] # Nobody => ~open'[found[c]]
    BY <1>2 DEF OldClosed
  <2> QED
    BY <1>1, <1>2, <1>3, <2>1, MoveControls
<1>7. StreamInv'
  <2>1. asked' \subseteq Stream
    BY <1>1, <1>2 DEF StreamInv, agents
  <2> QED
    BY <1>1, <1>2, <1>3, <2>1, MoveStreams
<1> QED
  BY <1>4, <1>5, <1>6, <1>7 DEF IInv

(* A control connection takes its role's place and will close the one it    *)
(* found there.                                                             *)
LEMMA RegisterStep ==
  ASSUME IInv, NEW c \in Conn, Register(c)
  PROVE  IInv'
<1>1. /\ PlaceInv /\ CountInv /\ ControlInv /\ StreamInv
  BY DEF IInv
<1>2. /\ at[c] = "control" /\ at' = [at EXCEPT ![c] = "greeting"]
      /\ controls' = [controls EXCEPT ![hello[c].pair][hello[c].role] = c]
      /\ found' = [found EXCEPT ![c] = Registered(c)]
      /\ UNCHANGED <<counters, streams, timers, stuck, agents, open, partner>>
      /\ hello' = hello /\ open' = open /\ owed' = owed
  BY DEF Register, agents, counters
<1>3. /\ hello[c] \in Hello /\ hello[c].pair \in Pair /\ hello[c].role \in Role
  BY <1>1, <1>2 DEF PlaceInv, Placed, Hello
<1>p. PICK p \in Pair, r \in Role : p = hello[c].pair /\ r = hello[c].role
  BY <1>3
<1>4. /\ Registered(c) = controls[p][r] /\ controls[p][r] \in Peer
      /\ controls[p][r] # Nobody => at[controls[p][r]] \in {"greeting", "serving", "done"}
  BY <1>1, <1>p DEF Registered, ControlInv, Registrations
<1>5. /\ found' \in [Conn -> Peer] /\ found'[c] = controls[p][r]
      /\ \A d \in Conn : d # c => found'[d] = found[d]
  BY <1>1, <1>2, <1>4 DEF PlaceInv
<1>7. Moves(c, "greeting") /\ "greeting" \in Handlers \ {"unused", "handshake"}
  BY <1>1, <1>2, OwesNoMore DEF Moves, agents, Handlers
<1>8. /\ at'[c] = "greeting" /\ \A d \in Conn : d # c => at'[d] = at[d]
  BY <1>1, <1>7, Moved
<1>9. CountInv'
  <2>1. \A d \in Conn : open[d] => (Admitted(d)' <=> Admitted(d))
    BY <1>2, <1>8 DEF Admitted
  <2> QED
    BY <1>1, <1>2, <2>1, CountsKept
<1>10. PlaceInv'
  <2>1. /\ partner' \in [Conn -> Peer]
        /\ \A d \in Conn : at[d] = "handshake" => open'[d]
        /\ \A d \in Conn : at[d] \in Early => partner'[d] = Nobody
        /\ partner' = partner
    BY <1>1, <1>2 DEF PlaceInv, Placed
  <2>2. partner'[c] = Nobody
    BY <1>2, <2>1 DEF Early
  <2> QED
    BY <1>1, <1>5, <1>7, <2>1, <2>2, MovePlaces
<1>11. ControlInv'
  <2>1. /\ controls' \in [Pair -> [Role -> Peer]]
        /\ controls'[p][r] = c
        /\ \A q \in Pair, u \in Role : q # p \/ u # r => controls'[q][u] = controls[q][u]
    BY <1>1, <1>2, <1>p DEF ControlInv, Peer
  <2>2. Registrations'
    <3> SUFFICES ASSUME NEW q \in Pair, NEW u \in Role, controls'[q][u] # Nobody
                 PROVE  at'[controls'[q][u]] \in {"greeting", "serving", "done"}
      BY DEF Registrations
    <3>1. CASE q = p /\ u = r
      BY <1>8, <2>1, <3>1
    <3>2. CASE q # p \/ u # r
      <4>1. /\ controls'[q][u] = controls[q][u] /\ controls[q][u] \in Conn
            /\ at[controls[q][u]] \in {"greeting", "serving", "done"}
        BY <1>1, <2>1, <3>2 DEF ControlInv, Registrations, Peer
      <4> QED
        BY <1>2, <1>8, <4>1
    <3> QED
      BY <3>1, <3>2
  <2>3. ServedControlRegistered'
    <3> SUFFICES ASSUME NEW d \in Conn, open[d], at'[d] \in {"greeting", "serving"}
                 PROVE  \/ controls'[hello[d].pair][hello[d].role] = d
                        \/ \E e \in Conn : at'[e] = "greeting" /\ found'[e] = d
      BY <1>2 DEF ServedControlRegistered, Registered
    <3>1. CASE d = c
      BY <1>p, <2>1, <3>1
    <3>2. CASE d = controls[p][r]
      BY <1>5, <1>8, <3>2
    <3>3. CASE d # c /\ d # controls[p][r]
      <4>1. open[d] /\ at[d] \in {"greeting", "serving"}
        BY <1>8, <3>3
      <4>2. \/ controls[hello[d].pair][hello[d].role] = d
            \/ \E e \in Conn : at[e] = "greeting" /\ found[e] = d
        BY <1>1, <4>1 DEF ControlInv, ServedControlRegistered, Registered
      <4>3. hello[d].pair \in Pair /\ hello[d].role \in Role
        BY <1>1, <4>1 DEF PlaceInv, Placed, Hello
      <4>4. ASSUME NEW e \in Conn, at[e] = "greeting", found[e] = d
            PROVE  at'[e] = "greeting" /\ found'[e] = d
        BY <1>2, <1>5, <1>8, <4>4
      <4> QED
        BY <2>1, <3>3, <4>2, <4>3, <4>4
    <3> QED
      BY <3>1, <3>2, <3>3
  <2>4. Replacements'
    <3> SUFFICES ASSUME NEW d \in Conn, at'[d] = "greeting", found'[d] # Nobody
                 PROVE  at'[found'[d]] \in {"greeting", "serving", "done"}
      BY DEF Replacements
    <3>1. found'[d] \in Conn /\ at[found'[d]] \in {"greeting", "serving", "done"}
      <4>1. CASE d = c
        BY <1>4, <1>5, <4>1 DEF Peer
      <4>2. CASE d # c
        BY <1>1, <1>5, <1>8, <4>2 DEF ControlInv, Replacements, PlaceInv, Peer
      <4> QED
        BY <4>1, <4>2
    <3> QED
      BY <1>8, <3>1
  <2> QED
    BY <2>1, <2>2, <2>3, <2>4 DEF ControlInv
<1>12. StreamInv'
  <2>1. asked' \subseteq Stream
    BY <1>1, <1>2 DEF StreamInv, agents
  <2> QED
    BY <1>1, <1>2, <1>7, <2>1, MoveStreams
<1> QED
  BY <1>9, <1>10, <1>11, <1>12 DEF IInv

(* The connection that was replaced is past its handshake and closed. *)
LEMMA CloseOldStep ==
  ASSUME IInv, NEW c \in Conn, CloseOld(c)
  PROVE  IInv'
<1>1. /\ PlaceInv /\ CountInv /\ ControlInv /\ StreamInv
  BY DEF IInv
<1>2. /\ at[c] = "greeting" /\ found[c] # Nobody /\ Close({found[c]})
      /\ UNCHANGED <<controls, streams, timers, stuck, agents, at, found, partner>>
      /\ hello' = hello /\ at' = at
  BY DEF CloseOld, agents
<1>3. found[c] \in Conn /\ at[found[c]] \in {"greeting", "serving", "done"}
  BY <1>1, <1>2 DEF PlaceInv, Peer, ControlInv, Replacements
<1>4. {found[c]} \in SUBSET Conn
  BY <1>3
<1>5. /\ open' \in [Conn -> BOOLEAN]
      /\ \A d \in Conn : open'[d] <=> open[d] /\ d # found[c]
      /\ owed' \subseteq Conn
      /\ \A d \in owed' : ~open'[d] /\ at[d] # "unused"
  BY <1>1, <1>2, <1>4, Closing
<1>6. /\ Moves(c, "greeting") /\ "greeting" \in Handlers \ {"unused", "handshake"}
  <2>1. at' = [at EXCEPT ![c] = "greeting"]
    BY <1>1, <1>2 DEF PlaceInv
  <2> QED
    BY <1>2, <1>5, <2>1 DEF Moves, Handlers, agents
<1>7. CountInv'
  BY <1>1, <1>2, <1>4, CloseCounts DEF Admitted
<1>8. PlaceInv'
  <2>1. /\ found' \in [Conn -> Peer] /\ partner' \in [Conn -> Peer]
        /\ \A d \in Conn : at[d] = "handshake" => open'[d]
        /\ \A d \in Conn : at[d] \in Early => partner'[d] = Nobody
        /\ partner' = partner
    BY <1>1, <1>2, <1>3, <1>5 DEF PlaceInv, Placed
  <2>2. partner'[c] = Nobody
    BY <1>2, <2>1 DEF Early
  <2> QED
    BY <1>1, <1>6, <2>1, <2>2, MovePlaces
<1>9. ControlInv'
  BY <1>1, <1>2, <1>6, MoveControls
<1>10. StreamInv'
  <2>1. asked' \subseteq Stream
    BY <1>1, <1>2 DEF StreamInv, agents
  <2> QED
    BY <1>1, <1>2, <1>6, <2>1, MoveStreams
<1> QED
  BY <1>7, <1>8, <1>9, <1>10 DEF IInv

(* The place a closed connection's pair still had for it is given back. *)
LEMMA ReleasePairStep ==
  ASSUME IInv, NEW c \in Conn, ReleasePair(c)
  PROVE  IInv'
<1>1. /\ PlaceInv /\ CountInv /\ ControlInv /\ StreamInv
  BY DEF IInv
<1>2. /\ c \in owed /\ owed' = owed \ {c}
      /\ connectionsByPair' = [connectionsByPair EXCEPT ![hello[c].pair] = @ - 1]
      /\ UNCHANGED <<activeConnections, connectionsByIP, controls, streams, timers, stuck,
                     at, open, found, partner>>
      /\ UNCHANGED <<dialled, hello, asked>>
  BY DEF ReleasePair, agents
<1>3. ~open[c] /\ hello[c].pair \in Pair
  BY <1>1, <1>2 DEF PlaceInv, OwedInv, Placed, Hello
<1>p. PICK p \in Pair : p = hello[c].pair
  BY <1>3
<1>4. CountInv'
  <2>1. Opened' = Opened /\ \A a \in Address : OpenedFrom(a)' = OpenedFrom(a)
    BY <1>2 DEF Opened, OpenedFrom, Ip
  <2>2. /\ OpenedBy(p)' = OpenedBy(p) \ {c}
        /\ {c} \subseteq OpenedBy(p) /\ OpenedBy(p) \subseteq Conn
        /\ \A q \in Pair : q # p => OpenedBy(q)' = OpenedBy(q)
    BY <1>2, <1>3, <1>p DEF OpenedBy, Admitted
  <2>3. /\ Cardinality(OpenedBy(p)') = Cardinality(OpenedBy(p)) - 1
        /\ Cardinality(OpenedBy(p)') \in Nat
        /\ Cardinality(OpenedBy(p)') <= Cardinality(OpenedBy(p))
    <3>1. Cardinality({c}) = 1
      BY FS_Singleton
    <3> QED
      BY <2>2, <3>1, GivenBack
  <2>4. ASSUME NEW q \in Pair
        PROVE  /\ connectionsByPair'[q] = Cardinality(OpenedBy(q)')
               /\ connectionsByPair'[q] \in Nat
               /\ connectionsByPair'[q] <= MaxConnectionsPerPair
    <3>1. /\ connectionsByPair[q] = Cardinality(OpenedBy(q))
          /\ connectionsByPair[q] \in Nat
          /\ connectionsByPair[q] <= MaxConnectionsPerPair
      BY <1>1, Counting DEF CountInv
    <3>2. CASE q = p
      <4>1. connectionsByPair'[q] = connectionsByPair[q] - 1
        BY <1>1, <1>2, <1>p, <3>2 DEF CountInv
      <4> QED
        BY <2>3, <3>1, <3>2, <4>1, Constants
    <3>3. CASE q # p
      <4>1. connectionsByPair'[q] = connectionsByPair[q]
        BY <1>1, <1>2, <1>p, <3>3 DEF CountInv
      <4> QED
        BY <2>2, <3>1, <3>3, <4>1
    <3> QED
      BY <3>2, <3>3
  <2>5. PlacesCounted'
    BY <1>1, <1>2, <2>1, <2>4, Counting, CountingPrime DEF CountInv
  <2>6. connectionsByPair' \in [Pair -> Nat]
    BY <1>1, <1>2, <2>4 DEF CountInv
  <2> QED
    BY <1>1, <1>2, <2>5, <2>6 DEF CountInv
<1>5. PlaceInv'
  <2>1. \A d \in Conn : Placed(d)'
    BY <1>1, <1>2 DEF PlaceInv, Placed
  <2>2. OwedInv'
    BY <1>1, <1>2 DEF PlaceInv, OwedInv
  <2> QED
    BY <1>1, <1>2, <2>1, <2>2 DEF PlaceInv
<1>6. ControlInv'
  BY <1>1, <1>2 DEF ControlInv, Registrations, Replacements, ServedControlRegistered, Registered
<1>7. StreamInv'
  BY <1>1, <1>2 DEF StreamInv, PairsMatch, OneHalf, Half, HalfOf, Reachable
<1> QED
  BY <1>4, <1>5, <1>6, <1>7 DEF IInv

(* The clean-up of a control connection frees its role's place only if it   *)
(* is still its own.                                                        *)
LEMMA ControlEndsStep ==
  ASSUME IInv, NEW c \in Conn, ControlEnds(c)
  PROVE  IInv'
<1>1. /\ PlaceInv /\ CountInv /\ ControlInv /\ StreamInv
  BY DEF IInv
<1>2. /\ at[c] = "serving" /\ at' = [at EXCEPT ![c] = "done"]
      /\ controls' = [controls EXCEPT ![hello[c].pair][hello[c].role] =
                        IF @ = c THEN Nobody ELSE @]
      /\ Close({c})
      /\ UNCHANGED <<streams, timers, stuck, agents, found, partner>>
      /\ hello' = hello
  BY DEF ControlEnds, agents
<1>3. /\ hello[c] \in Hello /\ hello[c].pair \in Pair /\ hello[c].role \in Role
  BY <1>1, <1>2 DEF PlaceInv, Placed, Hello
<1>p. PICK p \in Pair, r \in Role : p = hello[c].pair /\ r = hello[c].role
  BY <1>3
<1>4. /\ open' \in [Conn -> BOOLEAN]
      /\ \A d \in Conn : open'[d] <=> open[d] /\ d # c
      /\ owed' \subseteq Conn
      /\ \A d \in owed' : ~open'[d] /\ at[d] # "unused"
  BY <1>1, <1>2, Closing
<1>5. Moves(c, "done") /\ "done" \in Handlers \ {"unused", "handshake"} /\ "done" \notin Early
  BY <1>2, <1>4 DEF Moves, agents, Handlers, Early
<1>6. /\ at'[c] = "done" /\ \A d \in Conn : d # c => at'[d] = at[d]
  BY <1>1, <1>5, Moved
<1>7. CountInv'
  <2>1. \A d \in Conn : open'[d] => (Admitted(d)' <=> Admitted(d))
    BY <1>4, <1>6 DEF Admitted
  <2> QED
    BY <1>1, <1>2, <2>1, CloseCounts
<1>8. PlaceInv'
  <2>1. /\ found' \in [Conn -> Peer] /\ partner' \in [Conn -> Peer]
        /\ \A d \in Conn : d # c /\ at[d] = "handshake" => open'[d]
        /\ \A d \in Conn : at[d] \in Early => partner'[d] = Nobody
        /\ partner' = partner
    BY <1>1, <1>2, <1>4 DEF PlaceInv, Placed
  <2> QED
    BY <1>1, <1>5, <2>1, MovePlaces
<1>9. ControlInv'
  <2>1. /\ controls' \in [Pair -> [Role -> Peer]]
        /\ controls'[p][r] = IF controls[p][r] = c THEN Nobody ELSE controls[p][r]
        /\ \A q \in Pair, u \in Role : q # p \/ u # r => controls'[q][u] = controls[q][u]
    BY <1>1, <1>2, <1>p DEF ControlInv, Peer
  <2>2. \A q \in Pair, u \in Role :
          controls'[q][u] = controls[q][u] \/ (controls'[q][u] = Nobody /\ controls[q][u] = c)
    BY <2>1
  <2>3. Registrations'
    <3> SUFFICES ASSUME NEW q \in Pair, NEW u \in Role, controls'[q][u] # Nobody
                 PROVE  at'[controls'[q][u]] \in {"greeting", "serving", "done"}
      BY DEF Registrations
    <3>1. /\ controls'[q][u] = controls[q][u] /\ controls[q][u] \in Conn
          /\ at[controls[q][u]] \in {"greeting", "serving", "done"}
      BY <1>1, <2>2 DEF ControlInv, Registrations, Peer
    <3> QED
      BY <1>6, <3>1
  <2>4. ServedControlRegistered'
    <3> SUFFICES ASSUME NEW d \in Conn, open'[d], at'[d] \in {"greeting", "serving"}
                 PROVE  \/ controls'[hello[d].pair][hello[d].role] = d
                        \/ \E e \in Conn : at'[e] = "greeting" /\ found'[e] = d
      BY <1>2 DEF ServedControlRegistered, Registered
    <3>1. open[d] /\ at[d] \in {"greeting", "serving"} /\ d # c
      BY <1>4, <1>6
    <3>2. \/ controls[hello[d].pair][hello[d].role] = d
          \/ \E e \in Conn : at[e] = "greeting" /\ found[e] = d
      BY <1>1, <3>1 DEF ControlInv, ServedControlRegistered, Registered
    <3>3. hello[d].pair \in Pair /\ hello[d].role \in Role
      BY <1>1, <3>1 DEF PlaceInv, Placed, Hello
    <3>4. ASSUME NEW e \in Conn, at[e] = "greeting", found[e] = d
          PROVE  at'[e] = "greeting" /\ found'[e] = d
      BY <1>2, <1>6, <3>4
    <3> QED
      BY <2>2, <3>1, <3>2, <3>3, <3>4
  <2>5. Replacements'
    <3> SUFFICES ASSUME NEW d \in Conn, at'[d] = "greeting", found[d] # Nobody
                 PROVE  at'[found[d]] \in {"greeting", "serving", "done"}
      BY <1>2 DEF Replacements
    <3>1. at[d] = "greeting"
      BY <1>6
    <3>2. found[d] \in Conn /\ at[found[d]] \in {"greeting", "serving", "done"}
      BY <1>1, <3>1 DEF ControlInv, Replacements, PlaceInv, Peer
    <3> QED
      BY <1>6, <3>2
  <2> QED
    BY <2>1, <2>3, <2>4, <2>5 DEF ControlInv
<1>10. StreamInv'
  <2>1. asked' \subseteq Stream
    BY <1>1, <1>2 DEF StreamInv, agents
  <2> QED
    BY <1>1, <1>2, <1>5, <2>1, MoveStreams
<1> QED
  BY <1>7, <1>8, <1>9, <1>10 DEF IInv

(* The peer of a parked half is told to open its own. *)
LEMMA NotifyStep ==
  ASSUME IInv, NEW c \in Conn, Notify(c)
  PROVE  IInv'
<1>1. /\ PlaceInv /\ CountInv /\ ControlInv /\ StreamInv
  BY DEF IInv
<1>2. /\ at[c] = "notify" /\ at' = [at EXCEPT ![c] = "waiting"]
      /\ UNCHANGED <<counters, controls, streams, timers, stuck, dialled, hello, open,
                     found, partner>>
      /\ asked' = IF hello[c].role = Forward[hello[c].stream].role
                  THEN asked \cup {hello[c].stream} ELSE asked
  BY DEF Notify
<1>3. /\ Moves(c, "waiting") /\ "waiting" \in Handlers \ {"unused", "handshake"}
      /\ "waiting" \notin Early
  BY <1>1, <1>2, OwesNoMore DEF Moves, Handlers, Early, counters
<1>4. hello[c].stream \in Stream
  BY <1>1, <1>2 DEF PlaceInv, Placed
<1>5. CountInv'
  <2>1. \A d \in Conn : open[d] => (Admitted(d)' <=> Admitted(d))
    BY <1>1, <1>2 DEF Admitted, PlaceInv
  <2> QED
    BY <1>1, <1>2, <2>1, CountsKept
<1>6. PlaceInv'
  <2>1. /\ found' \in [Conn -> Peer] /\ partner' \in [Conn -> Peer]
        /\ \A d \in Conn : at[d] = "handshake" => open'[d]
        /\ \A d \in Conn : at[d] \in Early => partner'[d] = Nobody
        /\ partner' = partner
    BY <1>1, <1>2 DEF PlaceInv, Placed
  <2> QED
    BY <1>1, <1>3, <1>4, <2>1, MovePlaces
<1>7. ControlInv'
  BY <1>1, <1>2, <1>3, MoveControls
<1>8. StreamInv'
  <2>1. asked' \subseteq Stream
    BY <1>1, <1>2, <1>4 DEF StreamInv
  <2> QED
    BY <1>1, <1>2, <1>3, <2>1, MoveStreams
<1> QED
  BY <1>5, <1>6, <1>7, <1>8 DEF IInv

(* Both halves are told and the bytes flow. *)
LEMMA StartRelayStep ==
  ASSUME IInv, NEW c \in Conn, StartRelay(c)
  PROVE  IInv'
<1>1. /\ PlaceInv /\ CountInv /\ ControlInv /\ StreamInv
  BY DEF IInv
<1>2. /\ at[c] = "pairing" /\ at' = [at EXCEPT ![c] = "relaying"]
      /\ UNCHANGED <<counters, controls, streams, timers, stuck, agents, open, found, partner>>
  BY DEF StartRelay
<1>3. /\ Moves(c, "relaying") /\ "relaying" \in Handlers \ {"unused", "handshake"}
      /\ "relaying" \notin Early
  BY <1>1, <1>2, OwesNoMore DEF Moves, Handlers, Early, agents, counters
<1>4. hello[c].stream \in Stream /\ partner[c] # Nobody
  BY <1>1, <1>2 DEF PlaceInv, Placed
<1>5. CountInv'
  <2>1. \A d \in Conn : open[d] => (Admitted(d)' <=> Admitted(d))
    BY <1>1, <1>2 DEF Admitted, PlaceInv
  <2> QED
    BY <1>1, <1>2, <2>1, CountsKept DEF agents
<1>6. PlaceInv'
  <2>1. /\ found' \in [Conn -> Peer] /\ partner' \in [Conn -> Peer]
        /\ \A d \in Conn : at[d] = "handshake" => open'[d]
        /\ \A d \in Conn : at[d] \in Early => partner'[d] = Nobody
        /\ partner' = partner
    BY <1>1, <1>2 DEF PlaceInv, Placed
  <2> QED
    BY <1>1, <1>3, <1>4, <2>1, MovePlaces
<1>7. ControlInv'
  BY <1>1, <1>2, <1>3, MoveControls
<1>8. StreamInv'
  <2>1. asked' \subseteq Stream
    BY <1>1, <1>2 DEF StreamInv, agents
  <2> QED
    BY <1>1, <1>2, <1>3, <2>1, MoveStreams
<1> QED
  BY <1>5, <1>6, <1>7, <1>8 DEF IInv

(* A handler that ends its pair closes both halves: its partner is past its *)
(* handshake, and nobody waits for a closed half.                           *)
LEMMA EndPairStep ==
  ASSUME IInv, NEW c \in Conn, EndPair(c)
  PROVE  IInv'
<1>1. /\ PlaceInv /\ CountInv /\ ControlInv /\ StreamInv
  BY DEF IInv
<1>2. /\ at[c] \in {"pairing", "relaying"} /\ at' = [at EXCEPT ![c] = "done"]
      /\ Close({c, partner[c]})
      /\ UNCHANGED <<controls, streams, timers, stuck, agents, found, partner>>
      /\ hello' = hello
  BY DEF EndPair, agents
<1>3. partner[c] # Nobody /\ partner[c] \in Conn
  BY <1>1, <1>2 DEF PlaceInv, Placed, Peer
<1>4. /\ open' \in [Conn -> BOOLEAN]
      /\ \A d \in Conn : open'[d] <=> open[d] /\ d # c /\ d # partner[c]
      /\ owed' \subseteq Conn
      /\ \A d \in owed' : ~open'[d] /\ at[d] # "unused"
  <2>1. {c, partner[c]} \in SUBSET Conn
    BY <1>3
  <2> QED
    BY <1>1, <1>2, <2>1, Closing
<1>5. Moves(c, "done") /\ "done" \in Handlers \ {"unused", "handshake"} /\ "done" \notin Early
  BY <1>2, <1>4 DEF Moves, agents, Handlers, Early
<1>6. /\ at'[c] = "done" /\ \A d \in Conn : d # c => at'[d] = at[d]
  BY <1>1, <1>5, Moved
<1>7. partner[partner[c]] = c /\ at[partner[c]] \notin Early
  <2>1. partner[partner[c]] = c
    BY <1>1, <1>3 DEF StreamInv, PairsMatch
  <2> QED
    BY <1>1, <1>3, <2>1, Constants DEF PlaceInv, Placed
<1>8. CountInv'
  <2>1. \A d \in Conn : open'[d] => (Admitted(d)' <=> Admitted(d))
    BY <1>4, <1>6 DEF Admitted
  <2>2. {c, partner[c]} \in SUBSET Conn
    BY <1>3
  <2> QED
    BY <1>1, <1>2, <2>1, <2>2, CloseCounts
<1>9. PlaceInv'
  <2>1. /\ found' \in [Conn -> Peer] /\ partner' \in [Conn -> Peer]
        /\ \A d \in Conn : at[d] = "handshake" => open[d]
        /\ \A d \in Conn : at[d] \in Early => partner'[d] = Nobody
        /\ partner' = partner
    BY <1>1, <1>2 DEF PlaceInv, Placed
  <2>2. \A d \in Conn : d # c /\ at[d] = "handshake" => open'[d]
    BY <1>4, <1>7, <2>1 DEF Early
  <2> QED
    BY <1>1, <1>5, <2>1, <2>2, MovePlaces
<1>10. ControlInv'
  BY <1>1, <1>2, <1>5, MoveControls
<1>11. StreamInv'
  <2>1. asked' \subseteq Stream
    BY <1>1, <1>2 DEF StreamInv, agents
  <2>2. \A d \in Conn : partner[d] = c => ~open'[d]
    <3> SUFFICES ASSUME NEW d \in Conn, partner[d] = c PROVE partner[c] = d
      BY <1>4
    <3> QED
      BY <1>1, Constants DEF StreamInv, PairsMatch
  <2> QED
    BY <1>1, <1>2, <1>5, <2>1, <2>2, MoveStreams
<1> QED
  BY <1>8, <1>9, <1>10, <1>11 DEF IInv

(* The halves of a pending stream: the one it has, and no other. *)
LEMMA TheHalf ==
  ASSUME StreamInv, NEW s \in Stream, streams[s] # Nobody
  PROVE  \E q \in Role : /\ Half(s, q) /\ streams[s] \in Pending
                         /\ \A r \in Role : streams[s][r] # Nobody => r = q
<1>1. PICK q \in Role : Half(s, q)
  BY DEF StreamInv, OneHalf
<1>2. \A r \in Role : r = q \/ r = peerRole(q)
  BY PeerRoles
<1>3. streams[s][peerRole(q)] = Nobody
  BY <1>1 DEF Half, HalfOf
<1> QED
  BY <1>1, <1>2, <1>3 DEF StreamInv

(* A connection is dialled: nothing refers to it yet. *)
LEMMA AcceptStep ==
  ASSUME IInv, NEW h \in Hello, Accept(h),
         h.stream # Nobody => h.pair = Forward[h.stream].pair
  PROVE  IInv'
<1>1. /\ PlaceInv /\ CountInv /\ ControlInv /\ StreamInv
  BY DEF IInv
<1>2. PICK c \in Conn : c = dialled + 1
  BY <1>1, Constants DEF Accept, PlaceInv, Conn
<1>3. /\ dialled' = c /\ hello' = [hello EXCEPT ![c] = h]
      /\ UNCHANGED <<controls, streams, timers, stuck, found, partner, asked>>
  BY <1>2 DEF Accept
<1>4. PICK w \in {"handshake", "done"} :
        /\ at' = [at EXCEPT ![c] = w]
        /\ open' = [open EXCEPT ![c] = (w = "handshake")]
  <2>1. CASE HasPlace(IP[h.pair][h.role])
    BY <1>2, <2>1 DEF Accept
  <2>2. CASE ~HasPlace(IP[h.pair][h.role])
    <3>1. /\ at' = [at EXCEPT ![c] = "done"] /\ open' = open
      BY <1>2, <2>2 DEF Accept
    <3>2. open[c] = FALSE
      BY <1>1, <1>2 DEF PlaceInv, Placed
    <3>3. open' = [open EXCEPT ![c] = FALSE]
      BY <1>1, <3>1, <3>2 DEF PlaceInv
    <3> QED
      BY <3>1, <3>3
  <2> QED
    BY <2>1, <2>2
<1>5. /\ at[c] = "unused" /\ ~open[c] /\ partner[c] = Nobody /\ c \notin owed
  BY <1>1, <1>2 DEF PlaceInv, OwedInv, Placed, Early
<1>6. /\ hello' \in [Conn -> Hello \cup {Nobody}] /\ hello'[c] = h
      /\ \A d \in Conn : d # c => hello'[d] = hello[d]
  BY <1>1, <1>3 DEF PlaceInv
<1>7. /\ at' \in [Conn -> Handlers] /\ at'[c] = w
      /\ \A d \in Conn : d # c => at'[d] = at[d]
  BY <1>1, <1>4 DEF PlaceInv, Handlers
<1>8. /\ open' \in [Conn -> BOOLEAN] /\ open'[c] = (w = "handshake")
      /\ \A d \in Conn : d # c => open'[d] = open[d]
  BY <1>1, <1>4 DEF PlaceInv
<1>9. PlaceInv'
  <2>1. ASSUME NEW d \in Conn PROVE Placed(d)'
    <3>1. CASE d = c
      <4>1. at'[d] = "handshake" \/ at'[d] = "done"
        BY <1>7, <3>1
      <4>2. ~(d > dialled')
        BY <1>3, <3>1 DEF Conn
      <4>3. /\ at'[d] = "handshake" => open'[d]
            /\ partner'[d] = Nobody
            /\ hello'[d] \in Hello
            /\ hello'[d].stream # Nobody => hello'[d].pair = Forward[hello'[d].stream].pair
        BY <1>3, <1>5, <1>6, <1>7, <1>8, <3>1
      <4> QED
        BY <4>1, <4>2, <4>3 DEF Placed
    <3>2. CASE d # c
      <4>1. /\ at'[d] = at[d] /\ open'[d] = open[d] /\ hello'[d] = hello[d]
            /\ partner'[d] = partner[d] /\ Placed(d)
        BY <1>1, <1>3, <1>6, <1>7, <1>8, <3>2 DEF PlaceInv
      <4>2. d > dialled <=> d > dialled'
        BY <1>1, <1>2, <1>3, <3>2, Constants DEF PlaceInv, Conn
      <4> QED
        BY <4>1, <4>2 DEF Placed
    <3> QED
      BY <3>1, <3>2
  <2>2. dialled' \in 0..MaxDials
    BY <1>3, Constants DEF Conn
  <2>3. found' \in [Conn -> Peer] /\ partner' \in [Conn -> Peer]
    BY <1>1, <1>3 DEF PlaceInv
  <2>4. OwedInv'
    <3>1. owed' = owed
      BY DEF Accept, counters
    <3>2. owed \subseteq Conn /\ \A d \in owed : ~open[d] /\ at[d] # "unused"
      BY <1>1 DEF PlaceInv, OwedInv
    <3>3. ASSUME NEW d \in owed PROVE ~open'[d] /\ at'[d] # "unused"
      BY <1>5, <1>7, <1>8, <3>2
    <3> QED
      BY <3>1, <3>2, <3>3 DEF OwedInv
  <2> QED
    BY <1>6, <1>7, <1>8, <2>1, <2>2, <2>3, <2>4 DEF PlaceInv
<1>10. ControlInv'
  <2>1. Registrations'
    <3> SUFFICES ASSUME NEW p \in Pair, NEW r \in Role, controls[p][r] # Nobody
                 PROVE  at'[controls[p][r]] \in {"greeting", "serving", "done"}
      BY <1>3 DEF Registrations
    <3>1. /\ controls[p][r] \in Conn
          /\ at[controls[p][r]] \in {"greeting", "serving", "done"}
      BY <1>1 DEF ControlInv, Registrations, Peer
    <3> QED
      BY <1>5, <1>7, <3>1
  <2>2. ServedControlRegistered'
    <3> SUFFICES ASSUME NEW d \in Conn, open'[d], at'[d] \in {"greeting", "serving"}
                 PROVE  Registered(d)' = d \/ \E e \in Conn : at'[e] = "greeting" /\ found'[e] = d
      BY DEF ServedControlRegistered
    <3>1. d # c /\ open[d] /\ at[d] \in {"greeting", "serving"}
      BY <1>7, <1>8
    <3>2. Registered(d)' = Registered(d)
      BY <1>3, <1>6, <3>1 DEF Registered
    <3>3. ASSUME NEW e \in Conn, at[e] = "greeting", found[e] = d
          PROVE  at'[e] = "greeting" /\ found'[e] = d
      BY <1>3, <1>5, <1>7, <3>3
    <3> QED
      BY <1>1, <3>1, <3>2, <3>3 DEF ControlInv, ServedControlRegistered
  <2>3. Replacements'
    <3> SUFFICES ASSUME NEW d \in Conn, at'[d] = "greeting", found[d] # Nobody
                 PROVE  at'[found[d]] \in {"greeting", "serving", "done"}
      BY <1>3 DEF Replacements
    <3>1. at[d] = "greeting"
      BY <1>7
    <3>2. found[d] \in Conn /\ at[found[d]] \in {"greeting", "serving", "done"}
      BY <1>1, <3>1 DEF ControlInv, Replacements, PlaceInv, Peer
    <3> QED
      BY <1>5, <1>7, <3>2
  <2> QED
    BY <1>1, <1>3, <2>1, <2>2, <2>3 DEF ControlInv
<1>11. StreamInv'
  <2>1. \A d \in Conn : partner[d] # Nobody => d # c /\ partner[d] # c /\ partner[d] \in Conn
    <3> SUFFICES ASSUME NEW d \in Conn, partner[d] # Nobody
                 PROVE  d # c /\ partner[d] # c /\ partner[d] \in Conn
      OBVIOUS
    <3>1. partner[d] \in Conn
      BY <1>1 DEF PlaceInv, Peer
    <3>2. partner[partner[d]] = d
      BY <1>1 DEF StreamInv, PairsMatch
    <3> QED
      BY <1>5, <3>1, <3>2, Constants
  <2>2. PairsMatch'
    <3> SUFFICES ASSUME NEW d \in Conn, partner[d] # Nobody
                 PROVE  /\ partner[partner[d]] = d
                        /\ hello'[partner[d]] = [hello'[d] EXCEPT !.role = peerRole(@)]
      BY <1>3 DEF PairsMatch
    <3>1. hello'[d] = hello[d] /\ hello'[partner[d]] = hello[partner[d]]
      BY <1>6, <2>1
    <3> QED
      BY <1>1, <3>1 DEF StreamInv, PairsMatch
  <2>3. ASSUME NEW s \in Stream PROVE OneHalf(s)'
    <3> SUFFICES ASSUME streams[s] # Nobody PROVE \E r \in Role : Half(s, r)'
      BY <1>3 DEF OneHalf
    <3>1. PICK r \in Role : Half(s, r)
      BY <1>1 DEF StreamInv, OneHalf
    <3>2. streams[s][r] \in Conn /\ streams[s][r] # c
      BY <1>5, <3>1 DEF Half, HalfOf
    <3>3. Half(s, r)'
      BY <1>3, <1>6, <1>7, <3>1, <3>2 DEF Half, HalfOf
    <3> QED
      BY <3>3
  <2>4. ASSUME NEW d \in Conn PROVE Reachable(d)'
    <3> SUFFICES ASSUME open'[d], at'[d] \in {"notify", "waiting"}, ~stuck
                 PROVE  \/ streams[hello'[d].stream] # Nobody /\ streams[hello'[d].stream][hello'[d].role] = d
                        \/ partner[d] # Nobody /\ at'[partner[d]] \in {"pairing", "relaying"}
      BY <1>3 DEF Reachable
    <3>1. d # c /\ hello'[d] = hello[d] /\ open[d] /\ at[d] \in {"notify", "waiting"}
      BY <1>6, <1>7, <1>8
    <3>2. \/ streams[hello[d].stream] # Nobody /\ streams[hello[d].stream][hello[d].role] = d
          \/ partner[d] # Nobody /\ at[partner[d]] \in {"pairing", "relaying"}
      BY <1>1, <3>1 DEF StreamInv, Reachable
    <3> QED
      BY <1>7, <2>1, <3>1, <3>2
  <2> QED
    BY <1>1, <1>3, <2>2, <2>3, <2>4 DEF StreamInv
<1> QED
  BY <1>1, <1>9, <1>10, <1>11, AcceptCounts DEF IInv

(* What the agents dial: controls and the two halves of their own streams. *)
LEMMA DialStep ==
  ASSUME IInv, Dial
  PROVE  IInv'
<1>1. ASSUME NEW p \in Pair, NEW r \in Role, DialControl(p, r) PROVE IInv'
  <2> DEFINE h == [pair |-> p, role |-> r, stream |-> Nobody]
  <2>1. h \in Hello /\ h.stream = Nobody
    BY DEF Hello
  <2>2. Accept(h)
    BY <1>1 DEF DialControl
  <2> QED
    BY <2>1, <2>2, AcceptStep
<1>2. ASSUME NEW s \in Stream, NEW r \in Role,
             Accept([pair |-> Forward[s].pair, role |-> r, stream |-> s])
      PROVE  IInv'
  <2> DEFINE h == [pair |-> Forward[s].pair, role |-> r, stream |-> s]
  <2>1. h \in Hello /\ h.pair = Forward[h.stream].pair
    BY Forwards DEF Hello
  <2> QED
    BY <1>2, <2>1, AcceptStep
<1>3. ASSUME NEW s \in Stream, OpenForward(s) PROVE IInv'
  BY <1>2, <1>3, Forwards DEF OpenForward
<1>4. ASSUME NEW s \in Stream, OpenTarget(s) PROVE IInv'
  <2>1. peerRole(Forward[s].role) \in Role
    BY Forwards, PeerRoles
  <2> QED
    BY <1>2, <1>4, <2>1 DEF OpenTarget
<1> QED
  BY <1>1, <1>3, <1>4 DEF Dial

(* A half is parked: its stream was not pending, for a pending stream has a *)
(* half on one side or the other.                                           *)
LEMMA ParkStep ==
  ASSUME IInv, NEW c \in Conn, Park(c)
  PROVE  IInv'
<1>1. /\ PlaceInv /\ CountInv /\ ControlInv /\ StreamInv
  BY DEF IInv
<1>2. /\ at[c] = "stream" /\ at' = [at EXCEPT ![c] = "notify"] /\ ~Turned(c)
      /\ UNCHANGED <<counters, controls, stuck, agents, open, partner>>
      /\ hello' = hello /\ open' = open /\ partner' = partner
  BY DEF Park, agents
<1>3. /\ hello[c].stream \in Stream /\ hello[c].role \in Role /\ partner[c] = Nobody
      /\ hello[c].pair \in Pair
  BY <1>1, <1>2 DEF PlaceInv, Placed, Hello, Early
<1>p. PICK s \in Stream, r \in Role : s = hello[c].stream /\ r = hello[c].role
  BY <1>3
<1>r. /\ peerRole(r) \in Role /\ peerRole(r) # r
      /\ \A q \in Role : q = r \/ q = peerRole(r)
  BY PeerRoles
<1> DEFINE new == [requester |-> Nobody, provider |-> Nobody,
                   target |-> Forward[s].target, by |-> c]
           made == IF streams[s] = Nobody THEN new ELSE streams[s]
<1>4. /\ made[peerRole(r)] = Nobody
      /\ streams' = [streams EXCEPT ![s] = [made EXCEPT ![r] = c]]
      /\ timers' = IF streams[s] = Nobody THEN timers \cup {<<s, c>>} ELSE timers
      /\ found' = [found EXCEPT ![c] = controls[hello[c].pair][peerRole(r)]]
  BY <1>p DEF Park
<1>5. streams[s] = Nobody
  <2> SUFFICES ASSUME streams[s] # Nobody PROVE FALSE
    OBVIOUS
  <2>1. streams[s][r] = Nobody
    BY <1>2, <1>p DEF Turned
  <2>2. streams[s][peerRole(r)] = Nobody
    BY <1>4
  <2>3. PICK q \in Role : Half(s, q)
    BY <1>1 DEF StreamInv, OneHalf
  <2>4. streams[s][q] \in Conn
    BY <2>3 DEF Half, HalfOf
  <2> QED
    BY <1>r, <2>1, <2>2, <2>4, Constants
<1> DEFINE m == [new EXCEPT ![r] = c]
<1>6. streams' = [streams EXCEPT ![s] = m]
  BY <1>4, <1>5
<1>7. /\ m \in Pending /\ m[r] = c /\ m[peerRole(r)] = Nobody
  <2>1. Forward[s].target \in Target
    BY Forwards
  <2>2. CASE r = "requester"
    <3>1. m = [requester |-> c, provider |-> Nobody, target |-> Forward[s].target, by |-> c]
      BY <2>2
    <3> QED
      BY <2>1, <2>2, <3>1 DEF Pending, Peer, peerRole
  <2>3. CASE r = "provider"
    <3>1. m = [requester |-> Nobody, provider |-> c, target |-> Forward[s].target, by |-> c]
      BY <2>3
    <3> QED
      BY <2>1, <2>3, <3>1 DEF Pending, Peer, peerRole
  <2> QED
    BY <2>2, <2>3 DEF Role
<1> HIDE DEF m, new, made
<1>8. /\ streams' \in [Stream -> Pending \cup {Nobody}] /\ streams'[s] = m /\ m # Nobody
      /\ \A t \in Stream : t # s => streams'[t] = streams[t]
  BY <1>1, <1>6, <1>7, Constants DEF StreamInv
<1>9. timers' \subseteq Stream \X Conn /\ found' \in [Conn -> Peer]
  <2>1. timers' = timers \cup {<<s, c>>}
    BY <1>4, <1>5
  <2>2. controls[hello[c].pair][peerRole(r)] \in Peer
    BY <1>1, <1>3, <1>r DEF ControlInv
  <2>3. found' \in [Conn -> Peer]
    BY <1>1, <1>4, <2>2 DEF PlaceInv
  <2> QED
    BY <1>1, <2>1, <2>3 DEF StreamInv
<1>10. /\ Moves(c, "notify") /\ "notify" \in Handlers \ {"unused", "handshake"}
       /\ "notify" \notin Early
  BY <1>1, <1>2, OwesNoMore DEF Moves, Handlers, Early, agents, counters
<1>11. /\ at'[c] = "notify" /\ \A d \in Conn : d # c => at'[d] = at[d]
  BY <1>1, <1>10, Moved
<1>12. CountInv'
  <2>1. \A d \in Conn : open[d] => (Admitted(d)' <=> Admitted(d))
    BY <1>2, <1>11 DEF Admitted
  <2> QED
    BY <1>1, <1>2, <2>1, CountsKept
<1>13. PlaceInv'
  <2>1. /\ partner' \in [Conn -> Peer]
        /\ \A d \in Conn : at[d] = "handshake" => open'[d]
        /\ \A d \in Conn : at[d] \in Early => partner'[d] = Nobody
    BY <1>1, <1>2 DEF PlaceInv, Placed
  <2> QED
    BY <1>1, <1>2, <1>3, <1>9, <1>10, <2>1, MovePlaces
<1>14. ControlInv'
  <2>1. \A d \in Conn : at[d] = "greeting" => found'[d] = found[d]
    BY <1>1, <1>2, <1>4 DEF PlaceInv
  <2> QED
    BY <1>1, <1>2, <1>10, <2>1, MoveControls
<1>15. StreamInv'
  <2>1. PairsMatch'
    BY <1>1, <1>2 DEF StreamInv, PairsMatch
  <2>2. ASSUME NEW t \in Stream PROVE OneHalf(t)'
    <3>1. CASE t = s
      <4>1. Half(s, r)'
        BY <1>2, <1>3, <1>7, <1>8, <1>11, <1>p DEF Half, HalfOf
      <4> QED
        BY <3>1, <4>1 DEF OneHalf
    <3>2. CASE t # s
      <4> SUFFICES ASSUME streams[t] # Nobody PROVE \E q \in Role : Half(t, q)'
        BY <1>8, <3>2 DEF OneHalf
      <4>1. PICK q \in Role : Half(t, q)
        BY <1>1 DEF StreamInv, OneHalf
      <4>2. streams[t][q] \in Conn /\ streams[t][q] # c /\ streams'[t] = streams[t]
        BY <1>8, <1>p, <3>2, <4>1 DEF Half, HalfOf
      <4>3. Half(t, q)'
        BY <1>2, <1>11, <4>1, <4>2 DEF Half, HalfOf
      <4> QED
        BY <4>3
    <3> QED
      BY <3>1, <3>2
  <2>3. ASSUME NEW d \in Conn PROVE Reachable(d)'
    <3> SUFFICES ASSUME open[d], at'[d] \in {"notify", "waiting"}, ~stuck
                 PROVE  \/ streams'[hello[d].stream] # Nobody /\ streams'[hello[d].stream][hello[d].role] = d
                        \/ partner[d] # Nobody /\ at'[partner[d]] \in {"pairing", "relaying"}
      BY <1>2 DEF Reachable
    <3>1. CASE d = c
      BY <1>7, <1>8, <1>p, <3>1
    <3>2. CASE d # c
      <4>1. at[d] \in {"notify", "waiting"} /\ hello[d].stream \in Stream
        BY <1>1, <1>11, <3>2 DEF PlaceInv, Placed
      <4>2. CASE streams[hello[d].stream] # Nobody /\ streams[hello[d].stream][hello[d].role] = d
        BY <1>5, <1>8, <4>1, <4>2
      <4>3. CASE partner[d] # Nobody /\ at[partner[d]] \in {"pairing", "relaying"}
        <5>1. partner[d] \in Conn /\ partner[d] # c
          BY <1>1, <1>2, <4>3 DEF PlaceInv, Peer
        <5> QED
          BY <1>11, <4>3, <5>1
      <4> QED
        BY <1>1, <4>1, <4>2, <4>3 DEF StreamInv, Reachable
    <3> QED
      BY <3>1, <3>2
  <2>4. stuck' \in BOOLEAN /\ asked' \subseteq Stream
    BY <1>1, <1>2 DEF StreamInv, agents
  <2> QED
    BY <1>8, <1>9, <2>1, <2>2, <2>3, <2>4 DEF StreamInv
<1> QED
  BY <1>12, <1>13, <1>14, <1>15 DEF IInv

(* The second half finds the first, which is the other side of its stream   *)
(* and so of its pair, and has no partner.                                  *)
LEMMA JoinStep ==
  ASSUME IInv, NEW c \in Conn, Join(c)
  PROVE  IInv'
<1>1. /\ PlaceInv /\ CountInv /\ ControlInv /\ StreamInv
  BY DEF IInv
<1>2. /\ at[c] = "stream" /\ at' = [at EXCEPT ![c] = "pairing"]
      /\ UNCHANGED <<counters, controls, timers, stuck, agents, open, found>>
      /\ hello' = hello /\ open' = open
  BY DEF Join, agents
<1>3. /\ hello[c].stream \in Stream /\ hello[c].role \in Role /\ partner[c] = Nobody
      /\ hello[c] \in Hello /\ hello[c].pair = Forward[hello[c].stream].pair
  BY <1>1, <1>2, Constants DEF PlaceInv, Placed, Hello, Early
<1>p. PICK s \in Stream, r \in Role : s = hello[c].stream /\ r = hello[c].role
  BY <1>3
<1>r. /\ peerRole(r) \in Role /\ peerRole(r) # r /\ peerRole(peerRole(r)) = r
      /\ \A q \in Role : q = r \/ q = peerRole(r)
  BY PeerRoles
<1>4. /\ streams[s] # Nobody /\ streams[s][peerRole(r)] # Nobody
      /\ partner' = [partner EXCEPT ![c] = streams[s][peerRole(r)],
                                    ![streams[s][peerRole(r)]] = c]
      /\ streams' = [streams EXCEPT ![s] = Nobody]
  BY <1>p DEF Join
<1>5. Half(s, peerRole(r))
  <2>1. PICK q \in Role : /\ Half(s, q)
                          /\ \A u \in Role : streams[s][u] # Nobody => u = q
    BY <1>1, <1>4, TheHalf
  <2>2. q = peerRole(r)
    BY <1>4, <1>r, <2>1
  <2> QED
    BY <2>1, <2>2
<1>d. PICK d \in Conn : d = streams[s][peerRole(r)]
  BY <1>5 DEF Half, HalfOf
<1>6. /\ at[d] \in {"notify", "waiting"} /\ partner[d] = Nobody
      /\ hello[d].stream = s /\ hello[d].role = peerRole(r)
      /\ streams[s][r] = Nobody /\ d # c
  BY <1>2, <1>5, <1>d, <1>r DEF Half, HalfOf
<1>7. /\ partner' \in [Conn -> Peer] /\ partner'[c] = d /\ partner'[d] = c
      /\ \A e \in Conn : e # c /\ e # d => partner'[e] = partner[e]
  BY <1>1, <1>4, <1>6, <1>d DEF PlaceInv, Peer
<1>8. /\ streams' \in [Stream -> Pending \cup {Nobody}] /\ streams'[s] = Nobody
      /\ \A t \in Stream : t # s => streams'[t] = streams[t]
  BY <1>1, <1>4 DEF StreamInv
<1>9. /\ hello[d] = [hello[c] EXCEPT !.role = peerRole(@)]
      /\ hello[c] = [hello[d] EXCEPT !.role = peerRole(@)]
  <2>1. /\ hello[d] \in Hello /\ hello[d].pair = Forward[s].pair
    BY <1>1, <1>6, Constants DEF PlaceInv, Placed
  <2>2. /\ hello[c] \in Hello /\ hello[c].pair = Forward[s].pair
        /\ hello[c].stream = s /\ hello[c].role = r
    BY <1>3, <1>p
  <2> QED
    BY <1>6, <1>r, <2>1, <2>2 DEF Hello
<1>10. /\ Moves(c, "pairing") /\ "pairing" \in Handlers \ {"unused", "handshake"}
       /\ "pairing" \notin Early
  BY <1>1, <1>2, OwesNoMore DEF Moves, Handlers, Early, agents, counters
<1>11. /\ at'[c] = "pairing" /\ \A e \in Conn : e # c => at'[e] = at[e]
  BY <1>1, <1>10, Moved
<1>12. CountInv'
  <2>1. \A e \in Conn : open[e] => (Admitted(e)' <=> Admitted(e))
    BY <1>2, <1>11 DEF Admitted
  <2> QED
    BY <1>1, <1>2, <2>1, CountsKept
<1>13. PlaceInv'
  <2>1. /\ found' \in [Conn -> Peer]
        /\ \A e \in Conn : at[e] = "handshake" => open'[e]
        /\ \A e \in Conn : at[e] \in Early => partner[e] = Nobody
    BY <1>1, <1>2 DEF PlaceInv, Placed
  <2>2. \A e \in Conn : e # c /\ at[e] \in Early => partner'[e] = Nobody
    BY <1>6, <1>7, <2>1 DEF Early
  <2>3. \A e \in Conn : e # c /\ partner'[e] = Nobody => partner[e] = Nobody
    BY <1>6, <1>7
  <2>4. partner'[c] # Nobody
    BY <1>7, Constants
  <2> QED
    BY <1>1, <1>3, <1>7, <1>10, <2>1, <2>2, <2>3, <2>4, MovePlaces
<1>14. ControlInv'
  BY <1>1, <1>2, <1>10, MoveControls
<1>15. StreamInv'
  <2>1. PairsMatch'
    <3> SUFFICES ASSUME NEW e \in Conn, partner'[e] # Nobody
                 PROVE  /\ partner'[partner'[e]] = e
                        /\ hello[partner'[e]] = [hello[e] EXCEPT !.role = peerRole(@)]
      BY <1>2 DEF PairsMatch
    <3>1. CASE e = c
      BY <1>7, <1>9, <3>1
    <3>2. CASE e = d
      BY <1>7, <1>9, <3>2
    <3>3. CASE e # c /\ e # d
      <4>1. partner'[e] = partner[e] /\ partner[e] \in Conn
        BY <1>1, <1>7, <3>3 DEF PlaceInv, Peer
      <4>2. /\ partner[partner[e]] = e
            /\ hello[partner[e]] = [hello[e] EXCEPT !.role = peerRole(@)]
        BY <1>1, <4>1, Constants DEF StreamInv, PairsMatch
      <4>3. partner[e] # c /\ partner[e] # d
        BY <1>3, <1>6, <4>2, Constants
      <4> QED
        BY <1>7, <4>1, <4>2, <4>3
    <3> QED
      BY <3>1, <3>2, <3>3
  <2>2. ASSUME NEW t \in Stream PROVE OneHalf(t)'
    <3> SUFFICES ASSUME streams'[t] # Nobody PROVE \E q \in Role : Half(t, q)'
      BY DEF OneHalf
    <3>1. t # s /\ streams'[t] = streams[t]
      BY <1>8
    <3>2. PICK q \in Role : Half(t, q)
      BY <1>1, <3>1 DEF StreamInv, OneHalf
    <3>3. streams[t][q] \in Conn /\ streams[t][q] # c /\ streams[t][q] # d
      BY <1>6, <1>p, <3>1, <3>2 DEF Half, HalfOf
    <3>4. Half(t, q)'
      BY <1>2, <1>7, <1>11, <3>1, <3>2, <3>3 DEF Half, HalfOf
    <3> QED
      BY <3>4
  <2>3. ASSUME NEW e \in Conn PROVE Reachable(e)'
    <3> SUFFICES ASSUME open[e], at'[e] \in {"notify", "waiting"}, ~stuck
                 PROVE  \/ streams'[hello[e].stream] # Nobody /\ streams'[hello[e].stream][hello[e].role] = e
                        \/ partner'[e] # Nobody /\ at'[partner'[e]] \in {"pairing", "relaying"}
      BY <1>2 DEF Reachable
    <3>1. CASE e = d
      BY <1>7, <1>11, <3>1, Constants
    <3>2. CASE e # d
      <4>1. /\ e # c /\ at[e] \in {"notify", "waiting"}
            /\ hello[e].stream \in Stream /\ hello[e].role \in Role
        BY <1>1, <1>11 DEF PlaceInv, Placed, Hello
      <4>2. CASE streams[hello[e].stream] # Nobody /\ streams[hello[e].stream][hello[e].role] = e
        <5>1. hello[e].stream # s
          BY <1>6, <1>d, <1>r, <3>2, <4>1, <4>2, Constants
        <5> QED
          BY <1>8, <4>1, <4>2, <5>1
      <4>3. CASE partner[e] # Nobody /\ at[partner[e]] \in {"pairing", "relaying"}
        <5>1. partner[e] \in Conn /\ partner[e] # c /\ partner'[e] = partner[e]
          BY <1>1, <1>2, <1>7, <3>2, <4>1, <4>3 DEF PlaceInv, Peer
        <5> QED
          BY <1>11, <4>3, <5>1
      <4> QED
        BY <1>1, <4>1, <4>2, <4>3 DEF StreamInv, Reachable
    <3> QED
      BY <3>1, <3>2
  <2>4. stuck' \in BOOLEAN /\ asked' \subseteq Stream /\ timers' \subseteq Stream \X Conn
    BY <1>1, <1>2 DEF StreamInv, agents
  <2> QED
    BY <1>8, <2>1, <2>2, <2>3, <2>4 DEF StreamInv
<1> QED
  BY <1>12, <1>13, <1>14, <1>15 DEF IInv

(* A half whose peer cannot be notified leaves, and takes its stream off    *)
(* the table unless the stream has been joined meanwhile.                   *)
LEMMA NotifyFailsStep ==
  ASSUME IInv, NEW c \in Conn, NotifyFails(c)
  PROVE  IInv'
<1>1. /\ PlaceInv /\ CountInv /\ ControlInv /\ StreamInv
  BY DEF IInv
<1>2. /\ at[c] = "notify" /\ at' = [at EXCEPT ![c] = "done"]
      /\ RemoveStream(hello[c].stream, c) /\ Close({c})
      /\ UNCHANGED <<controls, timers, stuck, agents, found, partner>>
      /\ hello' = hello
  BY DEF NotifyFails, agents
<1>p. PICK s \in Stream : s = hello[c].stream
  BY <1>1, <1>2 DEF PlaceInv, Placed
<1>3. /\ open' \in [Conn -> BOOLEAN]
      /\ \A d \in Conn : open'[d] <=> open[d] /\ d # c
      /\ owed' \subseteq Conn
      /\ \A d \in owed' : ~open'[d] /\ at[d] # "unused"
  BY <1>1, <1>2, Closing
<1>4. Moves(c, "done") /\ "done" \in Handlers \ {"unused", "handshake"} /\ "done" \notin Early
  BY <1>2, <1>3 DEF Moves, agents, Handlers, Early
<1>5. /\ at'[c] = "done" /\ \A d \in Conn : d # c => at'[d] = at[d]
  BY <1>1, <1>4, Moved
<1>6. CountInv'
  <2>1. \A d \in Conn : open'[d] => (Admitted(d)' <=> Admitted(d))
    BY <1>3, <1>5 DEF Admitted
  <2> QED
    BY <1>1, <1>2, <2>1, CloseCounts
<1>7. PlaceInv'
  <2>1. /\ found' \in [Conn -> Peer] /\ partner' \in [Conn -> Peer]
        /\ \A d \in Conn : d # c /\ at[d] = "handshake" => open'[d]
        /\ \A d \in Conn : at[d] \in Early => partner'[d] = Nobody
        /\ partner' = partner
    BY <1>1, <1>2, <1>3 DEF PlaceInv, Placed
  <2> QED
    BY <1>1, <1>4, <2>1, MovePlaces
<1>8. ControlInv'
  BY <1>1, <1>2, <1>4, MoveControls
<1>9. StreamInv'
  <2>1. /\ streams' \in [Stream -> Pending \cup {Nobody}]
        /\ \A t \in Stream : streams'[t] # Nobody => streams'[t] = streams[t]
        /\ \A t \in Stream : t # s => streams'[t] = streams[t]
    BY <1>1, <1>2, <1>p DEF RemoveStream, StreamInv
  <2>2. ASSUME NEW r \in Role, streams[s] # Nobody, streams[s][r] = c
        PROVE  streams'[s] = Nobody
    <3>1. c \in {streams[s].requester, streams[s].provider}
      BY <2>2 DEF Role
    <3> QED
      BY <1>1, <1>2, <1>p, <2>2, <3>1 DEF RemoveStream, StreamInv
  <2>3. ASSUME streams[s] # Nobody, streams'[s] = Nobody
        PROVE  \A r \in Role : streams[s][r] \in {c, Nobody}
    <3>1. c \in {streams[s].requester, streams[s].provider}
      BY <1>2, <1>p, <2>3 DEF RemoveStream
    <3>2. PICK q \in Role : \A r \in Role : streams[s][r] # Nobody => r = q
      BY <1>1, <2>3, TheHalf
    <3>3. PICK u \in Role : streams[s][u] = c
      BY <3>1 DEF Role
    <3> QED
      BY <3>2, <3>3, Constants
  <2>4. PairsMatch'
    BY <1>1, <1>2 DEF StreamInv, PairsMatch
  <2>5. ASSUME NEW t \in Stream PROVE OneHalf(t)'
    <3> SUFFICES ASSUME streams'[t] # Nobody PROVE \E q \in Role : Half(t, q)'
      BY DEF OneHalf
    <3>1. streams'[t] = streams[t]
      BY <2>1
    <3>2. PICK q \in Role : Half(t, q)
      BY <1>1, <3>1 DEF StreamInv, OneHalf
    <3>3. streams[t][q] \in Conn /\ streams[t][q] # c
      <4> SUFFICES ASSUME streams[t][q] = c PROVE FALSE
        BY <3>2 DEF Half, HalfOf
      <4>1. t = s
        BY <1>p, <3>2 DEF Half, HalfOf
      <4> QED
        BY <2>2, <3>1, <4>1
    <3>4. Half(t, q)'
      BY <1>2, <1>5, <3>1, <3>2, <3>3 DEF Half, HalfOf
    <3> QED
      BY <3>4
  <2>6. ASSUME NEW d \in Conn PROVE Reachable(d)'
    <3> SUFFICES ASSUME open'[d], at'[d] \in {"notify", "waiting"}, ~stuck
                 PROVE  \/ streams'[hello[d].stream] # Nobody /\ streams'[hello[d].stream][hello[d].role] = d
                        \/ partner[d] # Nobody /\ at'[partner[d]] \in {"pairing", "relaying"}
      BY <1>2 DEF Reachable
    <3>1. /\ d # c /\ open[d] /\ at[d] \in {"notify", "waiting"}
          /\ hello[d].stream \in Stream /\ hello[d].role \in Role
      BY <1>1, <1>3, <1>5 DEF PlaceInv, Placed, Hello
    <3>2. CASE streams[hello[d].stream] # Nobody /\ streams[hello[d].stream][hello[d].role] = d
      <4>1. CASE hello[d].stream # s
        BY <2>1, <3>1, <3>2, <4>1
      <4>2. CASE hello[d].stream = s
        <5>1. streams'[s] # Nobody
          BY <2>3, <3>1, <3>2, <4>2, Constants
        <5> QED
          BY <2>1, <3>2, <4>2, <5>1
      <4> QED
        BY <4>1, <4>2
    <3>3. CASE partner[d] # Nobody /\ at[partner[d]] \in {"pairing", "relaying"}
      <4>1. partner[d] \in Conn /\ partner[d] # c
        BY <1>1, <1>2, <3>3 DEF PlaceInv, Peer
      <4> QED
        BY <1>5, <3>3, <4>1
    <3> QED
      BY <1>1, <3>1, <3>2, <3>3 DEF StreamInv, Reachable
  <2>7. stuck' \in BOOLEAN /\ asked' \subseteq Stream /\ timers' \subseteq Stream \X Conn
    BY <1>1, <1>2 DEF StreamInv, agents
  <2> QED
    BY <2>1, <2>4, <2>5, <2>6, <2>7 DEF StreamInv
<1> QED
  BY <1>6, <1>7, <1>8, <1>9 DEF IInv

(* A timer that removes its stream is the one that never returns: no half   *)
(* is promised anything any more.  The others change nothing else.          *)
LEMMA ExpireStep ==
  ASSUME IInv, NEW s \in Stream, NEW c \in Conn, Expire(s, c)
  PROVE  IInv'
<1>1. /\ PlaceInv /\ CountInv /\ ControlInv /\ StreamInv
  BY DEF IInv
<1>2. /\ UNCHANGED <<counters, controls, agents, at, open, found, partner>>
      /\ UNCHANGED <<hello, dialled, asked>>
      /\ timers' = timers \ {<<s, c>>}
  BY DEF Expire, agents
<1>3. CountInv'
  BY <1>1, <1>2, CountsKept DEF Admitted
<1>4. PlaceInv'
  BY <1>1, <1>2 DEF PlaceInv, Placed, OwedInv, counters
<1>5. ControlInv'
  BY <1>1, <1>2 DEF ControlInv, Registrations, Replacements, ServedControlRegistered, Registered
<1>6. StreamInv'
  <2>1. timers' \subseteq Stream \X Conn /\ asked' \subseteq Stream /\ PairsMatch'
    BY <1>1, <1>2 DEF StreamInv, PairsMatch
  <2>2. CASE streams[s] # Nobody /\ streams[s].by = c
    <3>1. streams' = [streams EXCEPT ![s] = Nobody] /\ stuck' = TRUE
      BY <2>2 DEF Expire
    <3>2. /\ streams' \in [Stream -> Pending \cup {Nobody}] /\ streams'[s] = Nobody
          /\ \A t \in Stream : t # s => streams'[t] = streams[t]
      BY <1>1, <3>1 DEF StreamInv
    <3>3. ASSUME NEW t \in Stream PROVE OneHalf(t)'
      <4> SUFFICES ASSUME streams'[t] # Nobody PROVE \E q \in Role : Half(t, q)'
        BY DEF OneHalf
      <4>1. streams'[t] = streams[t]
        BY <3>2
      <4>2. PICK q \in Role : Half(t, q)
        BY <1>1, <4>1 DEF StreamInv, OneHalf
      <4>3. Half(t, q)'
        BY <1>2, <4>1, <4>2 DEF Half, HalfOf
      <4> QED
        BY <4>3
    <3>4. \A d \in Conn : Reachable(d)'
      BY <3>1 DEF Reachable
    <3> QED
      BY <2>1, <3>1, <3>2, <3>3, <3>4 DEF StreamInv
  <2>3. CASE ~(streams[s] # Nobody /\ streams[s].by = c)
    <3>1. UNCHANGED <<streams, stuck>>
      BY <2>3 DEF Expire
    <3>2. \A t \in Stream : OneHalf(t)'
      BY <1>1, <1>2, <3>1 DEF StreamInv, OneHalf, Half, HalfOf
    <3>3. \A d \in Conn : Reachable(d)'
      BY <1>1, <1>2, <3>1 DEF StreamInv, Reachable
    <3> QED
      BY <1>1, <2>1, <3>1, <3>2, <3>3 DEF StreamInv
  <2> QED
    BY <2>2, <2>3
<1> QED
  BY <1>3, <1>4, <1>5, <1>6 DEF IInv

(* The relay's own steps. *)
LEMMA ProceedStep ==
  ASSUME IInv, NEW c \in Conn, Proceed(c)
  PROVE  IInv'
BY HandshakeFailsStep, AdmitStep, RegisterStep, CloseOldStep, GreetStep, GreetFailsStep,
   ReleasePairStep, TurnAwayStep, ParkStep, JoinStep, NotifyStep, NotifyFailsStep, StartRelayStep DEF Proceed

(* Every step of the relay, its agents and its timers, and a stutter. *)
LEMMA StepIInv == IInv /\ [Next]_vars => IInv'
<1> SUFFICES ASSUME IInv, [Next]_vars PROVE IInv'
  OBVIOUS
<1>1. CASE Dial
  BY <1>1, DialStep
<1>2. CASE \E c \in Conn : Proceed(c) \/ ControlEnds(c) \/ EndPair(c)
  BY <1>2, ProceedStep, ControlEndsStep, EndPairStep
<1>3. CASE \E s \in Stream, c \in Conn : Expire(s, c)
  BY <1>3, ExpireStep
<1>4. CASE UNCHANGED vars
  <2>1. /\ UNCHANGED <<counters, controls, streams, timers, stuck, at, open, found, partner>>
        /\ UNCHANGED <<dialled, hello, asked>>
    BY <1>4 DEF vars, agents
  <2>2. CountInv'
    BY <2>1, CountsKept DEF IInv, Admitted
  <2>3. PlaceInv'
    BY <2>1 DEF IInv, PlaceInv, Placed, OwedInv, counters
  <2>4. ControlInv'
    BY <2>1 DEF IInv, ControlInv, Registrations, Replacements, ServedControlRegistered, Registered
  <2>5. StreamInv'
    BY <2>1 DEF IInv, StreamInv, PairsMatch, OneHalf, Half, HalfOf, Reachable
  <2> QED
    BY <2>2, <2>3, <2>4, <2>5 DEF IInv
<1> QED
  BY <1>1, <1>2, <1>3, <1>4 DEF Next

-----------------------------------------------------------------------------
(***************************************************************************)
(* The theorems.                                                           *)
(***************************************************************************)

(* The inductive invariant: the counters, the handlers, the table of        *)
(* control connections and the table of pending streams agree after every   *)
(* step of relay.go and agent.go.                                           *)
THEOREM RelayInvariant == Spec => []IInv
<1>1. Init => IInv
  BY InitIInv
<1>2. IInv /\ [Next]_vars => IInv'
  BY StepIInv
<1> QED
  BY <1>1, <1>2, PTL DEF Spec

(* Every variable of the relay keeps its type. *)
THEOREM TypeCorrect == Spec => []TypeOK
<1>1. IInv => TypeOK
  BY Typed
<1> QED
  BY <1>1, RelayInvariant, PTL

(* The relay's three counters always say how many connections are open, and *)
(* never exceed their limits, however often a connection is closed          *)
(* (countedConn.Close).                                                     *)
THEOREM PlacesAreCounted == Spec => []PlacesCounted
<1>1. IInv => PlacesCounted
  BY DEF IInv, CountInv
<1> QED
  BY <1>1, RelayInvariant, PTL

(* A control connection that is still served is the registered one of its   *)
(* pair and role, or about to be closed by the one that replaced it         *)
(* (handleControl).                                                         *)
THEOREM ServedIsRegistered == Spec => []ServedControlRegistered
<1>1. IInv => ServedControlRegistered
  BY DEF IInv, ControlInv
<1> QED
  BY <1>1, RelayInvariant, PTL

(* A half that waits is in the table or joined to a half whose handler will *)
(* close both, unless an expiry has stopped the relay (handleStream).       *)
THEOREM WaitingStaysReachable == Spec => []WaitingIsReachable
<1>1. IInv => WaitingIsReachable
  BY DEF IInv, StreamInv, Reachable, WaitingIsReachable
<1> QED
  BY <1>1, RelayInvariant, PTL

(* Halves are joined two by two, a requester's with the provider's of the   *)
(* same pair and stream (handleStream, relayPair).                          *)
THEOREM HalvesMatch == Spec => []PairsMatch
<1>1. IInv => PairsMatch
  BY DEF IInv, StreamInv
<1> QED
  BY <1>1, RelayInvariant, PTL
=============================================================================
