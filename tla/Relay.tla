------------------------------- MODULE Relay -------------------------------
(***************************************************************************)
(* The tunnel relay (internal/tunnel/relay.go) and the dialling agents of  *)
(* its pairs (agent.go).  Each agent keeps a control connection; a stream  *)
(* is two connections with the same stream ID, one from each agent.  The   *)
(* agent that forwards a local port dials its half first; the relay parks  *)
(* it, tells the other agent over its control connection to "open" the     *)
(* stream, and joins the two halves.                                       *)
(*                                                                         *)
(* A step is a section under Relay.mu together with the I/O that precedes  *)
(* the next one.  Closing a connection takes Relay.mu twice more: its      *)
(* global and address places are given back in the step of the handler     *)
(* that closes it (of both halves, when a pair ends), its pair's place in  *)
(* a step of its own.  The authentication handshake is one step that       *)
(* succeeds or fails; the bytes relayed are left out.                      *)
(***************************************************************************)
EXTENDS Integers, FiniteSets

CONSTANTS
  Pair,                    \* pair IDs
  Stream,                  \* stream IDs
  Forward,                 \* who opens a stream: its pair, role and target
  IP,                      \* the address each pair's agents dial from
  MaxConnections, MaxConnectionsPerIP, MaxConnectionsPerPair, MaxPendingPerPair,
  Nobody,                  \* nil
  MaxDials                 \* bound: connections dialled

Role == {"requester", "provider"}
Target == {"provider-host", "provider-rpc", "requester-control"}
Conn == 1..MaxDials
Address == {IP[p][r] : p \in Pair, r \in Role}

Hello == [pair : Pair, role : Role, stream : Stream \cup {Nobody}]
Peer == Conn \cup {Nobody}
Pending == [requester : Peer, provider : Peer, target : Target, by : Conn]

ASSUME RelayAssumption ==
  /\ Forward \in [Stream -> [pair : Pair, role : Role, target : Target]]
  /\ IP \in [Pair -> [Role -> STRING]]
  /\ {MaxConnections, MaxConnectionsPerIP, MaxConnectionsPerPair,
      MaxPendingPerPair} \subseteq Nat \ {0}
  /\ MaxDials \in Nat
  /\ Nobody \notin Conn \cup Stream /\ Nobody \notin Pending

VARIABLES
  activeConnections, connectionsByIP, connectionsByPair,
  owed,       \* closed connections whose pair's place is not given back yet
  controls,   \* the control connection registered for each pair and role
  streams,    \* pending streams
  timers,     \* expireStream goroutines, by stream and the half it was made for
  stuck,      \* an expireStream holds Relay.mu and waits for it
  dialled,    \* connections dialled so far
  hello,      \* the handshake of each connection
  at,         \* where the connection's handler is
  open,       \* the connection is counted: countedConn.Close has not run
  found,      \* the control connection a handler found in the table before it
              \* let go of the mutex: handleControl's old, handleStream's peer
  partner,    \* the half a stream connection was joined to
  asked       \* streams an agent was told to open

counters == <<activeConnections, connectionsByIP, connectionsByPair, owed>>
agents == <<dialled, hello, asked>>
vars == <<counters, controls, streams, timers, stuck, agents, at, open, found, partner>>

peerRole(role) == IF role = "requester" THEN "provider" ELSE "requester"

Ip(c) == IP[hello[c].pair][hello[c].role]
Admitted(c) == at[c] # "handshake"

-----------------------------------------------------------------------------
(***************************************************************************)
(* Admission.                                                              *)
(***************************************************************************)

Tally(S) ==
  /\ activeConnections' = activeConnections - Cardinality(S)
  /\ connectionsByIP' = [a \in Address |->
       connectionsByIP[a] - Cardinality({c \in S : Ip(c) = a})]
  /\ owed' = owed \cup {c \in S : Admitted(c)}
  /\ UNCHANGED connectionsByPair

Close_EveryTime(S) ==
  /\ open' = [c \in Conn |-> open[c] /\ c \notin S]
  /\ Tally(S)

(* countedConn.Close gives back the connection's places, the first time:    *)
(* releaseConnection's now, and releasePair's next if handle has wrapped it *)
(* a second time.                                                           *)
Close(S) ==
  /\ open' = [c \in Conn |-> open[c] /\ c \notin S]
  /\ Tally({c \in S : open[c]})

ReleasePair(c) ==
  /\ ~stuck /\ c \in owed
  /\ owed' = owed \ {c}
  /\ connectionsByPair' = [connectionsByPair EXCEPT ![hello[c].pair] = @ - 1]
  /\ UNCHANGED <<activeConnections, connectionsByIP, controls, streams, timers, stuck,
                 agents, at, open, found, partner>>

(* acquireConnection and acquirePair. *)
HasPlace(a) == activeConnections < MaxConnections /\ connectionsByIP[a] < MaxConnectionsPerIP
PairHasPlace(p) == connectionsByPair[p] < MaxConnectionsPerPair

(* Serve: a connection over the global or the address limit is dropped. *)
Accept(h) ==
  LET c == dialled + 1
      a == IP[h.pair][h.role]
  IN /\ ~stuck /\ dialled < MaxDials
     /\ dialled' = c
     /\ hello' = [hello EXCEPT ![c] = h]
     /\ IF HasPlace(a)
        THEN /\ activeConnections' = activeConnections + 1
             /\ connectionsByIP' = [connectionsByIP EXCEPT ![a] = @ + 1]
             /\ at' = [at EXCEPT ![c] = "handshake"]
             /\ open' = [open EXCEPT ![c] = TRUE]
             /\ UNCHANGED <<connectionsByPair, owed>>
        ELSE /\ at' = [at EXCEPT ![c] = "done"]
             /\ UNCHANGED <<counters, open>>
     /\ UNCHANGED <<controls, streams, timers, stuck, found, partner, asked>>

(* The agents: controlSession redials whenever it has lost its connection,  *)
(* openForward dials its stream's half, again when it fails, and openTarget *)
(* the other half once it has been asked to.                                *)
DialControl(p, r) == Accept([pair |-> p, role |-> r, stream |-> Nobody])
OpenForward(s) == Accept([pair |-> Forward[s].pair, role |-> Forward[s].role, stream |-> s])
OpenTarget(s) ==
  /\ s \in asked
  /\ Accept([pair |-> Forward[s].pair, role |-> peerRole(Forward[s].role), stream |-> s])

(* handle: the handshake fails, times out or is not authorised. *)
HandshakeFails(c) ==
  /\ ~stuck /\ at[c] = "handshake"
  /\ Close({c}) /\ at' = [at EXCEPT ![c] = "done"]
  /\ UNCHANGED <<controls, streams, timers, stuck, agents, found, partner>>

(* handle, authenticated: acquirePair, then on to the handler of its type. *)
Admit(c) ==
  LET p == hello[c].pair IN
    /\ ~stuck /\ at[c] = "handshake"
    /\ IF PairHasPlace(p)
       THEN /\ connectionsByPair' = [connectionsByPair EXCEPT ![p] = @ + 1]
            /\ at' = [at EXCEPT ![c] = IF hello[c].stream = Nobody THEN "control" ELSE "stream"]
            /\ UNCHANGED <<activeConnections, connectionsByIP, owed, open>>
       ELSE Close({c}) /\ at' = [at EXCEPT ![c] = "done"]
    /\ UNCHANGED <<controls, streams, timers, stuck, agents, found, partner>>

-----------------------------------------------------------------------------
(***************************************************************************)
(* Control connections: handleControl.                                     *)
(***************************************************************************)

Registered(c) == controls[hello[c].pair][hello[c].role]

(* The connection takes its role's place. *)
Register(c) ==
  /\ ~stuck /\ at[c] = "control"
  /\ controls' = [controls EXCEPT ![hello[c].pair][hello[c].role] = c]
  /\ found' = [found EXCEPT ![c] = Registered(c)]
  /\ at' = [at EXCEPT ![c] = "greeting"]
  /\ UNCHANGED <<counters, streams, timers, stuck, agents, open, partner>>

(* With the mutex released, the connection it replaces is closed ... *)
CloseOld(c) ==
  /\ ~stuck /\ at[c] = "greeting" /\ found[c] # Nobody /\ open[found[c]]
  /\ Close({found[c]})
  /\ UNCHANGED <<controls, streams, timers, stuck, agents, at, found, partner>>

(* ... and the handler goes on when its places are given back, whoever      *)
(* closed it (closeOnce).                                                   *)
OldClosed(c) == found[c] # Nobody => ~open[found[c]] /\ found[c] \notin owed

Greet(c) ==
  /\ at[c] = "greeting" /\ OldClosed(c) /\ open[c]
  /\ at' = [at EXCEPT ![c] = "serving"]
  /\ UNCHANGED <<counters, controls, streams, timers, stuck, agents, open, found, partner>>

(* "ready" cannot be written: the handler leaves without its clean-up, and  *)
(* the closed connection stays registered.                                  *)
GreetFails(c) ==
  /\ ~stuck /\ at[c] = "greeting" /\ OldClosed(c)
  /\ Close({c}) /\ at' = [at EXCEPT ![c] = "done"]
  /\ UNCHANGED <<controls, streams, timers, stuck, agents, found, partner>>

ControlEnds_Any(c) ==
  /\ ~stuck /\ at[c] = "serving"
  /\ controls' = [controls EXCEPT ![hello[c].pair][hello[c].role] = Nobody]
  /\ Close({c}) /\ at' = [at EXCEPT ![c] = "done"]
  /\ UNCHANGED <<streams, timers, stuck, agents, found, partner>>

(* The agent goes, or the connection was replaced: the deferred clean-up. *)
ControlEnds(c) ==
  /\ ~stuck /\ at[c] = "serving"
  /\ controls' = [controls EXCEPT ![hello[c].pair][hello[c].role] =
                    IF @ = c THEN Nobody ELSE @]
  /\ Close({c}) /\ at' = [at EXCEPT ![c] = "done"]
  /\ UNCHANGED <<streams, timers, stuck, agents, found, partner>>

-----------------------------------------------------------------------------
(***************************************************************************)
(* Streams: handleStream, expireStream and relayPair.                      *)
(***************************************************************************)

PendingForPair(p) ==
  Cardinality({s \in Stream : streams[s] # Nobody /\ Forward[s].pair = p})

Turned_Overwrites(c) ==
  PendingForPair(hello[c].pair) >= MaxPendingPerPair

(* The half is turned away: too many streams are pending, or its place in   *)
(* its stream is taken.                                                     *)
Turned(c) ==
  LET s == hello[c].stream IN
    \/ PendingForPair(hello[c].pair) >= MaxPendingPerPair
    \/ streams[s] # Nobody /\ (\/ streams[s].target # Forward[s].target
                               \/ streams[s][hello[c].role] # Nobody)

TurnAway(c) ==
  /\ ~stuck /\ at[c] = "stream" /\ Turned(c)
  /\ Close({c}) /\ at' = [at EXCEPT ![c] = "done"]
  /\ UNCHANGED <<controls, streams, timers, stuck, agents, found, partner>>

(* The first half is stored and its timer started; the control peer to      *)
(* notify is read now and used after the mutex is released.                 *)
Park(c) ==
  LET s == hello[c].stream
      r == hello[c].role
      new == [requester |-> Nobody, provider |-> Nobody,
              target |-> Forward[s].target, by |-> c]
      made == IF streams[s] = Nobody THEN new ELSE streams[s]
  IN /\ ~stuck /\ at[c] = "stream" /\ ~Turned(c)
     /\ made[peerRole(r)] = Nobody
     /\ streams' = [streams EXCEPT ![s] = [made EXCEPT ![r] = c]]
     /\ timers' = IF streams[s] = Nobody THEN timers \cup {<<s, c>>} ELSE timers
     /\ found' = [found EXCEPT ![c] = controls[hello[c].pair][peerRole(r)]]
     /\ at' = [at EXCEPT ![c] = "notify"]
     /\ UNCHANGED <<counters, controls, stuck, agents, open, partner>>

Join_SameSide(c) ==
  LET s == hello[c].stream IN
    /\ ~stuck /\ at[c] = "stream" /\ streams[s] # Nobody
    /\ partner' = [partner EXCEPT ![c] = streams[s].by, ![streams[s].by] = c]
    /\ streams' = [streams EXCEPT ![s] = Nobody]
    /\ at' = [at EXCEPT ![c] = "pairing"]
    /\ UNCHANGED <<counters, controls, timers, stuck, agents, open, found>>

(* The second half finds the first: the stream is no longer pending. *)
Join(c) ==
  LET s == hello[c].stream
      d == streams[s][peerRole(hello[c].role)]
  IN /\ ~stuck /\ at[c] = "stream" /\ ~Turned(c)
     /\ streams[s] # Nobody /\ d # Nobody
     /\ partner' = [partner EXCEPT ![c] = d, ![d] = c]
     /\ streams' = [streams EXCEPT ![s] = Nobody]
     /\ at' = [at EXCEPT ![c] = "pairing"]
     /\ UNCHANGED <<counters, controls, timers, stuck, agents, open, found>>

Notify(c) ==
  /\ at[c] = "notify" /\ found[c] # Nobody /\ open[found[c]]
  /\ asked' = IF hello[c].role = Forward[hello[c].stream].role
              THEN asked \cup {hello[c].stream} ELSE asked
  /\ at' = [at EXCEPT ![c] = "waiting"]
  /\ UNCHANGED <<counters, controls, streams, timers, stuck, dialled, hello, open,
                 found, partner>>

(* removeStream, if the stream still holds this half. *)
RemoveStream(s, c) ==
  streams' = IF streams[s] # Nobody /\ c \in {streams[s].requester, streams[s].provider}
             THEN [streams EXCEPT ![s] = Nobody] ELSE streams

(* There is no peer to notify, or it cannot be written to. *)
NotifyFails(c) ==
  /\ ~stuck /\ at[c] = "notify"
  /\ RemoveStream(hello[c].stream, c)
  /\ Close({c}) /\ at' = [at EXCEPT ![c] = "done"]
  /\ UNCHANGED <<controls, timers, stuck, agents, found, partner>>

(* Both halves are told "ready" and bytes flow. *)
StartRelay(c) ==
  /\ at[c] = "pairing" /\ open[c] /\ open[partner[c]]
  /\ at' = [at EXCEPT ![c] = "relaying"]
  /\ UNCHANGED <<counters, controls, streams, timers, stuck, agents, open, found, partner>>

(* A half cannot be told, or one end of a relayed stream goes: both close. *)
EndPair(c) ==
  /\ ~stuck /\ at[c] \in {"pairing", "relaying"}
  /\ Close({c, partner[c]}) /\ at' = [at EXCEPT ![c] = "done"]
  /\ UNCHANGED <<controls, streams, timers, stuck, agents, found, partner>>

(* expireStream: the timer of a stream that is pending no longer, or was    *)
(* made anew, does nothing.  Otherwise the stream is removed and its half   *)
(* is closed under Relay.mu; countedConn.Close then asks for Relay.mu to    *)
(* give the places back, and waits for ever.                                *)
Expire(s, c) ==
  /\ ~stuck /\ <<s, c>> \in timers
  /\ timers' = timers \ {<<s, c>>}
  /\ IF streams[s] # Nobody /\ streams[s].by = c
     THEN streams' = [streams EXCEPT ![s] = Nobody] /\ stuck' = TRUE
     ELSE UNCHANGED <<streams, stuck>>
  /\ UNCHANGED <<counters, controls, agents, at, open, found, partner>>

-----------------------------------------------------------------------------
Init ==
  /\ activeConnections = 0
  /\ connectionsByIP = [a \in Address |-> 0]
  /\ connectionsByPair = [p \in Pair |-> 0] /\ owed = {}
  /\ controls = [p \in Pair |-> [r \in Role |-> Nobody]]
  /\ streams = [s \in Stream |-> Nobody]
  /\ timers = {} /\ stuck = FALSE
  /\ dialled = 0 /\ hello = [c \in Conn |-> Nobody] /\ asked = {}
  /\ at = [c \in Conn |-> "unused"]
  /\ open = [c \in Conn |-> FALSE]
  /\ found = [c \in Conn |-> Nobody] /\ partner = [c \in Conn |-> Nobody]

Dial ==
  \/ \E p \in Pair, r \in Role : DialControl(p, r)
  \/ \E s \in Stream : OpenForward(s) \/ OpenTarget(s)

Proceed(c) ==
  \/ HandshakeFails(c) \/ Admit(c)
  \/ Register(c) \/ CloseOld(c) \/ Greet(c) \/ GreetFails(c) \/ ReleasePair(c)
  \/ TurnAway(c) \/ Park(c) \/ Join(c) \/ Notify(c) \/ NotifyFails(c) \/ StartRelay(c)

Next ==
  \/ Dial
  \/ \E c \in Conn : Proceed(c) \/ ControlEnds(c) \/ EndPair(c)
  \/ \E s \in Stream, c \in Conn : Expire(s, c)

(* The relay's goroutines are scheduled and its timers fire.  Nothing is    *)
(* assumed of the agents: none need ever close a connection.                *)
Fairness ==
  /\ \A c \in Conn : WF_vars(Proceed(c))
  /\ \A s \in Stream, c \in Conn : WF_vars(Expire(s, c))

Spec == Init /\ [][Next]_vars /\ Fairness

-----------------------------------------------------------------------------
(***************************************************************************)
(* Properties.                                                             *)
(***************************************************************************)

(* Every variable has its type. *)
TypeOK ==
  /\ activeConnections \in Nat
  /\ connectionsByIP \in [Address -> Nat] /\ connectionsByPair \in [Pair -> Nat]
  /\ owed \subseteq Conn
  /\ controls \in [Pair -> [Role -> Peer]]
  /\ streams \in [Stream -> Pending \cup {Nobody}]
  /\ timers \subseteq Stream \X Conn /\ stuck \in BOOLEAN
  /\ dialled \in 0..MaxDials /\ hello \in [Conn -> Hello \cup {Nobody}]
  /\ asked \subseteq Stream
  /\ at \in [Conn -> {"unused", "handshake", "control", "greeting", "serving", "stream",
                      "notify", "waiting", "pairing", "relaying", "done"}]
  /\ open \in [Conn -> BOOLEAN]
  /\ found \in [Conn -> Peer] /\ partner \in [Conn -> Peer]

(* The three counters say how many connections are open, a pair's counting  *)
(* those its place is still to be given back for, and none exceeds its      *)
(* limit, although a connection can be closed by its handler, by the one    *)
(* that replaces it and by its partner's (countedConn.closeOnce).           *)
PlacesCounted ==
  /\ activeConnections = Cardinality({c \in Conn : open[c]})
  /\ activeConnections <= MaxConnections
  /\ \A a \in Address :
       /\ connectionsByIP[a] = Cardinality({c \in Conn : open[c] /\ Ip(c) = a})
       /\ connectionsByIP[a] <= MaxConnectionsPerIP
  /\ \A p \in Pair :
       /\ connectionsByPair[p] =
            Cardinality({c \in Conn : /\ (open[c] /\ Admitted(c)) \/ c \in owed
                                      /\ hello[c].pair = p})
       /\ connectionsByPair[p] <= MaxConnectionsPerPair

(* A control connection the relay still serves is the one it will send      *)
(* "open" to, or one whose replacement is about to close it: the late       *)
(* clean-up of a connection that was replaced never unregisters its         *)
(* successor, and none is served for ever without being reached, however    *)
(* many replace one another at once (handleControl).                        *)
ServedControlRegistered ==
  \A c \in Conn : open[c] /\ at[c] \in {"greeting", "serving"} =>
    Registered(c) = c \/ \E d \in Conn : at[d] = "greeting" /\ found[d] = c

(* A half that waits for its partner can still get it or be closed: it is   *)
(* in the table, or joined to a half whose handler closes both, so it never *)
(* holds its places with nobody left to give them back (handleStream,       *)
(* removeStream); but see PlacesComeBack for the expiry.                    *)
WaitingIsReachable ==
  \A c \in Conn : open[c] /\ at[c] = "waiting" /\ ~stuck =>
    \/ /\ streams[hello[c].stream] # Nobody
       /\ streams[hello[c].stream][hello[c].role] = c
    \/ partner[c] # Nobody /\ at[partner[c]] \in {"pairing", "relaying"}

(* Halves are joined two by two, a requester's with a provider's of the     *)
(* same pair and stream, whatever retries and replaced halves there are.    *)
PairsMatch ==
  \A c \in Conn : partner[c] # Nobody =>
    LET d == partner[c] IN
      /\ partner[d] = c
      /\ hello[d] = [hello[c] EXCEPT !.role = peerRole(@)]

(* A half that waits is joined or gives its places back: when its partner   *)
(* does not come the stream expires and capacity can be used again.         *)
PlacesComeBack ==
  \A c \in Conn : (open[c] /\ at[c] = "waiting" /\ partner[c] = Nobody) ~>
                    (~open[c] \/ partner[c] # Nobody)
=============================================================================
