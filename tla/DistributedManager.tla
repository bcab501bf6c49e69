------------------------- MODULE DistributedManager -------------------------
(***************************************************************************)
(* The distributed mode of the proxy: distributed.Manager keeps one        *)
(* llama-server resident on a fixed local port, backed by a group of nodes *)
(* reserved at Control, renews that group every five minutes and replaces  *)
(* both when a chat asks for another model.                                *)
(*                                                                         *)
(* Manager.mu is held over the whole of Ensure, so a chat that holds it    *)
(* goes through Ensure alone; the renewal goroutines, the server           *)
(* processes, Control, and chats that have left Ensure run beside it.      *)
(* A group stands for its nodes, and a server process is named by the      *)
(* group it was started for.  Of Control only the lives of the groups are  *)
(* kept here; module Control has the rest of it.                           *)
(*                                                                         *)
(* Time passes in steps of five minutes, the period of the renewal ticker. *)
(* What the code bounds by seconds happens between two steps.              *)
(***************************************************************************)
EXTENDS Integers, FiniteSets

CONSTANTS
  Chat,         \* chat requests of the proxy
  Model,        \* models of the local catalogue
  Group,        \* ids Control may give to groups; an id nobody knows any more is reused
  None,         \* no group, no chat, no model
  Hold,         \* life of a group at Control since its creation or renewal (15 min)
  RenewPeriod,  \* period of the renewal ticker (5 min)
  StartLimit,   \* LlamaRPC.Start gives up after this long (5 min)
  Faults        \* what may go wrong, see Fault

(* "network": calls of Control are lost; "cancel": a client goes away and   *)
(* its context is cancelled; "process": a llama-server exits or outlives    *)
(* the five seconds its killer waits; "control": Control restarts; "exit":  *)
(* the proxy process ends.                                                  *)
Fault == {"network", "cancel", "process", "control", "exit"}

ASSUME ManagerAssumption ==
  /\ None \notin Chat \cup Model \cup Group
  /\ {Hold, RenewPeriod, StartLimit} \subseteq Nat \ {0}
  /\ StartLimit + RenewPeriod < Hold /\ RenewPeriod + RenewPeriod < Hold
  /\ Faults \subseteq Fault

VARIABLES
  mu,         \* the chat that holds Manager.mu
  chat,       \* where each chat is, what it asked for and what it was told
  resident,   \* Manager.group and Manager.runtime: None or a group
  digest,     \* Manager.digest: the resident model
  waited,     \* how long LlamaRPC.Start has been waiting for health
  renewer,    \* the renewal goroutine of each group and the time since its last tick
  proc,       \* the llama-server process started for each group
  age,        \* time since Control created or renewed the group; Hold: it has none
  misses      \* renewals of the manager's group Control has missed in a row, the
              \* start counting as one; only observes

manager == <<mu, chat, resident, digest, waited>>
vars == <<manager, renewer, proc, age, misses>>

Idle == [pc |-> "idle", model |-> None, group |-> None]
ToForward(g) == [Idle EXCEPT !.pc = "forward", !.group = g]
NoRenewer == [state |-> "off", due |-> 0]

\* The stages of Ensure at which a chat holds the mutex.
Locked == {"checking", "planning", "granted", "starting"}

\* Processes that own the port, and those of them that answer on it.  A killed
\* process that is not gone yet owns the port and does not answer.
Owners == {g \in Group : proc[g] \in {"serving", "orphan", "killed"}}
Answering == {g \in Group : proc[g] \in {"serving", "orphan"}}

Held == {g \in Group : age[g] < Hold}

\* The group Ensure is working on or has made resident.
Using(g) == resident = g \/ \E c \in Chat : mu = c /\ chat[c].group = g

\* Nobody remembers this id.
Unused(g) ==
  /\ age[g] = Hold /\ resident # g /\ proc[g] = "none" /\ renewer[g] = NoRenewer
  /\ \A c \in Chat : chat[c].group # g

-----------------------------------------------------------------------------
(* Helpers of Ensure *)

\* releaseGroup: best effort, its answer is not looked at.
ReleaseGroup(g) ==
  \/ age' = [age EXCEPT ![g] = Hold]
  \/ "network" \in Faults /\ age' = age

\* LlamaRPC.stopLocked: kill, and wait at most five seconds for the end.
Kill(g) ==
  \/ proc' = [proc EXCEPT ![g] = "none"]
  \/ /\ "process" \in Faults /\ proc[g] = "serving"
     /\ proc' = [proc EXCEPT ![g] = "killed"]

\* Variant: an error path that does not unlock.
Fail_KeepsLock(c) ==
  /\ chat' = [chat EXCEPT ![c] = Idle]
  /\ UNCHANGED mu

\* Ensure returns an error: the chat is answered 503, or goes on without the
\* manager when its execution is auto.
Fail(c) ==
  /\ chat' = [chat EXCEPT ![c] = Idle]
  /\ mu' = None

\* Variant: the renewal goroutine is not told to stop.
StopLocked_KeepsRenewing ==
  /\ resident # None
  /\ Kill(resident) /\ ReleaseGroup(resident)
  /\ resident' = None /\ digest' = None /\ misses' = 0
  /\ UNCHANGED renewer

\* Manager.stopLocked with something resident.
StopLocked ==
  /\ resident # None
  /\ renewer' = [renewer EXCEPT ![resident].state = "stopping"]
  /\ Kill(resident) /\ ReleaseGroup(resident)
  /\ resident' = None /\ digest' = None /\ misses' = 0

-----------------------------------------------------------------------------
(* A chat: Server.chat, Manager.Ensure, Server.forwardDistributed *)

Arrive(c) ==
  /\ chat[c] = Idle
  /\ chat' = [chat EXCEPT ![c].pc = "waiting"]
  /\ UNCHANGED <<mu, resident, digest, waited, renewer, proc, age, misses>>

\* Ensure has the mutex.  The model was named on arrival and matters from here.
Lock(c, m) ==
  /\ chat[c].pc = "waiting" /\ mu = None
  /\ mu' = c
  /\ chat' = [chat EXCEPT ![c].pc = "checking", ![c].model = m]
  /\ UNCHANGED <<resident, digest, waited, renewer, proc, age, misses>>

\* The resident runtime has the model and something answers on its port.
Healthy(c) ==
  resident # None /\ digest = chat[c].model /\ Answering # {}

Hit(c) ==
  /\ chat[c].pc = "checking" /\ Healthy(c)
  /\ chat' = [chat EXCEPT ![c] = ToForward(resident)]
  /\ mu' = None
  /\ UNCHANGED <<resident, digest, waited, renewer, proc, age, misses>>

\* Another model, or the health check fails: nothing answers, or the client of
\* this very chat has gone away and the request is not even made.
Miss(c) ==
  /\ chat[c].pc = "checking"
  /\ ~Healthy(c) \/ "cancel" \in Faults
  /\ \/ StopLocked
     \/ resident = None /\ UNCHANGED <<resident, digest, renewer, proc, age, misses>>
  /\ chat' = [chat EXCEPT ![c].pc = "planning"]
  /\ UNCHANGED <<mu, waited>>

\* The model's metadata cannot be read, or Control refuses or is not reached.
PlanFails(c) ==
  /\ chat[c].pc = "planning"
  /\ Fail(c)
  /\ UNCHANGED <<resident, digest, waited, renewer, proc, age, misses>>

CreateGroup(c, g) ==
  /\ chat[c].pc = "planning" /\ Unused(g)
  /\ misses' = 1
  /\ age' = [age EXCEPT ![g] = 0]
  /\ chat' = [chat EXCEPT ![c].pc = "granted", ![c].group = g]
  /\ UNCHANGED <<mu, resident, digest, waited, renewer, proc>>

\* The group exists, and its answer is lost, or names an unusable stage and the
\* group is released again.
CreateGroupFails(c, g) ==
  /\ chat[c].pc = "planning" /\ Unused(g)
  /\ \E left \in {0, Hold} :
       /\ left = Hold \/ Faults \cap {"network", "cancel"} # {}
       /\ age' = [age EXCEPT ![g] = left]
  /\ Fail(c)
  /\ UNCHANGED <<resident, digest, waited, renewer, proc, misses>>

\* LlamaRPC.Start: the process is started.
Spawn(c) ==
  /\ chat[c].pc = "granted"
  /\ proc' = [proc EXCEPT ![chat[c].group] = "loading"]
  /\ waited' = 0
  /\ chat' = [chat EXCEPT ![c].pc = "starting"]
  /\ UNCHANGED <<mu, resident, digest, renewer, age, misses>>

\* The executable or the model file is not there.
SpawnFails(c) ==
  /\ chat[c].pc = "granted"
  /\ ReleaseGroup(chat[c].group)
  /\ Fail(c) /\ misses' = 0
  /\ UNCHANGED <<resident, digest, waited, renewer, proc>>

\* Variant: the group is never renewed.
StartRenew_Never(g) == UNCHANGED renewer

\* startRenewLocked
StartRenew(g) == renewer' = [renewer EXCEPT ![g] = [state |-> "on", due |-> 0]]

\* Something answers the health check: Start does not ask which process.
Started(c) ==
  /\ chat[c].pc = "starting" /\ Answering # {}
  /\ resident' = chat[c].group /\ digest' = chat[c].model
  /\ StartRenew(chat[c].group)
  /\ chat' = [chat EXCEPT ![c] = ToForward(chat[c].group)]
  /\ mu' = None
  /\ waited' = 0
  /\ UNCHANGED <<proc, age, misses>>

\* Variant: a start that failed leaves its process alone.
Undo_LeavesRunning(c) ==
  /\ ReleaseGroup(chat[c].group)
  /\ Fail(c)
  /\ waited' = 0 /\ misses' = 0
  /\ UNCHANGED <<resident, digest, renewer, proc>>

\* A failed start: the process is stopped and the group released.
Undo(c) ==
  /\ Kill(chat[c].group) /\ ReleaseGroup(chat[c].group)
  /\ Fail(c)
  /\ waited' = 0 /\ misses' = 0
  /\ UNCHANGED <<resident, digest, renewer>>

StartCancelled(c) == chat[c].pc = "starting" /\ "cancel" \in Faults /\ Undo(c)

StartExited(c) == chat[c].pc = "starting" /\ proc[chat[c].group] = "none" /\ Undo(c)

StartTimesOut(c) == chat[c].pc = "starting" /\ waited >= StartLimit /\ Undo(c)

\* The chat is sent to the port Ensure returned, though the mutex is no longer
\* held: whichever process answers there now serves it, or it fails.
Forward(c) ==
  /\ chat[c].pc = "forward"
  /\ chat' = [chat EXCEPT ![c] = Idle]
  /\ UNCHANGED <<mu, resident, digest, waited, renewer, proc, age, misses>>

-----------------------------------------------------------------------------
(* The renewal goroutine *)

\* The ticker fires.  A goroutine that has been told to stop may still choose
\* the ticker.  Neither a refusal nor a failure is acted upon.
Renew(g) ==
  /\ renewer[g].state # "off" /\ renewer[g].due >= RenewPeriod
  /\ renewer' = [renewer EXCEPT ![g].due = 0]
  /\ \/ /\ g \in Held
        /\ age' = [age EXCEPT ![g] = 0]
        /\ misses' = IF g = resident THEN 0 ELSE misses
     \/ g \notin Held /\ UNCHANGED <<age, misses>>
     \/ /\ "network" \in Faults
        /\ misses' = IF g = resident /\ misses < 2 THEN misses + 1 ELSE misses
        /\ UNCHANGED age
  /\ UNCHANGED <<manager, proc>>

StopRenewer(g) ==
  /\ renewer[g].state = "stopping"
  /\ renewer' = [renewer EXCEPT ![g] = NoRenewer]
  /\ UNCHANGED <<manager, proc, age, misses>>

-----------------------------------------------------------------------------
(* llama-server processes *)

\* The server has the port to itself and its model loaded.
Load(g) ==
  /\ proc[g] = "loading" /\ Owners = {}
  /\ proc' = [proc EXCEPT ![g] = "serving"]
  /\ UNCHANGED <<manager, renewer, age, misses>>

\* A killed process is gone at last, a loading one finds the port taken, or any
\* one crashes.
Exits(g) ==
  /\ \/ proc[g] = "killed"
     \/ proc[g] = "loading" /\ Owners # {}
     \/ proc[g] # "none" /\ "process" \in Faults
  /\ proc' = [proc EXCEPT ![g] = "none"]
  /\ UNCHANGED <<manager, renewer, age, misses>>

-----------------------------------------------------------------------------
(* Control, time and the end of the proxy *)

\* Five minutes pass.  Nothing but memory is touched between Control's answer
\* and the start of the process; a start ends at its limit; a ticker that is due
\* fires.
Tick ==
  /\ \A c \in Chat : /\ chat[c].pc # "granted"
                     /\ chat[c].pc = "starting" => waited < StartLimit
  /\ \A g \in Group : renewer[g].state = "on" => renewer[g].due < RenewPeriod
  /\ age' = [g \in Group |-> IF age[g] < Hold THEN age[g] + 1 ELSE Hold]
  /\ renewer' = [g \in Group |->
                   IF renewer[g].state = "on"
                   THEN [renewer[g] EXCEPT !.due = @ + 1] ELSE renewer[g]]
  /\ waited' = IF \E c \in Chat : chat[c].pc = "starting" THEN waited + 1 ELSE waited
  /\ UNCHANGED <<mu, chat, resident, digest, proc, misses>>

\* Control restarts and has forgotten every group.
ControlRestart ==
  /\ "control" \in Faults
  /\ age' = [g \in Group |-> Hold]
  /\ misses' = IF \E g \in Group : Using(g) THEN 2 ELSE misses
  /\ UNCHANGED <<manager, renewer, proc>>

\* The proxy ends: main leaves through log.Fatal or a signal, so the deferred
\* Manager.Close does not run and the server process may live on.
ProxyExit ==
  /\ "exit" \in Faults
  /\ mu' = None /\ resident' = None /\ digest' = None
  /\ waited' = 0 /\ misses' = 0
  /\ chat' = [c \in Chat |-> Idle]
  /\ renewer' = [g \in Group |-> NoRenewer]
  /\ \E survives \in BOOLEAN :
       proc' = [g \in Group |->
                  CASE proc[g] = "serving" -> IF survives THEN "orphan" ELSE "none"
                    [] proc[g] = "loading" ->
                         IF survives /\ Owners = {} THEN "orphan" ELSE "none"
                    [] OTHER -> proc[g]]
  /\ UNCHANGED age

-----------------------------------------------------------------------------
Init ==
  /\ mu = None /\ resident = None /\ digest = None
  /\ waited = 0 /\ misses = 0
  /\ chat = [c \in Chat |-> Idle]
  /\ renewer = [g \in Group |-> NoRenewer]
  /\ proc = [g \in Group |-> "none"]
  /\ age = [g \in Group |-> Hold]

\* What a chat does by itself once it has the mutex, and after it.
Advance(c) ==
  \/ Hit(c) \/ Miss(c) \/ PlanFails(c) \/ Spawn(c) \/ SpawnFails(c)
  \/ Started(c) \/ StartExited(c) \/ StartTimesOut(c) \/ Forward(c)
  \/ \E g \in Group : CreateGroup(c, g) \/ CreateGroupFails(c, g)

Next ==
  \/ \E c \in Chat :
       \/ \E m \in Model : Lock(c, m)
       \/ Arrive(c) \/ Advance(c) \/ StartCancelled(c)
  \/ \E g \in Group : Renew(g) \/ StopRenewer(g) \/ Load(g) \/ Exits(g)
  \/ Tick \/ ControlRestart \/ ProxyExit

(* Chats that hold the mutex go on, because everything Ensure waits for has  *)
(* a time limit; a Go mutex starves nobody for ever; tickers fire and time   *)
(* passes.  Nothing is assumed of clients, servers, faults and restarts.     *)
Fairness ==
  /\ \A c \in Chat : WF_vars(Advance(c)) /\ SF_vars(\E m \in Model : Lock(c, m))
  /\ \A g \in Group : WF_vars(Renew(g) \/ StopRenewer(g))
  /\ SF_vars(Tick)

Spec == Init /\ [][Next]_vars /\ Fairness

-----------------------------------------------------------------------------
(* Properties *)

\* Types; and a chat holds Manager.mu exactly while it is inside Ensure.
TypeOK ==
  /\ chat \in [Chat -> [pc : Locked \cup {"idle", "waiting", "forward"},
                        model : Model \cup {None}, group : Group \cup {None}]]
  /\ resident \in Group \cup {None} /\ mu \in Chat \cup {None}
  /\ waited \in 0..StartLimit
  /\ digest \in Model \cup {None}
  /\ renewer \in [Group -> [state : {"off", "on", "stopping"}, due : 0..RenewPeriod]]
  /\ proc \in [Group -> {"none", "loading", "serving", "killed", "orphan"}]
  /\ age \in [Group -> 0..Hold] /\ misses \in 0..2
  /\ \A c \in Chat : chat[c].pc \in Locked <=> mu = c

\* Through failed starts, replacements, slow kills and crashes the manager never
\* loses sight of a server it started and did not kill: the server is the
\* resident one or the one Ensure is starting.  A stray one would keep the port
\* and answer in the place of every later model (Start asks any server on the
\* port for its health).
NoStrayServer == \A g \in Group : proc[g] \in {"loading", "serving"} => Using(g)

\* The nodes of the resident model stay reserved: Control drops the group only
\* after it missed two renewals in a row, the time of the start counting as one,
\* or forgot it in a restart.  The period of the ticker, the limit of a start
\* and the 15 minutes of Control fit together.
GroupKept == resident # None /\ misses < 2 => resident \in Held

\* A group that the manager gave up, or never learned of because Control's
\* answer was lost, does not keep its nodes reserved for ever: nobody renews it
\* for long.
OrphansExpire == \A g \in Group :
  (g \in Held /\ ~Using(g)) ~> (g \notin Held)

\* A chat that has called Ensure gets out of it, whatever Control and the
\* servers do and however many chats compete for the manager.
EnsureReturns == \A c \in Chat :
  (chat[c].pc = "waiting") ~> (chat[c].pc \in {"idle", "forward"})

\* A chat is answered by the nodes Ensure returned, the ones its response names
\* in X-AIPool-Nodes: nothing else answers on the port when the chat is sent.
AnsweredByAnnounced == \A c \in Chat :
  chat[c].pc = "forward" => Answering \subseteq {chat[c].group}

=============================================================================
