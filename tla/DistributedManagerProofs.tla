---------------------- MODULE DistributedManagerProofs ----------------------
(***************************************************************************)
(* Proofs about DistributedManager, for any chats, models and groups, any  *)
(* faults, and any times that fit together as ManagerAssumption says.      *)
(***************************************************************************)
EXTENDS DistributedManager, TLAPS

(* Who holds a group inside Ensure: a chat that has been granted one, and   *)
(* nobody before that.                                                      *)
Ensuring(c) ==
  /\ chat[c].pc \in {"granted", "starting"} => chat[c].group \in Group
  /\ chat[c].pc \in {"idle", "waiting", "checking", "planning"} => chat[c].group = None
  /\ chat[c].pc \in {"checking", "planning", "granted", "starting"} => chat[c].model \in Model

(* From planning on the old runtime is gone: its place is free for the new  *)
(* one.  A group is granted before it has a process.                        *)
Vacant(c) ==
  /\ chat[c].pc \in {"planning", "granted", "starting"} => resident = None
  /\ chat[c].pc = "granted" => proc[chat[c].group] = "none"

(* The age of a group against the clocks of the proxy that bound it.  A     *)
(* start counts as one missed renewal; each further one lets the group grow *)
(* older by a period.                                                       *)
Slack == IF StartLimit > RenewPeriod THEN StartLimit ELSE RenewPeriod

Young(c) ==
  chat[c].pc \in {"granted", "starting"} =>
    /\ misses >= 1
    /\ misses = 1 => age[chat[c].group] <= (IF chat[c].pc = "granted" THEN 0 ELSE waited)

Renewed ==
  resident # None =>
    /\ renewer[resident].state = "on"
    /\ misses = 0 => age[resident] <= renewer[resident].due
    /\ misses = 1 => age[resident] <= renewer[resident].due + Slack

IInv ==
  /\ TypeOK /\ NoStrayServer /\ Renewed
  /\ \A c \in Chat : Ensuring(c) /\ Vacant(c) /\ Young(c)
-----------------------------------------------------------------------------
(* The times of the code fit together. *)
LEMMA Times ==
  /\ Hold \in Nat /\ RenewPeriod \in Nat /\ StartLimit \in Nat
  /\ Hold > 0 /\ RenewPeriod > 0 /\ StartLimit > 0
  /\ StartLimit + RenewPeriod < Hold /\ RenewPeriod + RenewPeriod < Hold
<1>1. \A x \in {Hold, RenewPeriod, StartLimit} : x \in Nat /\ x > 0
  BY ManagerAssumption
<1> QED BY <1>1, ManagerAssumption

(* None is no chat, model or group. *)
LEMMA Nobody == None \notin Chat /\ None \notin Model /\ None \notin Group
BY ManagerAssumption

(* At first nobody is inside Ensure and nothing is resident. *)
LEMMA InitIInv == Init => IInv
<1> SUFFICES ASSUME Init PROVE IInv
  OBVIOUS
<1> USE DEF Init
<1>1. TypeOK
  BY Times, Nobody DEF TypeOK, Idle, NoRenewer, Locked
<1>2. NoStrayServer /\ Renewed
  BY DEF NoStrayServer, Renewed
<1>3. \A c \in Chat : Ensuring(c) /\ Vacant(c) /\ Young(c)
  BY DEF Ensuring, Vacant, Young, Idle
<1> QED BY <1>1, <1>2, <1>3 DEF IInv

(* The steps, one disjunct for each. *)
ChatStep(c) ==
  \/ Arrive(c) \/ Hit(c) \/ Miss(c) \/ PlanFails(c) \/ Spawn(c) \/ SpawnFails(c)
  \/ Started(c) \/ StartExited(c) \/ StartTimesOut(c) \/ StartCancelled(c) \/ Forward(c)

ServerStep(g) == Load(g) \/ Exits(g)

(* The steps, by who takes them. *)
LEMMA NextCases ==
  ASSUME Next
  PROVE  \/ \E c \in Chat : ChatStep(c)
         \/ \E c \in Chat, m \in Model : Lock(c, m)
         \/ \E c \in Chat, g \in Group : CreateGroup(c, g) \/ CreateGroupFails(c, g)
         \/ \E g \in Group : Renew(g) \/ StopRenewer(g) \/ ServerStep(g)
         \/ Tick \/ ControlRestart \/ ProxyExit
BY DEF Next, Advance, ChatStep, ServerStep

-----------------------------------------------------------------------------
(***************************************************************************)
(* Types.                                                                  *)
(***************************************************************************)

Chats == [pc : Locked \cup {"idle", "waiting", "forward"},
          model : Model \cup {None}, group : Group \cup {None}]

(* A killed process is a process. *)
LEMMA KillType ==
  ASSUME TypeOK, NEW g \in Group, Kill(g)
  PROVE  proc' \in [Group -> {"none", "loading", "serving", "killed", "orphan"}]
BY DEF Kill, TypeOK

(* Releasing a group keeps the ages within the hold. *)
LEMMA ReleaseType ==
  ASSUME TypeOK, NEW g \in Group, ReleaseGroup(g)
  PROVE  age' \in [Group -> 0..Hold]
BY Times DEF ReleaseGroup, TypeOK

(* A failed Ensure gives the mutex back. *)
LEMMA FailType ==
  ASSUME TypeOK, NEW c \in Chat, chat[c].pc \in Locked, Fail(c)
  PROVE  /\ chat' \in [Chat -> Chats] /\ mu' \in Chat \cup {None}
         /\ \A d \in Chat : chat'[d].pc \in Locked <=> mu' = d
<1>1. Idle \in Chats /\ Idle.pc \notin Locked
  BY Nobody DEF Idle, Chats, Locked
<1> QED BY <1>1, Nobody DEF Fail, TypeOK, Chats

(* A chat that leaves Ensure, or goes on outside it. *)
LEMMA ChatsType ==
  ASSUME TypeOK, NEW c \in Chat, NEW x \in Chats, chat' = [chat EXCEPT ![c] = x],
         mu' \in Chat \cup {None},
         x.pc \in Locked <=> mu' = c, \A d \in Chat \ {c} : mu' = d <=> mu = d
  PROVE  /\ chat' \in [Chat -> Chats]
         /\ \A d \in Chat : chat'[d].pc \in Locked <=> mu' = d
BY DEF TypeOK, Chats

(* Every step keeps the types, and the mutex with who is inside Ensure. *)
LEMMA TypeStep ==
  ASSUME IInv, [Next]_vars
  PROVE  TypeOK'
<1> USE Times, Nobody
<1>1. TypeOK /\ \A c \in Chat : Ensuring(c)
  BY DEF IInv
<1>2. ASSUME NEW c \in Chat, Arrive(c) PROVE TypeOK'
  <2>1. chat[c].pc \notin Locked /\ mu # c
    BY <1>1, <1>2 DEF Arrive, TypeOK, Idle, Locked
  <2>2. chat' \in [Chat -> Chats] /\ \A d \in Chat : chat'[d].pc \in Locked <=> mu' = d
    BY <1>1, <1>2, <2>1, SMTT(30) DEF Arrive, TypeOK, Locked, Chats
  <2> QED BY <1>1, <1>2, <2>2 DEF Arrive, TypeOK, Chats
<1>3. ASSUME NEW c \in Chat, NEW m \in Model, Lock(c, m) PROVE TypeOK'
  <2>1. chat' \in [Chat -> Chats]
    <3> DEFINE x == [chat[c] EXCEPT !.pc = "checking", !.model = m]
    <3>1. chat \in [Chat -> Chats] /\ chat' = [chat EXCEPT ![c] = x]
      BY <1>1, <1>3 DEF Lock, TypeOK, Chats
    <3>2. x \in Chats
      BY <3>1 DEF Chats, Locked
    <3> QED BY <3>1, <3>2
  <2>2. \A d \in Chat : chat'[d].pc \in Locked <=> mu' = d
    BY <1>1, <1>3 DEF Lock, TypeOK, Locked
  <2> QED BY <1>1, <1>3, <2>1, <2>2 DEF Lock, TypeOK, Chats
<1>4. ASSUME NEW c \in Chat, Hit(c) PROVE TypeOK'
  BY <1>1, <1>4 DEF Hit, Healthy, ToForward, Idle, TypeOK, Locked
<1>5. ASSUME NEW c \in Chat, Miss(c) PROVE TypeOK'
  <2>1. chat' \in [Chat -> Chats] /\ \A d \in Chat : chat'[d].pc \in Locked <=> mu' = d
    BY <1>1, <1>5 DEF Miss, TypeOK, Locked, Chats
  <2>2. CASE StopLocked
    <3>1. resident \in Group
      BY <1>1, <2>2 DEF TypeOK, StopLocked
    <3>2. proc' \in [Group -> {"none", "loading", "serving", "killed", "orphan"}]
      BY <1>1, <2>2, <3>1, KillType DEF StopLocked
    <3>3. age' \in [Group -> 0..Hold]
      BY <1>1, <2>2, <3>1, ReleaseType DEF StopLocked
    <3>4. renewer' \in [Group -> [state : {"off", "on", "stopping"}, due : 0..RenewPeriod]]
      BY <1>1, <2>2, <3>1 DEF StopLocked, TypeOK
    <3> QED BY <1>1, <1>5, <2>1, <2>2, <3>2, <3>3, <3>4 DEF Miss, StopLocked, TypeOK, Chats
  <2>3. CASE UNCHANGED <<resident, digest, renewer, proc, age, misses>>
    BY <1>1, <1>5, <2>1, <2>3 DEF Miss, TypeOK, Chats
  <2> QED BY <1>5, <2>2, <2>3 DEF Miss
<1>6. ASSUME NEW c \in Chat, PlanFails(c) PROVE TypeOK'
  <2>1. chat[c].pc \in Locked
    BY <1>6 DEF PlanFails, Locked
  <2> QED BY <1>1, <1>6, <2>1, FailType DEF PlanFails, TypeOK, Chats
<1>7. ASSUME NEW c \in Chat, Spawn(c) PROVE TypeOK'
  BY <1>1, <1>7 DEF Spawn, Ensuring, TypeOK, Locked
<1>8. ASSUME NEW c \in Chat, SpawnFails(c) PROVE TypeOK'
  <2>1. chat[c].pc \in Locked /\ chat[c].group \in Group
    BY <1>1, <1>8 DEF SpawnFails, Locked, Ensuring
  <2> QED BY <1>1, <1>8, <2>1, FailType, ReleaseType DEF SpawnFails, TypeOK, Chats
<1>9. ASSUME NEW c \in Chat, Started(c) PROVE TypeOK'
  <2>1. chat[c].pc \in Locked /\ chat[c].group \in Group /\ chat[c].model \in Model
    BY <1>1, <1>9 DEF Started, Locked, Ensuring
  <2>2. ToForward(chat[c].group) \in Chats /\ ToForward(chat[c].group).pc \notin Locked
    BY <2>1 DEF ToForward, Idle, Chats, Locked
  <2>3. /\ chat' = [chat EXCEPT ![c] = ToForward(chat[c].group)] /\ mu' = None
        /\ \A d \in Chat \ {c} : mu' = d <=> mu = d
    BY <1>1, <1>9, <2>1 DEF Started, TypeOK
  <2>4. chat' \in [Chat -> Chats] /\ \A d \in Chat : chat'[d].pc \in Locked <=> mu' = d
    BY <1>1, <2>2, <2>3, ChatsType
  <2>5. renewer' \in [Group -> [state : {"off", "on", "stopping"}, due : 0..RenewPeriod]]
    BY <1>1, <1>9, <2>1 DEF Started, StartRenew, TypeOK
  <2> QED BY <1>1, <1>9, <2>1, <2>4, <2>5 DEF Started, TypeOK, Chats
<1>10. ASSUME NEW c \in Chat, chat[c].pc = "starting", Undo(c) PROVE TypeOK'
  <2>1. chat[c].pc \in Locked /\ chat[c].group \in Group
    BY <1>1, <1>10 DEF Locked, Ensuring
  <2>2. Fail(c) /\ Kill(chat[c].group) /\ ReleaseGroup(chat[c].group)
    BY <1>10 DEF Undo
  <2> QED BY <1>1, <1>10, <2>1, <2>2, FailType, ReleaseType, KillType DEF Undo, TypeOK, Chats
<1>11. ASSUME NEW c \in Chat, Forward(c) PROVE TypeOK'
  <2>1. Idle \in Chats /\ Idle.pc \notin Locked /\ chat[c].pc \notin Locked
    BY <1>11 DEF Idle, Chats, Locked, Forward
  <2>2. /\ chat' = [chat EXCEPT ![c] = Idle] /\ mu' = mu /\ mu # c
    BY <1>1, <1>11, <2>1 DEF Forward, TypeOK
  <2>3. chat' \in [Chat -> Chats] /\ \A d \in Chat : chat'[d].pc \in Locked <=> mu' = d
    BY <1>1, <2>1, <2>2, ChatsType DEF TypeOK
  <2> QED BY <1>1, <1>11, <2>3 DEF Forward, TypeOK, Chats
<1>12. ASSUME NEW c \in Chat, NEW g \in Group, CreateGroup(c, g) PROVE TypeOK'
  <2>1. chat' \in [Chat -> Chats]
    <3> DEFINE x == [chat[c] EXCEPT !.pc = "granted", !.group = g]
    <3>1. chat \in [Chat -> Chats] /\ chat' = [chat EXCEPT ![c] = x]
      BY <1>1, <1>12 DEF CreateGroup, TypeOK, Chats
    <3>2. x \in Chats
      BY <3>1 DEF Chats, Locked
    <3> QED BY <3>1, <3>2
  <2>2. \A d \in Chat : chat'[d].pc \in Locked <=> mu' = d
    BY <1>1, <1>12 DEF CreateGroup, TypeOK, Locked
  <2>3. age' \in [Group -> 0..Hold]
    BY <1>1, <1>12 DEF CreateGroup, TypeOK
  <2> QED BY <1>1, <1>12, <2>1, <2>2, <2>3 DEF CreateGroup, TypeOK, Chats
<1>13. ASSUME NEW c \in Chat, NEW g \in Group, CreateGroupFails(c, g) PROVE TypeOK'
  <2>1. chat[c].pc \in Locked
    BY <1>13 DEF CreateGroupFails, Locked
  <2>2. age' \in [Group -> 0..Hold]
    BY <1>1, <1>13 DEF CreateGroupFails, TypeOK
  <2> QED BY <1>1, <1>13, <2>1, <2>2, FailType DEF CreateGroupFails, TypeOK, Chats
<1>14. ASSUME NEW g \in Group, Renew(g) PROVE TypeOK'
  <2>1. /\ misses' \in 0..2 /\ age' \in [Group -> 0..Hold]
        /\ renewer' \in [Group -> [state : {"off", "on", "stopping"}, due : 0..RenewPeriod]]
    BY <1>1, <1>14 DEF Renew, TypeOK
  <2> QED BY <1>1, <1>14, <2>1 DEF Renew, manager, TypeOK
<1>15. ASSUME NEW g \in Group, StopRenewer(g) PROVE TypeOK'
  BY <1>1, <1>15 DEF StopRenewer, NoRenewer, manager, TypeOK
<1>16. ASSUME NEW g \in Group, ServerStep(g) PROVE TypeOK'
  BY <1>1, <1>16 DEF ServerStep, Load, Exits, manager, TypeOK
<1>17. CASE Tick
  <2>1. waited' \in 0..StartLimit
    BY <1>1, <1>17 DEF Tick, TypeOK
  <2>2. age' \in [Group -> 0..Hold]
    BY <1>1, <1>17 DEF Tick, TypeOK
  <2>3. renewer' \in [Group -> [state : {"off", "on", "stopping"}, due : 0..RenewPeriod]]
    BY <1>1, <1>17 DEF Tick, TypeOK
  <2> QED BY <1>1, <1>17, <2>1, <2>2, <2>3 DEF Tick, TypeOK
<1>18. CASE ControlRestart
  BY <1>1, <1>18 DEF ControlRestart, manager, TypeOK
<1>19. CASE ProxyExit
  <2>1. proc' \in [Group -> {"none", "loading", "serving", "killed", "orphan"}]
    BY <1>1, <1>19 DEF ProxyExit, TypeOK
  <2> QED BY <1>1, <1>19, <2>1 DEF ProxyExit, Idle, NoRenewer, TypeOK, Locked
<1>20. CASE UNCHANGED vars
  BY <1>1, <1>20 DEF vars, manager, TypeOK
<1> QED
  BY <1>2, <1>3, <1>4, <1>5, <1>6, <1>7, <1>8, <1>9, <1>10, <1>11, <1>12, <1>13, <1>14,
     <1>15, <1>16, <1>17, <1>18, <1>19, <1>20, NextCases
  DEF ChatStep, StartExited, StartTimesOut, StartCancelled
-----------------------------------------------------------------------------
(***************************************************************************)
(* The mutex and the processes.                                            *)
(***************************************************************************)

(* At most one chat is inside Ensure. *)
LEMMA OneInside ==
  ASSUME TypeOK, NEW c \in Chat, chat[c].pc \in Locked
  PROVE  mu = c /\ \A d \in Chat \ {c} : chat[d].pc \notin Locked
BY DEF TypeOK

(* A chat inside Ensure moves: what the others do is as before. *)
LEMMA OthersKeep ==
  ASSUME IInv, NEW c \in Chat, chat[c].pc \in Locked,
         \A d \in Chat \ {c} : chat'[d] = chat[d],
         Ensuring(c)', Vacant(c)'
  PROVE  \A d \in Chat : Ensuring(d)' /\ Vacant(d)'
<1> SUFFICES ASSUME NEW d \in Chat \ {c} PROVE Ensuring(d)' /\ Vacant(d)'
  OBVIOUS
<1>1. chat[d].pc \notin {"checking", "planning", "granted", "starting"}
  BY OneInside DEF IInv, Locked
<1>2. Ensuring(d)
  BY DEF IInv
<1> QED BY <1>1, <1>2 DEF Ensuring, Vacant

Safe == NoStrayServer /\ \A c \in Chat : Ensuring(c) /\ Vacant(c)

(* A step of a chat keeps sight of the servers. *)
LEMMA SafeChatStep ==
  ASSUME IInv, TypeOK', NEW c \in Chat, ChatStep(c)
  PROVE  Safe'
<1> USE Nobody
<1>1. TypeOK /\ NoStrayServer /\ Ensuring(c) /\ Vacant(c)
  BY DEF IInv
<1>2. chat[c].pc = "starting" /\ Undo(c) => Safe'
  <2> SUFFICES ASSUME chat[c].pc = "starting", Undo(c) PROVE Safe'
    OBVIOUS
  <2>1. chat[c].pc \in Locked /\ resident = None /\ mu = c /\ chat[c].group \in Group
    BY <1>1, OneInside DEF Locked, Vacant, Ensuring
  <2>2. \A g \in Group : Using(g) => g = chat[c].group
    BY <2>1 DEF Using
  <2>3. NoStrayServer'
    BY <1>1, <2>1, <2>2 DEF NoStrayServer, Undo, Kill, TypeOK
  <2>4. Ensuring(c)' /\ Vacant(c)'
    BY <1>1 DEF Undo, Fail, Idle, Ensuring, Vacant, TypeOK
  <2> QED BY <1>1, <2>1, <2>3, <2>4, OthersKeep DEF Undo, Fail, Safe, TypeOK
<1>3. CASE Arrive(c)
  <2>1. \A d \in Chat : Ensuring(d)' /\ Vacant(d)'
    BY <1>3 DEF Arrive, Idle, IInv, TypeOK, Ensuring, Vacant
  <2>2. \A g \in Group : Using(g) => Using(g)'
    BY <1>1, <1>3 DEF Arrive, Using, TypeOK
  <2> QED BY <1>1, <1>3, <2>1, <2>2 DEF Arrive, NoStrayServer, Safe
<1>4. CASE Hit(c)
  <2>1. chat[c].pc \in Locked /\ mu = c /\ chat[c].group = None
    BY <1>1, <1>4, OneInside DEF Hit, Locked, Ensuring
  <2>2. \A g \in Group : Using(g) => Using(g)'
    BY <1>4, <2>1 DEF Using, Hit
  <2>3. Ensuring(c)' /\ Vacant(c)'
    BY <1>1, <1>4 DEF Hit, ToForward, Idle, Ensuring, Vacant, TypeOK
  <2> QED BY <1>1, <1>4, <2>1, <2>2, <2>3, OthersKeep DEF Hit, NoStrayServer, Safe, TypeOK
<1>5. CASE Miss(c)
  <2>1. chat[c].pc \in Locked /\ mu = c /\ chat[c].group = None
    BY <1>1, <1>5, OneInside DEF Miss, Locked, Ensuring
  <2>2. \A g \in Group : Using(g) => g = resident
    BY <2>1 DEF Using
  <2>3. NoStrayServer'
    <3>1. CASE StopLocked
      BY <1>1, <2>2, <3>1 DEF StopLocked, Kill, NoStrayServer, TypeOK
    <3>2. CASE resident = None /\ UNCHANGED proc
      BY <1>1, <2>2, <3>2 DEF NoStrayServer
    <3> QED BY <1>5, <3>1, <3>2 DEF Miss
  <2>4. Ensuring(c)' /\ Vacant(c)'
    BY <1>1, <1>5 DEF Miss, StopLocked, Ensuring, Vacant, TypeOK
  <2> QED BY <1>1, <1>5, <2>1, <2>3, <2>4, OthersKeep DEF Miss, Safe, TypeOK
<1>6. CASE PlanFails(c)
  <2>1. chat[c].pc \in Locked /\ mu = c /\ chat[c].group = None
    BY <1>1, <1>6, OneInside DEF PlanFails, Locked, Ensuring
  <2>2. \A g \in Group : Using(g) => Using(g)'
    BY <1>6, <2>1 DEF Using, PlanFails
  <2>3. Ensuring(c)' /\ Vacant(c)'
    BY <1>1, <1>6 DEF PlanFails, Fail, Idle, Ensuring, Vacant, TypeOK
  <2> QED BY <1>1, <1>6, <2>1, <2>2, <2>3, OthersKeep
          DEF PlanFails, Fail, NoStrayServer, Safe, TypeOK
<1>7. CASE Spawn(c)
  <2>1. chat[c].pc \in Locked /\ mu = c /\ chat[c].group \in Group
    BY <1>1, <1>7, OneInside DEF Spawn, Locked, Ensuring
  <2>2. chat'[c].group = chat[c].group
    BY <1>1, <1>7 DEF Spawn, TypeOK
  <2>3. NoStrayServer'
    BY <1>1, <1>7, <2>1, <2>2 DEF Spawn, Using, NoStrayServer, TypeOK
  <2>4. Ensuring(c)' /\ Vacant(c)'
    BY <1>1, <1>7 DEF Spawn, Ensuring, Vacant, TypeOK
  <2> QED BY <1>1, <1>7, <2>1, <2>3, <2>4, OthersKeep DEF Spawn, Safe, TypeOK
<1>8. CASE SpawnFails(c)
  <2>1. /\ chat[c].pc \in Locked /\ mu = c /\ chat[c].group \in Group
        /\ proc[chat[c].group] = "none" /\ resident = None
    BY <1>1, <1>8, OneInside DEF SpawnFails, Locked, Ensuring, Vacant
  <2>2. \A g \in Group : Using(g) => g = chat[c].group
    BY <2>1 DEF Using
  <2>3. NoStrayServer'
    BY <1>1, <1>8, <2>1, <2>2 DEF SpawnFails, NoStrayServer
  <2>4. Ensuring(c)' /\ Vacant(c)'
    BY <1>1, <1>8 DEF SpawnFails, Fail, Idle, Ensuring, Vacant, TypeOK
  <2> QED BY <1>1, <1>8, <2>1, <2>3, <2>4, OthersKeep DEF SpawnFails, Fail, Safe, TypeOK
<1>9. CASE Started(c)
  <2>1. chat[c].pc \in Locked /\ mu = c /\ chat[c].group \in Group /\ resident = None
    BY <1>1, <1>9, OneInside DEF Started, Locked, Ensuring, Vacant
  <2>2. \A g \in Group : Using(g) => g = chat[c].group
    BY <2>1 DEF Using
  <2>3. NoStrayServer'
    BY <1>1, <1>9, <2>2 DEF Started, Using, NoStrayServer
  <2>4. Ensuring(c)' /\ Vacant(c)'
    BY <1>1, <1>9 DEF Started, ToForward, Idle, Ensuring, Vacant, TypeOK
  <2> QED BY <1>1, <1>9, <2>1, <2>3, <2>4, OthersKeep DEF Started, Safe, TypeOK
<1>10. CASE Forward(c)
  <2>1. mu # c
    BY <1>1, <1>10 DEF Forward, Locked, TypeOK
  <2>2. \A g \in Group : Using(g) => Using(g)'
    BY <1>1, <1>10, <2>1 DEF Forward, Using, TypeOK
  <2>3. \A d \in Chat : Ensuring(d)' /\ Vacant(d)'
    BY <1>10 DEF Forward, Idle, IInv, TypeOK, Ensuring, Vacant
  <2> QED BY <1>1, <1>10, <2>2, <2>3 DEF Forward, NoStrayServer, Safe
<1> QED
  BY <1>2, <1>3, <1>4, <1>5, <1>6, <1>7, <1>8, <1>9, <1>10
  DEF ChatStep, StartExited, StartTimesOut, StartCancelled

(* Every step keeps sight of the servers. *)
LEMMA SafeStep ==
  ASSUME IInv, TypeOK', [Next]_vars
  PROVE  Safe'
<1> USE Nobody
<1>1. TypeOK /\ NoStrayServer /\ \A c \in Chat : Ensuring(c) /\ Vacant(c)
  BY DEF IInv
<1>2. ASSUME NEW c \in Chat, NEW m \in Model, Lock(c, m) PROVE Safe'
  <2>1. \A d \in Chat : Ensuring(d)' /\ Vacant(d)'
    BY <1>1, <1>2 DEF Lock, TypeOK, Ensuring, Vacant
  <2>2. \A g \in Group : Using(g) => Using(g)'
    BY <1>2 DEF Lock, Using
  <2> QED BY <1>1, <1>2, <2>1, <2>2 DEF Lock, NoStrayServer, Safe
<1>3. ASSUME NEW c \in Chat, NEW g \in Group, CreateGroup(c, g) PROVE Safe'
  <2>1. chat[c].pc \in Locked /\ mu = c /\ chat[c].group = None /\ proc[g] = "none"
    BY <1>1, <1>3, OneInside DEF CreateGroup, Unused, Locked, Ensuring
  <2>2. \A f \in Group : Using(f) => Using(f)'
    BY <1>3, <2>1 DEF CreateGroup, Using
  <2>3. Ensuring(c)' /\ Vacant(c)'
    BY <1>1, <1>3, <2>1 DEF CreateGroup, Ensuring, Vacant, TypeOK
  <2> QED BY <1>1, <1>3, <2>1, <2>2, <2>3, OthersKeep DEF CreateGroup, NoStrayServer, Safe, TypeOK
<1>4. ASSUME NEW c \in Chat, NEW g \in Group, CreateGroupFails(c, g) PROVE Safe'
  <2>1. chat[c].pc \in Locked /\ mu = c /\ chat[c].group = None
    BY <1>1, <1>4, OneInside DEF CreateGroupFails, Locked, Ensuring
  <2>2. \A f \in Group : Using(f) => Using(f)'
    BY <1>4, <2>1 DEF CreateGroupFails, Using
  <2>3. Ensuring(c)' /\ Vacant(c)'
    BY <1>1, <1>4 DEF CreateGroupFails, Fail, Idle, Ensuring, Vacant, TypeOK
  <2> QED BY <1>1, <1>4, <2>1, <2>2, <2>3, OthersKeep
          DEF CreateGroupFails, Fail, NoStrayServer, Safe, TypeOK
<1>5. CASE UNCHANGED <<mu, chat, resident, proc>>
  BY <1>1, <1>5 DEF NoStrayServer, Using, Ensuring, Vacant, Safe
<1>6. ASSUME NEW g \in Group, ServerStep(g) PROVE Safe'
  <2>1. /\ UNCHANGED <<mu, chat, resident>>
        /\ \A f \in Group : proc'[f] \in {"loading", "serving"} => proc[f] \in {"loading", "serving"}
        /\ \A f \in Group : proc[f] = "none" => proc'[f] = "none"
    BY <1>1, <1>6 DEF ServerStep, Load, Exits, manager, TypeOK
  <2> QED BY <1>1, <2>1 DEF NoStrayServer, Using, Ensuring, Vacant, Safe
<1>7. CASE ProxyExit
  <2>1. \A g \in Group : proc'[g] \notin {"loading", "serving"}
    BY <1>1, <1>7 DEF ProxyExit, TypeOK
  <2>2. \A c \in Chat : Ensuring(c)' /\ Vacant(c)'
    BY <1>7 DEF ProxyExit, Idle, Ensuring, Vacant
  <2> QED BY <2>1, <2>2 DEF NoStrayServer, Safe
<1>8. (\E g \in Group : Renew(g) \/ StopRenewer(g)) \/ Tick \/ ControlRestart \/ UNCHANGED vars
        => UNCHANGED <<mu, chat, resident, proc>>
  BY DEF Renew, StopRenewer, Tick, ControlRestart, vars, manager
<1> QED BY <1>2, <1>3, <1>4, <1>5, <1>6, <1>7, <1>8, SafeChatStep, NextCases
-----------------------------------------------------------------------------
(***************************************************************************)
(* The clocks.                                                             *)
(***************************************************************************)

(* A missed renewal and a period are shorter than Control's hold. *)
LEMMA SlackBound ==
  /\ Slack \in Nat /\ StartLimit <= Slack /\ RenewPeriod <= Slack
  /\ Slack + RenewPeriod < Hold
BY Times DEF Slack

(* A chat outside granted and starting says nothing of ages, and there is   *)
(* at most one inside.                                                      *)
LEMMA OthersYoung ==
  ASSUME IInv, NEW c \in Chat, chat[c].pc \in Locked,
         \A d \in Chat \ {c} : chat'[d] = chat[d], Young(c)'
  PROVE  \A d \in Chat : Young(d)'
BY OneInside DEF IInv, Locked, Young

(* A step of a chat keeps the clocks of the resident group and the new one. *)
LEMMA ClockChatStep ==
  ASSUME IInv, NEW c \in Chat, ChatStep(c)
  PROVE  Renewed' /\ \A d \in Chat : Young(d)'
<1> USE Nobody
<1>1. TypeOK /\ Renewed /\ Ensuring(c) /\ Vacant(c) /\ Young(c)
  BY DEF IInv
<1>2. ASSUME chat[c].pc \in Locked, Fail(c), resident' = None
      PROVE  Renewed' /\ \A d \in Chat : Young(d)'
  <2>1. Young(c)' /\ \A d \in Chat \ {c} : chat'[d] = chat[d]
    BY <1>1, <1>2 DEF Fail, Idle, Young, TypeOK
  <2> QED BY <1>2, <2>1, OthersYoung DEF Renewed
<1>3. CASE Arrive(c)
  <2>1. Renewed'
    BY <1>1, <1>3 DEF Arrive, Renewed
  <2>2. \A d \in Chat : Young(d)'
    BY <1>3 DEF Arrive, IInv, Young, TypeOK
  <2> QED BY <2>1, <2>2
<1>4. CASE Hit(c) \/ Forward(c)
  <2>1. Renewed'
    BY <1>1, <1>4 DEF Hit, Forward, Renewed
  <2>2. chat'[c].pc \in {"forward", "idle"} /\ \A d \in Chat \ {c} : chat'[d] = chat[d]
    <3>1. CASE Hit(c)
      BY <1>1, <3>1 DEF Hit, ToForward, Idle, TypeOK
    <3>2. CASE Forward(c)
      BY <1>1, <3>2 DEF Forward, Idle, TypeOK
    <3> QED BY <1>4, <3>1, <3>2
  <2>3. UNCHANGED <<misses, age, waited>>
    BY <1>4 DEF Hit, Forward
  <2>4. \A d \in Chat : Young(d)'
    BY <2>2, <2>3 DEF IInv, Young
  <2> QED BY <2>1, <2>4
<1>5. CASE Miss(c)
  <2>1. Renewed'
    BY <1>5 DEF Miss, StopLocked, Renewed
  <2>2. chat[c].pc \in Locked /\ Young(c)' /\ \A d \in Chat \ {c} : chat'[d] = chat[d]
    BY <1>1, <1>5 DEF Miss, Locked, Young, TypeOK
  <2> QED BY <2>1, <2>2, OthersYoung
<1>6. CASE PlanFails(c) \/ SpawnFails(c)
  BY <1>1, <1>2, <1>6 DEF PlanFails, SpawnFails, Locked, Vacant
<1>7. CASE Spawn(c)
  <2>1. chat[c].pc \in Locked /\ resident' = None /\ \A d \in Chat \ {c} : chat'[d] = chat[d]
    BY <1>1, <1>7 DEF Spawn, Locked, Vacant, TypeOK
  <2>2. chat'[c].pc = "starting" /\ chat'[c].group = chat[c].group
    BY <1>1, <1>7 DEF Spawn, TypeOK
  <2>3. Young(c)'
    BY <1>1, <1>7, <2>2 DEF Spawn, Young
  <2> QED BY <2>1, <2>3, OthersYoung DEF Renewed
<1>8. CASE Started(c)
  <2>1. /\ chat[c].pc \in Locked /\ chat[c].group \in Group
        /\ \A d \in Chat \ {c} : chat'[d] = chat[d]
    BY <1>1, <1>8 DEF Started, Locked, Ensuring, TypeOK
  <2>2. Young(c)'
    BY <1>1, <1>8 DEF Started, ToForward, Idle, Young, TypeOK
  <2>3. misses >= 1 /\ (misses = 1 => age[chat[c].group] <= Slack)
    BY <1>1, <1>8, <2>1, SlackBound, Times DEF Started, Young, TypeOK
  <2>4. resident' = chat[c].group /\ renewer'[resident'] = [state |-> "on", due |-> 0]
    BY <1>1, <1>8, <2>1 DEF Started, StartRenew, TypeOK
  <2>5. Renewed'
    BY <1>1, <1>8, <2>3, <2>4, SlackBound DEF Started, Renewed, TypeOK
  <2> QED BY <2>1, <2>2, <2>5, OthersYoung
<1>9. ASSUME chat[c].pc = "starting", Undo(c)
      PROVE  Renewed' /\ \A d \in Chat : Young(d)'
  BY <1>1, <1>2, <1>9 DEF Undo, Locked, Vacant
<1> QED
  BY <1>3, <1>4, <1>5, <1>6, <1>7, <1>8, <1>9
  DEF ChatStep, StartExited, StartTimesOut, StartCancelled

(* Every step keeps the clocks, the passing of time included. *)
LEMMA ClockStep ==
  ASSUME IInv, [Next]_vars
  PROVE  Renewed' /\ \A d \in Chat : Young(d)'
<1> USE Nobody
<1>1. TypeOK /\ Renewed /\ \A c \in Chat : Ensuring(c) /\ Vacant(c) /\ Young(c)
  BY DEF IInv
<1>2. ASSUME NEW c \in Chat, NEW m \in Model, Lock(c, m)
      PROVE  Renewed' /\ \A d \in Chat : Young(d)'
  <2>1. Renewed'
    BY <1>1, <1>2 DEF Lock, Renewed
  <2>2. \A d \in Chat : Young(d)'
    BY <1>1, <1>2 DEF Lock, TypeOK, Young
  <2> QED BY <2>1, <2>2
<1>3. ASSUME NEW c \in Chat, NEW g \in Group, CreateGroup(c, g)
      PROVE  Renewed' /\ \A d \in Chat : Young(d)'
  <2>1. chat[c].pc \in Locked /\ resident' = None /\ \A d \in Chat \ {c} : chat'[d] = chat[d]
    BY <1>1, <1>3 DEF CreateGroup, Locked, Vacant, TypeOK
  <2>2. Young(c)'
    BY <1>1, <1>3 DEF CreateGroup, Young, TypeOK
  <2> QED BY <2>1, <2>2, OthersYoung DEF Renewed
<1>4. ASSUME NEW c \in Chat, NEW g \in Group, CreateGroupFails(c, g)
      PROVE  Renewed' /\ \A d \in Chat : Young(d)'
  <2>1. chat[c].pc \in Locked /\ resident' = None /\ \A d \in Chat \ {c} : chat'[d] = chat[d]
    BY <1>1, <1>4 DEF CreateGroupFails, Fail, Locked, Vacant, TypeOK
  <2>2. Young(c)'
    BY <1>1, <1>4 DEF CreateGroupFails, Fail, Idle, Young, TypeOK
  <2> QED BY <2>1, <2>2, OthersYoung DEF Renewed
<1>5. ASSUME NEW g \in Group, Renew(g)
      PROVE  Renewed' /\ \A d \in Chat : Young(d)'
  <2>1. /\ UNCHANGED <<chat, waited, resident>> /\ renewer'[g].due = 0
        /\ renewer'[g].state = renewer[g].state
        /\ \A f \in Group \ {g} : renewer'[f] = renewer[f] /\ age'[f] = age[f]
        /\ age'[g] = 0 \/ age'[g] = age[g]
    BY <1>1, <1>5, Times DEF Renew, manager, TypeOK
  <2>2. \A d \in Chat : Young(d)'
    <3> SUFFICES ASSUME NEW d \in Chat, chat[d].pc \in {"granted", "starting"}
                 PROVE  Young(d)'
      BY <2>1 DEF Young
    <3>1. chat[d].group \in Group /\ misses' = misses
      BY <1>1, <1>5 DEF Ensuring, Vacant, Renew
    <3>2. age'[chat[d].group] <= age[chat[d].group] /\ waited \in Nat /\ age[chat[d].group] \in Nat
      BY <1>1, <2>1, <3>1, Times DEF TypeOK
    <3> QED BY <1>1, <2>1, <3>1, <3>2 DEF Young, TypeOK
  <2>3. CASE g # resident
    <3>1. misses' = misses
      BY <1>5, <2>3 DEF Renew
    <3>2. resident # None => resident \in Group
      BY <1>1 DEF TypeOK
    <3>3. Renewed'
      BY <1>1, <2>1, <2>3, <3>1, <3>2 DEF Renewed
    <3> QED BY <2>2, <3>3
  <2>4. CASE g = resident
    <3>1. /\ renewer[g].due = RenewPeriod /\ age[g] \in Nat
          /\ misses = 0 => age[g] <= RenewPeriod
          /\ misses = 1 => age[g] <= RenewPeriod + Slack
      <4>1. renewer[g].due \in 0..RenewPeriod /\ age[g] \in Nat
        BY <1>1, Times DEF TypeOK
      <4>2. renewer[g].due >= RenewPeriod
        BY <1>5 DEF Renew
      <4>3. renewer[g].due = RenewPeriod
        BY <4>1, <4>2, Times
      <4> QED BY <1>1, <2>4, <4>1, <4>3 DEF Renewed
    <3>2. misses < 2 => g \in Held
      BY <1>1, <3>1, Times, SlackBound DEF Held, TypeOK
    <3>3. \/ age'[g] = 0 /\ misses' = 0
          \/ age' = age /\ misses' = 2
          \/ age' = age /\ misses = 0 /\ misses' = 1
      BY <1>1, <1>5, <2>4, <3>2 DEF Renew, TypeOK
    <3>4. Renewed'
      BY <1>1, <2>1, <2>4, <3>1, <3>3, SlackBound, Times DEF Renewed
    <3> QED BY <2>2, <3>4
  <2> QED BY <2>3, <2>4
<1>6. ASSUME NEW g \in Group, StopRenewer(g)
      PROVE  Renewed' /\ \A d \in Chat : Young(d)'
  <2>1. \A d \in Chat : Young(d)'
    BY <1>1, <1>6 DEF StopRenewer, manager, Young
  <2>2. resident # None => g # resident /\ resident \in Group
    BY <1>1, <1>6 DEF StopRenewer, Renewed, TypeOK
  <2>3. Renewed'
    BY <1>1, <1>6, <2>2 DEF StopRenewer, manager, Renewed, TypeOK
  <2> QED BY <2>1, <2>3
<1>7. CASE UNCHANGED <<manager, renewer, age, misses>>
  BY <1>1, <1>7 DEF manager, Renewed, Young
<1>8. CASE Tick
  <2>1. \A d \in Chat : Young(d)'
    <3> SUFFICES ASSUME NEW d \in Chat, chat[d].pc \in {"granted", "starting"}
                 PROVE  Young(d)'
      BY <1>8 DEF Young, Tick
    <3>1. chat[d].pc = "starting" /\ waited' = waited + 1 /\ UNCHANGED <<chat, misses>>
      BY <1>8 DEF Tick
    <3>2. chat[d].group \in Group
      BY <1>1 DEF Ensuring
    <3>3. age'[chat[d].group] <= age[chat[d].group] + 1 /\ age[chat[d].group] \in Nat
          /\ age'[chat[d].group] \in Nat /\ waited \in Nat
      BY <1>1, <1>8, <3>2, Times DEF Tick, TypeOK
    <3> QED BY <1>1, <3>1, <3>2, <3>3 DEF Young, TypeOK
  <2>2. Renewed'
    <3> SUFFICES ASSUME resident # None PROVE Renewed'
      BY <1>8 DEF Renewed, Tick
    <3>1. resident \in Group /\ renewer[resident].state = "on"
      BY <1>1 DEF TypeOK, Renewed
    <3>2. renewer'[resident].state = "on" /\ renewer'[resident].due = renewer[resident].due + 1
      BY <1>1, <1>8, <3>1 DEF Tick, TypeOK
    <3>3. age'[resident] <= age[resident] + 1 /\ age[resident] \in Nat /\ age'[resident] \in Nat
          /\ renewer[resident].due \in Nat
      BY <1>1, <1>8, <3>1, Times DEF Tick, TypeOK
    <3> QED BY <1>1, <1>8, <3>1, <3>2, <3>3, SlackBound DEF Renewed, Tick
  <2> QED BY <2>1, <2>2
<1>9. CASE ControlRestart
  <2>1. \A d \in Chat : Young(d)'
    <3> SUFFICES ASSUME NEW d \in Chat, chat[d].pc \in {"granted", "starting"}
                 PROVE  Young(d)'
      BY <1>9 DEF Young, ControlRestart, manager
    <3>1. chat[d].group \in Group /\ Using(chat[d].group)
      BY <1>1 DEF Ensuring, Using, TypeOK, Locked
    <3> QED BY <1>9, <3>1 DEF ControlRestart, Young
  <2>2. Renewed'
    <3>1. resident # None => misses' = 2
      BY <1>1, <1>9 DEF ControlRestart, Using, TypeOK
    <3> QED BY <1>1, <1>9, <3>1 DEF ControlRestart, manager, Renewed
  <2> QED BY <2>1, <2>2
<1>10. CASE ProxyExit
  BY <1>10 DEF ProxyExit, Idle, Renewed, Young
<1>11. (\E g \in Group : ServerStep(g)) \/ UNCHANGED vars
         => UNCHANGED <<manager, renewer, age, misses>>
  BY DEF ServerStep, Load, Exits, vars
<1> QED
  BY <1>2, <1>3, <1>4, <1>5, <1>6, <1>7, <1>8, <1>9, <1>10, <1>11, ClockChatStep, NextCases

-----------------------------------------------------------------------------
(* Every step keeps the invariant. *)
LEMMA StepIInv == IInv /\ [Next]_vars => IInv'
<1> SUFFICES ASSUME IInv, [Next]_vars PROVE IInv'
  OBVIOUS
<1>1. TypeOK'
  BY TypeStep
<1>2. Safe'
  BY <1>1, SafeStep
<1>3. Renewed' /\ \A c \in Chat : Young(c)'
  BY ClockStep
<1> QED BY <1>1, <1>2, <1>3 DEF IInv, Safe

(* The manager's group, its clocks and its processes stay in step through  *)
(* every interleaving of chats, renewals, servers, faults and exits.        *)
THEOREM ManagerInvariant == Spec => []IInv
BY InitIInv, StepIInv, PTL DEF Spec

(* Types, and a chat holds Manager.mu exactly while it is inside Ensure. *)
THEOREM TypeCorrect == Spec => []TypeOK
<1>1. IInv => TypeOK
  BY DEF IInv
<1> QED BY <1>1, ManagerInvariant, PTL

(* No llama-server the manager started and did not kill is lost sight of:   *)
(* every error path of Ensure stops it, and a new one is started only when  *)
(* the place of the resident one is vacant.                                 *)
THEOREM ServersNeverStray == Spec => []NoStrayServer
<1>1. IInv => NoStrayServer
  BY DEF IInv
<1> QED BY <1>1, ManagerInvariant, PTL

(* The resident group is lost at Control only after two renewals in a row   *)
(* failed, or a restart: a start and a period, or two periods, are shorter  *)
(* than Control's hold.                                                     *)
THEOREM ResidentGroupKept == Spec => []GroupKept
<1>1. IInv => GroupKept
  <2> SUFFICES ASSUME IInv, resident # None, misses < 2 PROVE age[resident] < Hold /\ resident \in Group
    BY DEF GroupKept, Held
  <2>1. resident \in Group /\ renewer[resident].due \in 0..RenewPeriod /\ age[resident] \in Nat
        /\ misses \in 0..2
    BY Times DEF IInv, TypeOK
  <2> QED BY <2>1, SlackBound, Times DEF IInv, Renewed
<1> QED BY <1>1, ManagerInvariant, PTL
=============================================================================
