------------------------- MODULE StageSessionProofs -------------------------
(***************************************************************************)
(* Proofs about StageSession, for any number of stages, hidden sizes,      *)
(* positions and widths and every choice of what may go wrong.             *)
(***************************************************************************)
EXTENDS StageSession, SequenceTheorems, TLAPS

(* The activation of the current call as stage s should be given it. *)
Upto(s) == [i \in 1..(s - 1) |-> i]
Own(s) == [input |-> calls, through |-> Upto(s)]

(* The frame of the call that holds the session's mutex. *)
CurrentFrame ==
  /\ sent => at # 0
  /\ at # 0 => calls > 0 /\ frame.seq = next /\ frame.value = Own(at)

(* The stage has executed the current call's activation last, or has been   *)
(* restarted since it answered.                                             *)
Answered(s) ==
  \/ sequence[s] = next + 1 /\ executed[s][next + 1] = Own(s)
  \/ sequence[s] = 0 /\ late[s] = {}

(* A connection carries the current frame to the stage the call is at, or   *)
(* that stage's answer to it, and nothing else.                             *)
Carried(s) ==
  /\ link[s].request # None =>
       at = s /\ sent /\ link[s].request = frame /\ link[s].reply = None
  /\ link[s].reply # None =>
       at = s /\ sent /\ link[s].reply = Through(s, frame) /\ Answered(s)

(* No stage is ahead of the session by more than one, and one that is       *)
(* behind has been restarted and can never catch up.                        *)
InStep(s) ==
  /\ sequence[s] <= next + 1
  /\ \A f \in late[s] : f.seq <= next
  /\ sequence[s] < next => sequence[s] = 0 /\ \A f \in late[s] : f.seq > 0

(* A stage the call has passed has answered it. *)
Passed(s) == s < at => Answered(s)

(* A stage that the call has not reached knows only earlier calls. *)
Reached(s) == at = 0 \/ s < at \/ (s = at /\ sent)
Recent(s, v) == v.input <= calls /\ (~Reached(s) => v.input < calls)
Earlier(s) ==
  /\ \A f \in late[s] : Recent(s, f.value)
  /\ \A k \in 1..Len(executed[s]) : Recent(s, executed[s][k])

(* HistoryAgrees, of one stage. *)
Agrees(s) ==
  \A k \in 1..next :
    k <= Len(executed[s]) => executed[s][k] = [input |-> returned[k].call, through |-> Upto(s)]

StageInv(s) == Carried(s) /\ InStep(s) /\ Passed(s) /\ Earlier(s) /\ Agrees(s)

IInv ==
  /\ TypeOK /\ CurrentFrame /\ ResultIsOwn
  /\ \A s \in Stage : StageInv(s)

Conn == [open : BOOLEAN, serving : BOOLEAN, request : Slot, reply : Slot]
-----------------------------------------------------------------------------
(* What the assumption says of the constants. *)
LEMMA Constants ==
  /\ N \in Nat /\ N >= 2 /\ MaxRuns \in Nat /\ None \notin Frames
  /\ Stage \subseteq Nat /\ \A s \in Stage : s > 0
  /\ Widths \subseteq Nat
BY StageAssumption DEF Stage

(* A closed and a fresh connection are connections. *)
LEMMA Blank == Closed \in Conn /\ Fresh \in Conn
BY DEF Closed, Fresh, Conn, Slot

(* What one stage adds to what an activation has been through. *)
LEMMA UptoNext ==
  ASSUME NEW s \in Stage
  PROVE  Upto(s) \in Seq(Stage) /\ Append(Upto(s), s) = Upto(s + 1)
<1>1. s \in Nat /\ s > 0 /\ s - 1 \in Nat /\ s <= N /\ N \in Nat
  BY Constants DEF Stage
<1>2. Upto(s) \in [1..(s - 1) -> Stage]
  BY <1>1 DEF Upto, Stage
<1>3. Upto(s) \in Seq(Stage) /\ Len(Upto(s)) = s - 1
  BY <1>1, <1>2
<1>4. Append(Upto(s), s) = [i \in 1..s |-> i]
  <2>1. /\ Append(Upto(s), s) \in Seq(Stage) /\ Len(Append(Upto(s), s)) = s
        /\ \A i \in 1..s : Append(Upto(s), s)[i] = IF i < s THEN Upto(s)[i] ELSE s
    BY <1>1, <1>3
  <2>2. \A i \in 1..s : Append(Upto(s), s)[i] = i
    BY <1>1, <2>1 DEF Upto
  <2> DEFINE a == Append(Upto(s), s)
  <2>3. a \in [1..s -> Stage]
    BY <2>1, LenProperties
  <2> HIDE DEF a
  <2> QED BY <2>2, <2>3 DEF a
<1> QED BY <1>1, <1>3, <1>4 DEF Upto

(* What the type says of the session and of each stage. *)
LEMMA Types ==
  ASSUME TypeOK
  PROVE  /\ next \in Nat /\ calls \in 0..MaxRuns /\ calls \in Nat /\ at \in Nat /\ at <= N
         /\ at # 0 => at \in Stage /\ frame \in Frames
         /\ \A s \in Stage :
              /\ link[s] \in Conn /\ late[s] \in SUBSET Frames
              /\ sequence[s] \in Nat /\ executed[s] \in Seq(Values)
              /\ Len(executed[s]) = sequence[s]
<1>1. /\ next \in Nat /\ calls \in 0..MaxRuns /\ at \in 0..N /\ MaxRuns \in Nat /\ N \in Nat
      /\ at # 0 => frame \in Frames
  BY Constants DEF TypeOK, Slot
<1>2. \A s \in Stage : /\ link[s] \in Conn /\ late[s] \in SUBSET Frames
                       /\ sequence[s] \in Nat /\ executed[s] \in Seq(Values)
                       /\ Len(executed[s]) = sequence[s]
  BY DEF TypeOK, Conn
<1> QED BY <1>1, <1>2 DEF Stage

(* A stage's answer is a frame with the number it was sent. *)
LEMMA FrameTypes ==
  ASSUME NEW f \in Frames, NEW s \in Stage
  PROVE  /\ f.seq \in Nat /\ f.value \in Values /\ f.value.input \in Nat /\ f # None
         /\ Through(s, f) \in Frames /\ Through(s, f).seq = f.seq /\ Through(s, f).pos = f.pos
         /\ Through(s, f).width = f.width
         /\ Through(s, f).value = [input |-> f.value.input, through |-> Append(f.value.through, s)]
<1>1. f.value \in Values /\ f.seq \in Nat /\ f.pos \in Positions /\ f.width \in Nat
  BY DEF Frames
<1>2. f.value.input \in 1..MaxRuns /\ f.value.through \in Seq(Stage)
  BY <1>1 DEF Values
<1> DEFINE v == [f.value EXCEPT !.through = Append(@, s)]
<1>3. v = [input |-> f.value.input, through |-> Append(f.value.through, s)]
  <2> DEFINE w == f.value
  <2>1. w \in [input : 1..MaxRuns, through : Seq(Stage)]
    BY <1>1 DEF Values
  <2> HIDE DEF w
  <2>2. [w EXCEPT !.through = Append(@, s)] = [input |-> w.input, through |-> Append(w.through, s)]
    BY <2>1
  <2> QED BY <2>2 DEF w
<1>4. v \in Values
  <2>1. Append(f.value.through, s) \in Seq(Stage)
    BY <1>2
  <2> QED BY <1>2, <1>3, <2>1 DEF Values
<1>5. Through(s, f) = [f EXCEPT !.value = v]
  BY DEF Through
<1> HIDE DEF v
<1>6. /\ Through(s, f) \in Frames /\ Through(s, f).seq = f.seq /\ Through(s, f).pos = f.pos
      /\ Through(s, f).width = f.width /\ Through(s, f).value = v
  BY <1>4, <1>5 DEF Frames
<1> QED BY <1>1, <1>2, <1>3, <1>6, Constants

(* What a stage executed came from some call. *)
LEMMA InputTypes ==
  ASSUME NEW e \in Seq(Values)
  PROVE  \A k \in 1..Len(e) : e[k].input \in Nat
<1>1. \A k \in 1..Len(e) : e[k] \in Values
  OBVIOUS
<1>2. \A v \in Values : v.input \in 1..MaxRuns
  BY DEF Values
<1> QED BY <1>1, <1>2, Constants

(* At first no call was made and every stage expects number 0. *)
LEMMA InitIInv == Init => IInv
<1> SUFFICES ASSUME Init PROVE IInv
  OBVIOUS
<1> USE DEF Init
<1>1. TypeOK
  <2>0. sent \in BOOLEAN
    OBVIOUS
  <2>1. next \in Nat /\ calls \in 0..MaxRuns /\ at \in 0..N
    BY Constants
  <2>2. frame \in Slot /\ (frame = None <=> at = 0)
    BY DEF Slot
  <2>3. returned \in Seq(Results) /\ Len(returned) = next
    OBVIOUS
  <2>4. link \in [Stage -> Conn]
    BY Blank
  <2>5. late \in [Stage -> SUBSET Frames] /\ sequence \in [Stage -> Nat]
    OBVIOUS
  <2>6. executed \in [Stage -> Seq(Values)] /\ \A s \in Stage : Len(executed[s]) = sequence[s]
    OBVIOUS
  <2> QED BY <2>0, <2>1, <2>2, <2>3, <2>4, <2>5, <2>6 DEF TypeOK, Conn
<1>2. CurrentFrame /\ ResultIsOwn
  BY DEF CurrentFrame, ResultIsOwn
<1>3. ASSUME NEW s \in Stage PROVE StageInv(s)
  <2>1. /\ link[s] = Closed /\ late[s] = {} /\ sequence[s] = 0 /\ executed[s] = <<>>
        /\ link[s].request = None /\ link[s].reply = None /\ s > 0
    BY <1>3, Constants DEF Closed
  <2> QED BY <2>1 DEF StageInv, Carried, Answered, InStep, Passed, Earlier, Agrees
<1> QED BY <1>1, <1>2, <1>3 DEF IInv
-----------------------------------------------------------------------------
(***************************************************************************)
(* Steps that touch one stage and leave the session alone.                 *)
(***************************************************************************)

(* A step at one stage leaves the others as they were. *)
LEMMA OneStage ==
  ASSUME IInv, UNCHANGED session, NEW s \in Stage,
         NEW x \in Conn, NEW l \in SUBSET Frames, NEW n \in Nat, NEW e \in Seq(Values), Len(e) = n,
         link' = [link EXCEPT ![s] = x], late' = [late EXCEPT ![s] = l],
         sequence' = [sequence EXCEPT ![s] = n], executed' = [executed EXCEPT ![s] = e],
         StageInv(s)'
  PROVE  IInv'
<1>1. UNCHANGED <<next, calls, at, sent, frame, returned>> /\ TypeOK
  BY DEF session, IInv
<1>2. /\ link' \in [Stage -> Conn] /\ late' \in [Stage -> SUBSET Frames]
      /\ sequence' \in [Stage -> Nat] /\ executed' \in [Stage -> Seq(Values)]
  BY <1>1 DEF TypeOK, Conn
<1>3. \A t \in Stage \ {s} : /\ link'[t] = link[t] /\ late'[t] = late[t]
                             /\ sequence'[t] = sequence[t] /\ executed'[t] = executed[t]
  BY <1>1 DEF TypeOK
<1>4. \A t \in Stage : Len(executed'[t]) = sequence'[t]
  <2>1. executed'[s] = e /\ sequence'[s] = n
    BY <1>1 DEF TypeOK
  <2> QED BY <1>1, <1>3, <2>1 DEF TypeOK
<1>5. TypeOK'
  BY <1>1, <1>2, <1>4 DEF TypeOK, Conn
<1>6. CurrentFrame' /\ ResultIsOwn'
  BY <1>1 DEF IInv, CurrentFrame, ResultIsOwn, Own
<1>7. ASSUME NEW t \in Stage \ {s} PROVE StageInv(t)'
  <2>1. StageInv(t)
    BY DEF IInv
  <2> QED BY <1>1, <1>3, <2>1
       DEF StageInv, Carried, Answered, InStep, Passed, Earlier, Agrees, Own, Recent, Reached
<1> QED BY <1>5, <1>6, <1>7 DEF IInv

(* A connection that loses what it carries, or is opened or closed, changes *)
(* nothing for the session or the runtime.                                  *)
LEMMA LinkStep ==
  ASSUME IInv, UNCHANGED <<session, late, runtime>>, NEW s \in Stage, NEW x \in Conn,
         link' = [link EXCEPT ![s] = x],
         x.request = None, x.reply \in {None, link[s].reply}
  PROVE  IInv'
<1>1. UNCHANGED <<next, calls, at, sent, frame, returned, late, sequence, executed>>
  BY DEF session, runtime
<1>2. link'[s] = x /\ TypeOK /\ StageInv(s)
  BY DEF IInv, TypeOK
<1>3. StageInv(s)'
  BY <1>1, <1>2 DEF StageInv, Carried, Answered, InStep, Passed, Earlier, Agrees, Own, Recent, Reached
<1>4. /\ late[s] \in SUBSET Frames /\ sequence[s] \in Nat /\ executed[s] \in Seq(Values)
      /\ Len(executed[s]) = sequence[s]
  BY <1>2, Types
<1>5. /\ late' = [late EXCEPT ![s] = late[s]] /\ sequence' = [sequence EXCEPT ![s] = sequence[s]]
      /\ executed' = [executed EXCEPT ![s] = executed[s]]
  BY <1>1, <1>2 DEF TypeOK
<1> QED BY <1>3, <1>4, <1>5, OneStage

(* A new connection is empty. *)
LEMMA DialStep ==
  ASSUME IInv, NEW s \in Stage, Dial(s)
  PROVE  IInv'
BY LinkStep, Blank DEF Dial, Fresh

(* A connection whose deadline passes leaves its frame behind. *)
LEMMA ExpireStep ==
  ASSUME IInv, NEW s \in Stage, Expire(s)
  PROVE  IInv'
<1> DEFINE x == [link[s] EXCEPT !.serving = FALSE, !.request = None]
<1>1. link[s] \in Conn
  BY Types DEF IInv
<1>2. x \in Conn /\ x.request = None /\ x.reply = link[s].reply
  BY <1>1 DEF Conn, Slot
<1>3. link' = [link EXCEPT ![s] = x] /\ UNCHANGED <<session, late, runtime>>
  BY DEF Expire
<1> HIDE DEF x
<1> QED BY <1>2, <1>3, LinkStep

(* A stage refuses a frame and closes. *)
LEMMA ServeRefusedStep ==
  ASSUME IInv, NEW s \in Stage, ServeRefused(s)
  PROVE  IInv'
<1> DEFINE x == [link[s] EXCEPT !.request = None, !.serving = FALSE]
<1>1. link[s] \in Conn
  BY Types DEF IInv
<1>2. x \in Conn /\ x.request = None /\ x.reply = link[s].reply
  BY <1>1 DEF Conn, Slot
<1>3. link' = [link EXCEPT ![s] = x] /\ UNCHANGED <<session, late, runtime>>
  BY DEF ServeRefused, Refuse
<1> HIDE DEF x
<1> QED BY <1>2, <1>3, LinkStep

(* A client that is not in a call has nothing in its connection. *)
LEMMA CloseClientStep ==
  ASSUME IInv, NEW s \in Stage, CloseClient(s)
  PROVE  IInv'
<1>1. link[s].request = None
  BY DEF IInv, StageInv, Carried, Answered, CloseClient
<1>2. link' = [link EXCEPT ![s] = Closed] /\ UNCHANGED <<session, late, runtime>>
  BY <1>1 DEF CloseClient, Close
<1> QED BY <1>2, LinkStep, Blank DEF Closed

(* A restarted stage expects number 0 again; its answer to the current call *)
(* may still be there.                                                      *)
LEMMA RestartStep ==
  ASSUME IInv, NEW s \in Stage, Restart(s)
  PROVE  IInv'
<1>1. link[s] \in Conn /\ TypeOK /\ StageInv(s)
  BY Types DEF IInv
<1>2. PICK reply \in {link[s].reply, None} :
        link' = [link EXCEPT ![s].serving = FALSE, ![s].request = None, ![s].reply = reply]
  BY DEF Restart
<1> DEFINE x == [link[s] EXCEPT !.serving = FALSE, !.request = None, !.reply = reply]
<1>3. x \in Conn /\ x.request = None /\ x.reply = reply
  BY <1>1 DEF Conn, Slot
<1>4. /\ link' = [link EXCEPT ![s] = x] /\ late' = [late EXCEPT ![s] = {}] /\ UNCHANGED session
      /\ sequence' = [sequence EXCEPT ![s] = 0] /\ executed' = [executed EXCEPT ![s] = <<>>]
  BY <1>2 DEF Restart
<1> HIDE DEF x
<1>5. /\ link'[s] = x /\ late'[s] = {} /\ sequence'[s] = 0 /\ executed'[s] = <<>> /\ next' \in Nat
      /\ UNCHANGED <<next, calls, at, sent, frame, returned>>
  BY <1>1, <1>4 DEF TypeOK, session
<1>6. Carried(s)'
  BY <1>1, <1>3, <1>5 DEF StageInv, Carried, Answered
<1>7. InStep(s)' /\ Passed(s)' /\ Earlier(s)' /\ Agrees(s)'
  BY <1>5 DEF InStep, Passed, Answered, Earlier, Agrees
<1>8. <<>> \in Seq(Values) /\ Len(<<>>) = 0 /\ {} \in SUBSET Frames
  OBVIOUS
<1> QED BY <1>3, <1>4, <1>6, <1>7, <1>8, OneStage DEF StageInv

-----------------------------------------------------------------------------
(* A frame of the session that a stage executes has the session's number:   *)
(* the stage moves one ahead and what it executed before stays.             *)
LEMMA Executes ==
  ASSUME IInv, NEW s \in Stage, NEW f \in Frames, f.seq <= next,
         sequence[s] < next => f.seq > 0, Execute(s, f)
  PROVE  /\ f.seq = next /\ sequence[s] = next
         /\ sequence' = [sequence EXCEPT ![s] = next + 1]
         /\ executed' = [executed EXCEPT ![s] = Append(executed[s], f.value)]
         /\ sequence'[s] = next + 1 /\ executed'[s] \in Seq(Values)
         /\ Len(executed'[s]) = next + 1 /\ executed'[s][next + 1] = f.value
         /\ \A k \in 1..next : executed'[s][k] = executed[s][k]
<1>1. /\ TypeOK /\ InStep(s) /\ next \in Nat /\ sequence[s] \in Nat
      /\ executed[s] \in Seq(Values) /\ Len(executed[s]) = sequence[s]
      /\ f.seq \in Nat /\ f.value \in Values
  BY Types, FrameTypes DEF IInv, StageInv
<1>2. /\ f.seq = sequence[s] /\ sequence' = [sequence EXCEPT ![s] = f.seq + 1]
      /\ executed' = [executed EXCEPT ![s] = Append(executed[s], f.value)]
  BY DEF Execute, Accepts
<1>3. f.seq = next
  BY <1>1, <1>2 DEF InStep
<1>4. sequence'[s] = next + 1 /\ executed'[s] = Append(executed[s], f.value)
  BY <1>1, <1>2, <1>3 DEF TypeOK
<1> QED BY <1>1, <1>2, <1>3, <1>4

(* The stage the call is at executes the call's frame. *)
LEMMA ServeFacts ==
  ASSUME IInv, NEW s \in Stage, link[s].request # None, Execute(s, link[s].request)
  PROVE  /\ at = s /\ sent /\ link[s].request = frame /\ frame \in Frames /\ frame.value = Own(s)
         /\ sequence' = [sequence EXCEPT ![s] = next + 1]
         /\ executed' = [executed EXCEPT ![s] = Append(executed[s], frame.value)]
         /\ sequence[s] = next /\ sequence'[s] = next + 1 /\ executed'[s] \in Seq(Values)
         /\ Len(executed'[s]) = next + 1 /\ executed'[s][next + 1] = frame.value
         /\ \A k \in 1..next : executed'[s][k] = executed[s][k]
<1>1. /\ at = s /\ sent /\ link[s].request = frame /\ CurrentFrame /\ s > 0 /\ TypeOK /\ InStep(s)
  BY Constants DEF IInv, StageInv, Carried
<1>2. frame \in Frames /\ frame.seq = next /\ frame.value = Own(s) /\ next \in Nat
      /\ sequence[s] \in Nat
  BY <1>1, Types DEF CurrentFrame
<1>3. Execute(s, frame) /\ frame.seq <= next /\ (sequence[s] < next => frame.seq > 0)
  BY <1>1, <1>2
<1>4. /\ sequence[s] = next
      /\ sequence' = [sequence EXCEPT ![s] = next + 1]
      /\ executed' = [executed EXCEPT ![s] = Append(executed[s], frame.value)]
      /\ sequence'[s] = next + 1 /\ executed'[s] \in Seq(Values)
      /\ Len(executed'[s]) = next + 1 /\ executed'[s][next + 1] = frame.value
      /\ \A k \in 1..next : executed'[s][k] = executed[s][k]
  BY <1>2, <1>3, Executes
<1> QED BY <1>1, <1>2, <1>4

(* A stage executes the frame it was sent, and answers or not. *)
LEMMA ServedInv ==
  ASSUME IInv, NEW s \in Stage, link[s].request # None, Execute(s, link[s].request),
         UNCHANGED <<session, late>>, NEW x \in Conn, link' = [link EXCEPT ![s] = x],
         x.request = None, x.reply \in {None, Through(s, frame)}
  PROVE  IInv'
<1>1. /\ at = s /\ sent /\ link[s].request = frame /\ frame \in Frames /\ frame.value = Own(s)
      /\ sequence' = [sequence EXCEPT ![s] = next + 1]
      /\ executed' = [executed EXCEPT ![s] = Append(executed[s], frame.value)]
      /\ sequence[s] = next /\ sequence'[s] = next + 1 /\ executed'[s] \in Seq(Values)
      /\ Len(executed'[s]) = next + 1 /\ executed'[s][next + 1] = frame.value
      /\ \A k \in 1..next : executed'[s][k] = executed[s][k]
  BY ServeFacts
<1>2. UNCHANGED <<next, calls, at, sent, frame, returned, late>> /\ TypeOK /\ StageInv(s)
  BY DEF session, IInv
<1>3. /\ next \in Nat /\ calls \in Nat /\ executed[s] \in Seq(Values)
      /\ Len(executed[s]) = sequence[s] /\ late[s] \in SUBSET Frames
  BY <1>2, Types
<1>4. link'[s] = x
  BY <1>2 DEF TypeOK
<1>5. Carried(s)'
  BY <1>1, <1>2, <1>4 DEF Carried, Answered, Own, Through
<1>6. InStep(s)' /\ Passed(s)'
  <2>1. s \in Nat /\ late'[s] = late[s] /\ InStep(s)
    BY <1>2, Constants DEF StageInv
  <2>2. InStep(s)'
    BY <1>1, <1>2, <1>3, <2>1 DEF InStep
  <2>3. Passed(s)'
    BY <1>1, <1>2, <2>1 DEF Passed
  <2> QED BY <2>2, <2>3
<1>7. Earlier(s)'
  <2>1. Own(s).input = calls
    BY DEF Own
  <2>2. Reached(s)' /\ Reached(s)
    BY <1>1, <1>2 DEF Reached
  <2>3. \A f \in late[s] : f.value.input <= calls
    BY <1>2 DEF StageInv, Earlier, Recent
  <2>4. \A k \in 1..(next + 1) : executed'[s][k].input <= calls
    <3>1. \A k \in 1..next : executed[s][k].input <= calls
      BY <1>1, <1>2, <1>3 DEF StageInv, Earlier, Recent
    <3> QED BY <1>1, <1>3, <2>1, <3>1
  <2> QED BY <1>1, <1>2, <2>2, <2>3, <2>4 DEF Earlier, Recent
<1>8. Agrees(s)'
  BY <1>1, <1>2, <1>3 DEF StageInv, Agrees
<1>9. executed' = [executed EXCEPT ![s] = executed'[s]] /\ next + 1 \in Nat
      /\ late' = [late EXCEPT ![s] = late[s]]
  BY <1>1, <1>2, <1>3 DEF TypeOK
<1> QED BY <1>1, <1>3, <1>5, <1>6, <1>7, <1>8, <1>9, OneStage DEF StageInv

(* A stage executes the frame and answers. *)
LEMMA ServeStep ==
  ASSUME IInv, NEW s \in Stage, Serve(s)
  PROVE  IInv'
<1> DEFINE f == Through(s, link[s].request)
           x == [link[s] EXCEPT !.request = None, !.reply = f]
<1>1. link[s].request # None /\ Execute(s, link[s].request) /\ UNCHANGED <<session, late>>
  BY DEF Serve
<1>2. link[s].request = frame /\ frame \in Frames /\ link[s] \in Conn
  BY <1>1, ServeFacts, Types DEF IInv
<1>3. f \in Frames /\ f = Through(s, frame)
  BY <1>2, FrameTypes
<1> HIDE DEF f
<1>4. x \in Conn /\ x.request = None /\ x.reply = f
  BY <1>2, <1>3 DEF Conn, Slot
<1>5. link' = [link EXCEPT ![s] = x]
  BY DEF Serve, f
<1> HIDE DEF x
<1> QED BY <1>1, <1>3, <1>4, <1>5, ServedInv

(* A stage executes the frame and its answer is lost. *)
LEMMA ServeUnansweredStep ==
  ASSUME IInv, NEW s \in Stage, ServeUnanswered(s)
  PROVE  IInv'
<1> DEFINE x == [link[s] EXCEPT !.request = None, !.serving = FALSE]
<1>1. link[s].request # None /\ Execute(s, link[s].request) /\ UNCHANGED <<session, late>>
  BY DEF ServeUnanswered
<1>2. link[s] \in Conn /\ link[s].reply = None
  BY <1>1, Types DEF IInv, StageInv, Carried
<1>3. x \in Conn /\ x.request = None /\ x.reply = None
  BY <1>2 DEF Conn, Slot
<1>4. link' = [link EXCEPT ![s] = x]
  BY DEF ServeUnanswered
<1> HIDE DEF x
<1> QED BY <1>1, <1>3, <1>4, ServedInv

(* A frame of a call that was given up is executed at the session's number, *)
(* by a stage the current call has not passed, or is refused.               *)
LEMMA ServeLateStep ==
  ASSUME IInv, NEW s \in Stage, ServeLate(s)
  PROVE  IInv'
<1>1. TypeOK /\ StageInv(s) /\ UNCHANGED <<session, link>>
  BY DEF IInv, ServeLate
<1>2. UNCHANGED <<next, calls, at, sent, frame, returned, link>>
  BY <1>1 DEF session
<1>3. /\ next \in Nat /\ calls \in Nat /\ executed[s] \in Seq(Values) /\ link[s] \in Conn
      /\ Len(executed[s]) = sequence[s] /\ late[s] \in SUBSET Frames /\ sequence[s] \in Nat
  BY <1>1, Types
<1>4. PICK f \in late[s] : /\ Execute(s, f) \/ Refuse(s, f)
                           /\ late' = [late EXCEPT ![s] = @ \ {f}]
  BY DEF ServeLate
<1>5. late'[s] = late[s] \ {f} /\ late[s] \ {f} \in SUBSET Frames /\ f \in Frames
      /\ link' = [link EXCEPT ![s] = link[s]]
  BY <1>1, <1>2, <1>3, <1>4 DEF TypeOK
<1>6. CASE Refuse(s, f)
  <2>1. sequence' = sequence /\ executed' = executed
    BY <1>6 DEF Refuse, runtime
  <2>2. Carried(s)' /\ InStep(s)' /\ Passed(s)'
    BY <1>1, <1>2, <1>5, <2>1 DEF StageInv, Carried, Answered, InStep, Passed, Answered, Own
  <2>3. Earlier(s)' /\ Agrees(s)'
    BY <1>1, <1>2, <1>5, <2>1 DEF StageInv, Earlier, Agrees, Recent, Reached
  <2>4. sequence' = [sequence EXCEPT ![s] = sequence[s]] /\ executed' = [executed EXCEPT ![s] = executed[s]]
    BY <1>1, <2>1 DEF TypeOK
  <2> QED BY <1>1, <1>3, <1>4, <1>5, <2>2, <2>3, <2>4, OneStage DEF StageInv
<1>7. CASE Execute(s, f)
  <2>1. f.seq <= next /\ (sequence[s] < next => f.seq > 0) /\ Recent(s, f.value)
    BY <1>1, <1>4 DEF StageInv, InStep, Earlier
  <2>2. /\ f.seq = next /\ sequence[s] = next
        /\ sequence' = [sequence EXCEPT ![s] = next + 1]
        /\ executed' = [executed EXCEPT ![s] = Append(executed[s], f.value)]
        /\ sequence'[s] = next + 1 /\ executed'[s] \in Seq(Values)
        /\ Len(executed'[s]) = next + 1 /\ executed'[s][next + 1] = f.value
        /\ \A k \in 1..next : executed'[s][k] = executed[s][k]
    BY <1>5, <1>7, <2>1, Executes
  <2>3. Carried(s)'
    BY <1>1, <1>2, <1>3, <1>4, <2>2 DEF StageInv, Carried, Answered
  <2>4. InStep(s)'
    BY <1>1, <1>2, <1>3, <1>5, <2>2 DEF StageInv, InStep
  <2>5. Passed(s)'
    <3>1. ~(s < at)
      BY <1>1, <1>3, <1>4, <2>2 DEF StageInv, Passed, Answered
    <3> QED BY <1>2, <3>1 DEF Passed
  <2>6. Earlier(s)'
    <3>1. \A v : Recent(s, v)' <=> Recent(s, v)
      BY <1>2 DEF Recent, Reached
    <3>2. \A k \in 1..(next + 1) : Recent(s, executed'[s][k])
      <4>1. \A k \in 1..next : Recent(s, executed[s][k])
        BY <1>1, <1>3, <2>2 DEF StageInv, Earlier
      <4> QED BY <1>3, <2>1, <2>2, <4>1
    <3>3. \A g \in late'[s] : Recent(s, g.value)
      BY <1>1, <1>5 DEF StageInv, Earlier
    <3>4. \A g \in late'[s] : Recent(s, g.value)'
      BY <1>2, <3>3 DEF Recent, Reached
    <3>5. \A k \in 1..(next + 1) : Recent(s, executed[s][k])'
      BY <1>2, <3>2 DEF Recent, Reached
    <3> QED BY <1>2, <2>2, <3>4, <3>5 DEF Earlier
  <2>7. Agrees(s)'
    BY <1>1, <1>2, <1>3, <2>2 DEF StageInv, Agrees
  <2>8. executed' = [executed EXCEPT ![s] = executed'[s]] /\ next + 1 \in Nat
    BY <1>1, <1>3, <2>2 DEF TypeOK
  <2> QED BY <1>1, <1>3, <1>4, <1>5, <2>2, <2>3, <2>4, <2>5, <2>6, <2>7, <2>8, OneStage DEF StageInv
<1> QED BY <1>4, <1>6, <1>7
-----------------------------------------------------------------------------
(***************************************************************************)
(* Steps of Session.Run.                                                   *)
(***************************************************************************)

(* Away from the stage the call is at, connections are empty. *)
LEMMA Quiet ==
  ASSUME IInv, NEW t \in Stage, t # at \/ ~sent
  PROVE  link[t].request = None /\ link[t].reply = None
BY DEF IInv, StageInv, Carried

(* A new call begins before the first stage. *)
LEMMA RunStep ==
  ASSUME IInv, NEW pos \in Positions, NEW width \in Widths, Run(pos, width)
  PROVE  IInv'
<1>1. /\ TypeOK /\ next \in Nat /\ calls \in Nat /\ calls + 1 \in 1..MaxRuns /\ N \in Nat /\ N >= 2
      /\ width \in Nat
  BY Types, Constants DEF IInv, Run
<1>2. /\ at = 0 /\ calls' = calls + 1 /\ at' = 1 /\ ~sent' /\ sent' \in BOOLEAN
      /\ UNCHANGED <<next, returned, link, late, sequence, executed>>
  BY DEF Run, runtime
<1> DEFINE v == [input |-> calls + 1, through |-> <<>>]
           f == [seq |-> next, pos |-> pos, width |-> width, value |-> v]
<1>3. v \in Values
  <2>1. <<>> \in Seq(Stage)
    OBVIOUS
  <2> QED BY <1>1, <2>1 DEF Values
<1>4. frame' = f
  BY DEF Run
<1>5. v = Own(1)'
  <2>1. Upto(1) = <<>>
    BY DEF Upto
  <2> QED BY <1>2, <2>1 DEF Own, Upto
<1> HIDE DEF v
<1>6. f \in Frames /\ f.seq = next /\ f.value = v
  BY <1>1, <1>3 DEF Frames
<1> HIDE DEF f
<1>7. TypeOK'
  <2>1. at' \in 0..N /\ calls' \in 0..MaxRuns /\ at' # 0
    BY <1>1, <1>2
  <2>2. frame' \in Slot /\ frame' # None
    BY <1>4, <1>6, Constants DEF Slot
  <2> QED BY <1>1, <1>2, <2>1, <2>2 DEF TypeOK
<1>8. CurrentFrame'
  BY <1>1, <1>2, <1>4, <1>5, <1>6 DEF CurrentFrame
<1>9. ResultIsOwn'
  BY <1>2 DEF IInv, ResultIsOwn
<1>10. ASSUME NEW t \in Stage PROVE StageInv(t)'
  <2>1. link[t].request = None /\ link[t].reply = None /\ t \in Nat /\ t > 0 /\ StageInv(t)
    BY <1>2, Quiet, Constants DEF IInv
  <2>2. Carried(t)' /\ InStep(t)' /\ Agrees(t)'
    BY <1>2, <2>1 DEF StageInv, Carried, Answered, InStep, Agrees
  <2>3. Passed(t)'
    BY <1>2, <2>1 DEF Passed
  <2>4. Earlier(t)'
    <3>1. /\ \A g \in late[t] : g \in Frames /\ g.value.input \in Nat
          /\ executed[t] \in Seq(Values)
      BY <1>1, Types, FrameTypes
    <3>2. \A k \in 1..Len(executed[t]) : executed[t][k].input \in Nat
      BY <3>1, InputTypes
    <3>3. /\ \A g \in late[t] : g.value.input <= calls
          /\ \A k \in 1..Len(executed[t]) : executed[t][k].input <= calls
      BY <2>1 DEF StageInv, Earlier, Recent
    <3> QED BY <1>1, <1>2, <3>1, <3>2, <3>3 DEF Earlier, Recent
  <2> QED BY <2>2, <2>3, <2>4 DEF StageInv
<1> QED BY <1>7, <1>8, <1>9, <1>10 DEF IInv

(* The frame is sent to the stage the call is at. *)
LEMMA WriteStep ==
  ASSUME IInv, NEW s \in Stage, Write(s)
  PROVE  IInv'
<1>1. /\ at = s /\ ~sent /\ sent' /\ sent' \in BOOLEAN
      /\ UNCHANGED <<next, calls, at, frame, returned, late, sequence, executed>>
  BY DEF Write, runtime
<1>2. TypeOK /\ link[s] \in Conn /\ s > 0 /\ frame \in Frames
  BY <1>1, Types, Constants DEF IInv
<1> DEFINE x == [link[s] EXCEPT !.request = frame]
<1>3. x \in Conn /\ x.request = frame /\ x.reply = link[s].reply
  BY <1>2 DEF Conn, Slot
<1>4. link' = [link EXCEPT ![s] = x]
  BY DEF Write
<1> HIDE DEF x
<1>5. TypeOK'
  <2>1. link' \in [Stage -> Conn]
    BY <1>2, <1>3, <1>4 DEF TypeOK, Conn
  <2> QED BY <1>1, <1>2, <2>1 DEF TypeOK, Conn
<1>6. CurrentFrame' /\ ResultIsOwn'
  BY <1>1, <1>2 DEF IInv, CurrentFrame, ResultIsOwn, Own
<1>7. ASSUME NEW t \in Stage PROVE StageInv(t)'
  <2>1. link[t].request = None /\ link[t].reply = None /\ StageInv(t)
    BY <1>1, Quiet DEF IInv
  <2>2. InStep(t)' /\ Passed(t)' /\ Agrees(t)'
    BY <1>1, <2>1 DEF StageInv, InStep, Passed, Answered, Agrees, Own
  <2>3. Carried(t)'
    <3>1. link'[t] = IF t = s THEN x ELSE link[t]
      BY <1>2, <1>4 DEF TypeOK
    <3> QED BY <1>1, <1>2, <1>3, <2>1, <3>1 DEF Carried
  <2>4. Earlier(t)'
    BY <1>1, <2>1 DEF StageInv, Earlier, Recent, Reached
  <2> QED BY <2>2, <2>3, <2>4 DEF StageInv
<1> QED BY <1>5, <1>6, <1>7 DEF IInv

(* A call that fails leaves at most its frame behind, in a connection that  *)
(* no later call reads.                                                     *)
LEMMA FailStep ==
  ASSUME IInv, NEW s \in Stage, at = s, Fail, UNCHANGED runtime,
         NEW x \in Conn, link' = [link EXCEPT ![s] = x], x.request = None, x.reply = None,
         NEW l \in SUBSET Frames, late' = [late EXCEPT ![s] = l], l \subseteq late[s] \cup {frame}
  PROVE  IInv'
<1>1. /\ at' = 0 /\ ~sent' /\ sent' \in BOOLEAN /\ frame' = None
      /\ UNCHANGED <<next, calls, returned, sequence, executed>>
  BY DEF Fail, runtime
<1>2. /\ TypeOK /\ s > 0 /\ N \in Nat /\ next \in Nat /\ calls \in Nat /\ frame \in Frames
      /\ frame.seq = next /\ frame.value = Own(s)
  BY Types, Constants DEF IInv, CurrentFrame
<1>3. TypeOK'
  <2>1. link' \in [Stage -> Conn] /\ late' \in [Stage -> SUBSET Frames]
    BY <1>2 DEF TypeOK, Conn
  <2>2. at' \in 0..N /\ frame' \in Slot
    BY <1>1, <1>2 DEF Slot
  <2> QED BY <1>1, <1>2, <2>1, <2>2 DEF TypeOK, Conn
<1>4. CurrentFrame' /\ ResultIsOwn'
  BY <1>1 DEF IInv, CurrentFrame, ResultIsOwn
<1>5. ASSUME NEW t \in Stage PROVE StageInv(t)'
  <2>1. /\ StageInv(t) /\ t \in Nat /\ sequence[t] \in Nat
        /\ late'[t] \subseteq late[t] \cup {frame}
        /\ link'[t].request = None /\ link'[t].reply = None
    <3>1. t # s => link[t].request = None /\ link[t].reply = None
      BY Quiet
    <3>2. StageInv(t) /\ t \in Nat /\ sequence[t] \in Nat
      BY <1>2, Types, Constants DEF IInv
    <3>3. link'[t] = (IF t = s THEN x ELSE link[t]) /\ late'[t] = IF t = s THEN l ELSE late[t]
      BY <1>2 DEF TypeOK
    <3> QED BY <3>1, <3>2, <3>3
  <2>2. Carried(t)' /\ Passed(t)' /\ Agrees(t)'
    BY <1>1, <2>1 DEF StageInv, Carried, Answered, Passed, Agrees
  <2>3. InStep(t)'
    BY <1>1, <1>2, <2>1 DEF StageInv, InStep
  <2>4. Earlier(t)'
    <3>1. frame.value.input <= calls /\ frame.value.input = calls
      BY <1>2 DEF Own
    <3>2. \A f \in late'[t] : f.value.input <= calls
      BY <2>1, <3>1 DEF StageInv, Earlier, Recent
    <3> QED BY <1>1, <2>1, <3>2 DEF StageInv, Earlier, Recent, Reached
  <2> QED BY <2>2, <2>3, <2>4 DEF StageInv
<1> QED BY <1>3, <1>4, <1>5 DEF IInv

(* A call that fails closes its connection; its frame may be late. *)
LEMMA FailedClose ==
  ASSUME IInv, NEW s \in Stage, at = s, Fail, UNCHANGED runtime, Close(s)
  PROVE  IInv'
<1>1. TypeOK /\ late[s] \in SUBSET Frames /\ frame \in Frames
  BY Types, Constants DEF IInv
<1>2. link[s].request # None => link[s].request = frame
  BY DEF IInv, StageInv, Carried
<1>3. PICK l \in SUBSET Frames : late' = [late EXCEPT ![s] = l] /\ l \subseteq late[s] \cup {frame}
  <2>1. late' = [late EXCEPT ![s] = late[s]] \/ late' = [late EXCEPT ![s] = late[s] \cup {frame}]
    BY <1>1, <1>2 DEF Close, TypeOK
  <2> QED BY <1>1, <2>1
<1>4. link' = [link EXCEPT ![s] = Closed] /\ Closed.request = None /\ Closed.reply = None
  BY DEF Close, Closed
<1> QED BY <1>3, <1>4, Blank, FailStep

(* The connection cannot be made. *)
LEMMA DialFailsStep ==
  ASSUME IInv, NEW s \in Stage, DialFails(s)
  PROVE  IInv'
<1>1. at = s /\ ~sent /\ Fail /\ UNCHANGED runtime /\ UNCHANGED <<link, late>>
  BY DEF DialFails
<1>2. /\ link[s] \in Conn /\ late[s] \in SUBSET Frames
      /\ link[s].request = None /\ link[s].reply = None
  BY <1>1, Types, Quiet DEF IInv
<1>3. link' = [link EXCEPT ![s] = link[s]] /\ late' = [late EXCEPT ![s] = late[s]]
  BY <1>1 DEF IInv, TypeOK
<1> QED BY <1>1, <1>2, <1>3, FailStep

(* The frame cannot be written. *)
LEMMA WriteFailsStep ==
  ASSUME IInv, NEW s \in Stage, WriteFails(s)
  PROVE  IInv'
BY FailedClose DEF WriteFails

(* No answer comes in time, or not the right one. *)
LEMMA ReadFailsStep ==
  ASSUME IInv, NEW s \in Stage, ReadFails(s)
  PROVE  IInv'
BY FailedClose DEF ReadFails

(* What the answer of the stage the call is at means. *)
LEMMA ReplyFacts ==
  ASSUME IInv, NEW s \in Stage, link[s].reply # None
  PROVE  /\ at = s /\ sent /\ link[s].request = None /\ link[s].reply \in Frames
         /\ link[s].reply.seq = next
         /\ link[s].reply.value = [input |-> calls, through |-> Upto(s + 1)]
         /\ Answered(s)
<1>1. /\ at = s /\ sent /\ link[s].request = None /\ link[s].reply = Through(s, frame)
      /\ Answered(s) /\ s > 0
  BY Constants DEF IInv, StageInv, Carried
<1>2. frame \in Frames /\ frame.seq = next /\ frame.value = Own(s)
  BY <1>1, Types DEF IInv, CurrentFrame
<1>3. frame.value.input = calls /\ frame.value.through = Upto(s)
  BY <1>2 DEF Own
<1>4. /\ Through(s, frame) \in Frames /\ Through(s, frame).seq = frame.seq
      /\ Through(s, frame).value = [input |-> frame.value.input,
                                    through |-> Append(frame.value.through, s)]
  BY <1>2, FrameTypes
<1>5. Through(s, frame).value = [input |-> calls, through |-> Upto(s + 1)]
  BY <1>3, <1>4, UptoNext
<1> QED BY <1>1, <1>2, <1>4, <1>5

(* The call goes on to the next stage. *)
LEMMA ForwardStep ==
  ASSUME IInv, NEW s \in Stage, link[s].reply # None, s < N,
         at' = s + 1, frame' = link[s].reply, sent' = FALSE,
         UNCHANGED <<next, returned, calls, late, runtime>>,
         link' = [link EXCEPT ![s].reply = None]
  PROVE  IInv'
<1>1. /\ at = s /\ sent /\ link[s].request = None /\ frame' \in Frames /\ frame'.seq = next
      /\ frame'.value = [input |-> calls, through |-> Upto(s + 1)]
      /\ Answered(s)
  BY ReplyFacts
<1>2. /\ TypeOK /\ link[s] \in Conn /\ s \in Nat /\ s > 0 /\ N \in Nat /\ next \in Nat
      /\ calls \in Nat /\ calls > 0
  BY <1>1, Types, Constants DEF IInv, CurrentFrame
<1>3. UNCHANGED <<sequence, executed>>
  BY DEF runtime
<1> DEFINE x == [link[s] EXCEPT !.reply = None]
<1>4. x \in Conn /\ x.request = None /\ x.reply = None /\ link' = [link EXCEPT ![s] = x]
  BY <1>1, <1>2 DEF Conn, Slot
<1> HIDE DEF x
<1>5. TypeOK'
  <2>1. link' \in [Stage -> Conn]
    BY <1>2, <1>4 DEF TypeOK, Conn
  <2>2. at' \in 0..N /\ at' # 0 /\ frame' \in Slot /\ frame' # None
    BY <1>1, <1>2, Constants DEF Slot
  <2>3. sent' \in BOOLEAN
    OBVIOUS
  <2> QED BY <1>2, <1>3, <2>1, <2>2, <2>3 DEF TypeOK, Conn
<1>6. CurrentFrame'
  BY <1>1, <1>2 DEF CurrentFrame, Own
<1>7. ResultIsOwn'
  BY DEF IInv, ResultIsOwn
<1>8. ASSUME NEW t \in Stage PROVE StageInv(t)'
  <2>1. StageInv(t) /\ t \in Nat /\ t > 0
    BY Constants DEF IInv
  <2>2. InStep(t)' /\ Agrees(t)'
    BY <1>3, <2>1 DEF StageInv, InStep, Agrees
  <2>3. Carried(t)'
    <3>1. link'[t] = IF t = s THEN x ELSE link[t]
      BY <1>2, <1>4 DEF TypeOK
    <3>2. link'[t].request = None /\ link'[t].reply = None
      BY <1>1, <1>4, <3>1, Quiet
    <3> QED BY <3>2 DEF Carried
  <2>4. Passed(t)'
    <3>1. CASE t = s
      BY <1>1, <1>3, <3>1 DEF Passed, Answered, Own
    <3>2. CASE t # s
      BY <1>1, <1>2, <1>3, <2>1, <3>2 DEF StageInv, Passed, Answered, Own
    <3> QED BY <3>1, <3>2
  <2>5. Earlier(t)'
    <3>1. Reached(t) => Reached(t)'
      BY <1>1, <1>2, <2>1 DEF Reached
    <3> QED BY <1>3, <2>1, <3>1 DEF StageInv, Earlier, Recent
  <2> QED BY <2>2, <2>3, <2>4, <2>5 DEF StageInv
<1> QED BY <1>5, <1>6, <1>7, <1>8 DEF IInv

(* The last stage has answered: the call returns, and every stage that has  *)
(* not been restarted has executed its activation.                          *)
LEMMA ReturnStep ==
  ASSUME IInv, NEW s \in Stage, link[s].reply # None, s = N,
         at' = 0, frame' = None, sent' = FALSE, next' = next + 1,
         returned' = Append(returned, [call |-> calls, value |-> link[s].reply.value]),
         UNCHANGED <<calls, late, runtime>>,
         link' = [link EXCEPT ![s].reply = None]
  PROVE  IInv'
<1> DEFINE v == link[s].reply.value
           res == [call |-> calls, value |-> v]
<1>1. /\ at = s /\ sent /\ link[s].request = None /\ link[s].reply \in Frames
      /\ v = [input |-> calls, through |-> Upto(s + 1)]
      /\ Answered(s)
  BY ReplyFacts
<1>2. /\ TypeOK /\ link[s] \in Conn /\ s \in Nat /\ s > 0 /\ N \in Nat /\ next \in Nat
      /\ calls \in 1..MaxRuns /\ calls \in Nat
  BY <1>1, Types, Constants DEF IInv, CurrentFrame
<1>3. UNCHANGED <<sequence, executed>>
  BY DEF runtime
<1>4. res \in Results /\ res.call = calls /\ res.value = v
  BY <1>1, <1>2, FrameTypes DEF Results
<1> HIDE DEF v, res
<1>5. /\ returned \in Seq(Results) /\ Len(returned) = next /\ returned' = Append(returned, res)
  BY <1>2 DEF TypeOK, res, v
<1>6. /\ returned' \in Seq(Results) /\ Len(returned') = next + 1 /\ returned'[next + 1] = res
      /\ \A k \in 1..next : returned'[k] = returned[k]
  BY <1>2, <1>4, <1>5
<1> DEFINE x == [link[s] EXCEPT !.reply = None]
<1>7. x \in Conn /\ x.request = None /\ x.reply = None /\ link' = [link EXCEPT ![s] = x]
  BY <1>1, <1>2 DEF Conn, Slot
<1> HIDE DEF x
<1>8. TypeOK'
  <2>1. link' \in [Stage -> Conn]
    BY <1>2, <1>7 DEF TypeOK, Conn
  <2>2. at' \in 0..N /\ at' = 0 /\ frame' \in Slot /\ frame' = None /\ next' \in Nat
    BY <1>2 DEF Slot
  <2>3. sent' \in BOOLEAN
    OBVIOUS
  <2>4. returned' \in Seq(Results) /\ Len(returned') = next'
    BY <1>6
  <2> QED BY <1>2, <1>3, <2>1, <2>2, <2>3, <2>4 DEF TypeOK, Conn
<1>9. CurrentFrame'
  BY DEF CurrentFrame
<1>10. ResultIsOwn'
  <2>1. Upto(s + 1) = [i \in Stage |-> i]
    BY <1>2 DEF Upto, Stage
  <2>2. res.value = [input |-> res.call, through |-> [i \in Stage |-> i]]
    BY <1>1, <1>4, <2>1
  <2>3. \A k \in 1..next :
          returned[k].value = [input |-> returned[k].call, through |-> [i \in Stage |-> i]]
    BY <1>5 DEF IInv, ResultIsOwn
  <2>4. ASSUME NEW k \in 1..(next + 1)
        PROVE  returned'[k].value = [input |-> returned'[k].call, through |-> [i \in Stage |-> i]]
    <3>1. k \in 1..next \/ k = next + 1
      BY <1>2
    <3> QED BY <1>6, <2>2, <2>3, <3>1
  <2> QED BY <1>6, <2>4 DEF ResultIsOwn
<1>11. ASSUME NEW t \in Stage PROVE StageInv(t)'
  <2>1. /\ StageInv(t) /\ t \in Nat /\ t > 0 /\ t <= s /\ sequence[t] \in Nat
        /\ Len(executed[t]) = sequence[t] /\ late[t] \in SUBSET Frames
    BY <1>2, Types, Constants DEF IInv, Stage
  <2>2. \/ sequence[t] = next + 1 /\ executed[t][next + 1] = Own(t)
        \/ sequence[t] = 0 /\ late[t] = {}
    <3>1. CASE t = s
      BY <1>1, <3>1 DEF Answered
    <3>2. CASE t # s
      BY <1>1, <1>2, <2>1, <3>2 DEF StageInv, Passed, Answered
    <3> QED BY <3>1, <3>2
  <2>3. InStep(t)'
    <3>1. \A f \in late[t] : f.seq \in Nat
      BY <2>1, FrameTypes
    <3> QED BY <1>2, <1>3, <2>1, <2>2, <3>1 DEF StageInv, InStep
  <2>4. Agrees(t)'
    <3> SUFFICES ASSUME NEW k \in 1..(next + 1), k <= Len(executed[t])
                 PROVE  executed[t][k] = [input |-> returned'[k].call, through |-> Upto(t)]
      BY <1>3 DEF Agrees
    <3>1. CASE k \in 1..next
      BY <1>6, <2>1, <3>1 DEF StageInv, Agrees
    <3>2. CASE k = next + 1
      <4>1. executed[t][k] = Own(t)
        BY <1>2, <2>1, <2>2, <3>2
      <4>2. returned'[k].call = calls
        BY <1>4, <1>6, <3>2
      <4> QED BY <4>1, <4>2 DEF Own
    <3>3. k \in 1..next \/ k = next + 1
      BY <1>2
    <3> QED BY <3>1, <3>2, <3>3
  <2>5. Carried(t)'
    <3>1. link'[t] = IF t = s THEN x ELSE link[t]
      BY <1>2, <1>7 DEF TypeOK
    <3>2. link'[t].request = None /\ link'[t].reply = None
      BY <1>1, <1>7, <3>1, Quiet
    <3> QED BY <3>2 DEF Carried
  <2>6. Passed(t)' /\ Earlier(t)'
    BY <1>3, <2>1 DEF StageInv, Passed, Earlier, Recent, Reached
  <2> QED BY <2>3, <2>4, <2>5, <2>6 DEF StageInv
<1> QED BY <1>8, <1>9, <1>10, <1>11 DEF IInv

(* The answer takes the call to the next stage, or ends it. *)
LEMMA ReadStep ==
  ASSUME IInv, NEW s \in Stage, Read(s)
  PROVE  IInv'
<1>1. at = s /\ link[s].reply # None /\ UNCHANGED runtime
  BY DEF Read
<1>2. CASE Readable(link[s].reply) /\ Matches(link[s].reply, frame)
  <2>1. /\ Forward(s) /\ sent' = FALSE /\ UNCHANGED <<calls, late>>
        /\ link' = [link EXCEPT ![s].reply = None]
    BY <1>2 DEF Read
  <2>2. CASE s < N
    BY <1>1, <2>1, <2>2, ForwardStep DEF Forward
  <2>3. CASE s = N
    <3>1. ~(s < N)
      BY <2>3, Constants
    <3> QED BY <1>1, <2>1, <2>3, <3>1, ReturnStep DEF Forward
  <2>4. s < N \/ s = N
    BY Constants DEF Stage
  <2> QED BY <2>2, <2>3, <2>4
<1>3. CASE ~(Readable(link[s].reply) /\ Matches(link[s].reply, frame))
  BY <1>1, <1>3, FailedClose DEF Read
<1> QED BY <1>2, <1>3

(* A stutter changes nothing. *)
LEMMA StutterStep ==
  ASSUME IInv, UNCHANGED vars
  PROVE  IInv'
<1>1. UNCHANGED <<next, calls, at, sent, frame, returned, link, late, sequence, executed>>
  BY DEF vars, session, runtime
<1>2. TypeOK'
  BY <1>1 DEF IInv, TypeOK
<1>3. CurrentFrame' /\ ResultIsOwn'
  BY <1>1 DEF IInv, CurrentFrame, ResultIsOwn, Own
<1>4. ASSUME NEW t \in Stage PROVE StageInv(t)'
  <2>1. StageInv(t)
    BY DEF IInv
  <2> QED BY <1>1, <2>1
       DEF StageInv, Carried, Answered, InStep, Passed, Earlier, Agrees, Own, Recent, Reached
<1> QED BY <1>2, <1>3, <1>4 DEF IInv

(* Every step keeps the invariant. *)
LEMMA StepIInv == IInv /\ [Next]_vars => IInv'
<1> SUFFICES ASSUME IInv, [Next]_vars PROVE IInv'
  OBVIOUS
<1>1. ASSUME NEW pos \in Positions, NEW width \in Widths, Run(pos, width) PROVE IInv'
  BY <1>1, RunStep
<1>2. ASSUME NEW s \in Stage, ClientStep(s) \/ CloseClient(s) PROVE IInv'
  BY <1>2, DialStep, DialFailsStep, WriteStep, WriteFailsStep, ReadStep, ReadFailsStep,
     CloseClientStep DEF ClientStep
<1>3. ASSUME NEW s \in Stage, ServerStep(s) \/ Expire(s) \/ Restart(s) PROVE IInv'
  BY <1>3, ServeStep, ServeUnansweredStep, ServeRefusedStep, ServeLateStep, ExpireStep,
     RestartStep DEF ServerStep
<1>4. CASE UNCHANGED vars
  BY <1>4, StutterStep
<1> QED BY <1>1, <1>2, <1>3, <1>4 DEF Next
-----------------------------------------------------------------------------
(* The invariant of session, connections and stages together. *)
THEOREM SessionInvariant == Spec => []IInv
BY InitIInv, StepIInv, PTL DEF Spec

(* TypeOK, with one executed frame per number a stage has moved past.       *)
THEOREM TypeCorrect == Spec => []TypeOK
<1>1. IInv => TypeOK
  BY DEF IInv
<1> QED BY <1>1, SessionInvariant, PTL

(* A call of Run that succeeds returns its own activation, come through     *)
(* every stage once and in order (Session.Run, TCPClient.Process).          *)
THEOREM RunReturnsItsOwn == Spec => []ResultIsOwn
<1>1. IInv => ResultIsOwn
  BY DEF IInv
<1> QED BY <1>1, SessionInvariant, PTL

(* What the stages have executed under acknowledged numbers is what the     *)
(* session returned (Runtime.Process).                                      *)
THEOREM StagesAgree == Spec => []HistoryAgrees
<1>1. IInv => HistoryAgrees
  BY DEF IInv, StageInv, Agrees, HistoryAgrees, Upto
<1> QED BY <1>1, SessionInvariant, PTL

-----------------------------------------------------------------------------
(***************************************************************************)
(* A session that has lost step.                                           *)
(***************************************************************************)

(* A stage that has lost step takes no frame of this session. *)
LEMMA LostRefuses ==
  ASSUME IInv, NEW s \in Stage, LostStep(s), NEW t \in Stage, ServerStep(t)
  PROVE  UNCHANGED session /\ sequence'[s] = sequence[s] /\ executed'[s] = executed[s]
<1>1. UNCHANGED session
  BY DEF ServerStep, Serve, ServeUnanswered, ServeRefused, ServeLate
<1>2. UNCHANGED runtime \/ \E f \in Frames : Execute(t, f) /\ sequence[t] = next
  <2>1. ASSUME link[t].request # None, Execute(t, link[t].request)
        PROVE  \E f \in Frames : Execute(t, f) /\ sequence[t] = next
    <3>1. link[t].request = frame /\ frame \in Frames /\ sequence[t] = next
      BY <2>1, ServeFacts
    <3> QED BY <2>1, <3>1
  <2>2. CASE Serve(t) \/ ServeUnanswered(t)
    BY <2>1, <2>2 DEF Serve, ServeUnanswered
  <2>3. CASE ServeRefused(t)
    BY <2>3 DEF ServeRefused, Refuse
  <2>4. CASE ServeLate(t)
    <3>1. PICK f \in late[t] : Execute(t, f) \/ Refuse(t, f)
      BY <2>4 DEF ServeLate
    <3>2. f \in Frames
      BY Types DEF IInv
    <3>3. f.seq <= next /\ (sequence[t] < next => f.seq > 0)
      BY DEF IInv, StageInv, InStep
    <3>4. CASE Execute(t, f)
      <4>1. sequence[t] = next
        BY <3>2, <3>3, <3>4, Executes
      <4> QED BY <3>2, <3>4, <4>1
    <3>5. CASE Refuse(t, f)
      BY <3>5 DEF Refuse
    <3> QED BY <3>1, <3>4, <3>5
  <2> QED BY <2>2, <2>3, <2>4 DEF ServerStep
<1>3. CASE UNCHANGED runtime
  BY <1>1, <1>3 DEF runtime
<1>4. ASSUME NEW f \in Frames, Execute(t, f), sequence[t] = next
      PROVE  sequence'[s] = sequence[s] /\ executed'[s] = executed[s]
  <2>1. t # s
    BY <1>4 DEF LostStep
  <2> QED BY <1>4, <2>1 DEF IInv, TypeOK, Execute
<1> QED BY <1>1, <1>2, <1>3, <1>4

(* A stage that has lost step has no answer on its way, and gets none. *)
LEMMA LostStaysSilent ==
  ASSUME IInv, Next, NEW s \in Stage, LostStep(s)
  PROVE  link'[s].reply = None
<1>1. /\ link \in [Stage -> [open : BOOLEAN, serving : BOOLEAN, request : Slot, reply : Slot]]
      /\ link[s].reply = None
  BY DEF IInv, TypeOK, LostStep
<1>2. ASSUME NEW t \in Stage, Close(t)
      PROVE  link'[s].reply = None
  BY <1>1, <1>2 DEF Close, Closed
<1>3. ASSUME NEW t \in Stage, ClientStep(t) \/ CloseClient(t)
      PROVE  link'[s].reply = None
  <2>1. CASE Dial(t)
    BY <1>1, <2>1 DEF Dial, Fresh
  <2>2. CASE DialFails(t)
    BY <1>1, <2>2 DEF DialFails
  <2>3. CASE Write(t)
    BY <1>1, <2>3 DEF Write
  <2>4. CASE WriteFails(t) \/ ReadFails(t) \/ CloseClient(t)
    BY <1>2, <2>4 DEF WriteFails, ReadFails, CloseClient
  <2>5. CASE Read(t)
    <3>1. Close(t) \/ link' = [link EXCEPT ![t].reply = None]
      BY <2>5 DEF Read
    <3>2. CASE link' = [link EXCEPT ![t].reply = None]
      BY <1>1, <3>2
    <3> QED BY <1>2, <3>1, <3>2
  <2> QED BY <1>3, <2>1, <2>2, <2>3, <2>4, <2>5 DEF ClientStep
<1>4. ASSUME NEW t \in Stage, ServerStep(t)
      PROVE  link'[s].reply = None
  <2>1. CASE Serve(t)
    <3>1. t # s
      <4>1. link[t].request # None /\ Execute(t, link[t].request)
        BY <2>1 DEF Serve
      <4>2. sequence[t] = next
        BY <4>1, ServeFacts
      <4> QED BY <4>2 DEF LostStep
    <3> QED BY <1>1, <2>1, <3>1 DEF Serve
  <2>2. CASE ServeUnanswered(t)
    BY <1>1, <2>2 DEF ServeUnanswered
  <2>3. CASE ServeRefused(t)
    BY <1>1, <2>3 DEF ServeRefused
  <2>4. CASE ServeLate(t)
    BY <1>1, <2>4 DEF ServeLate
  <2> QED BY <1>4, <2>1, <2>2, <2>3, <2>4 DEF ServerStep
<1>5. ASSUME NEW t \in Stage, Expire(t)
      PROVE  link'[s].reply = None
  BY <1>1, <1>5 DEF Expire
<1>6. ASSUME NEW t \in Stage, Restart(t)
      PROVE  link'[s].reply = None
  <2>1. PICK reply \in {link[t].reply, None} :
          link' = [link EXCEPT ![t].serving = FALSE, ![t].request = None, ![t].reply = reply]
    BY <1>6 DEF Restart
  <2>2. t = s => reply = None
    BY <1>1, <2>1
  <2> QED BY <1>1, <2>1, <2>2
<1>7. ASSUME NEW pos \in Positions, NEW width \in Widths, Run(pos, width)
      PROVE  link'[s].reply = None
  BY <1>1, <1>7 DEF Run
<1> QED BY <1>3, <1>4, <1>5, <1>6, <1>7 DEF Next

(* No step brings a wedged session back in step. *)
LEMMA WedgedStep ==
  ASSUME IInv, Next, Wedged
  PROVE  Wedged' /\ next' = next
<1>1. PICK s \in Stage : LostStep(s)
  BY DEF Wedged, LostStep
<1>2. /\ TypeOK /\ next \in Nat /\ next > 0 /\ at \in Nat /\ s \in Nat /\ s > 0 /\ s <= N /\ N \in Nat
      /\ sequence[s] \in Nat /\ calls \in Nat
  BY Types, Constants DEF IInv, Wedged, Stage
<1> SUFFICES next' = next /\ LostStep(s)'
  BY <1>2 DEF Wedged, LostStep
<1>0. link'[s].reply = None
  BY <1>1, LostStaysSilent
<1>3. ASSUME NEW pos \in Positions, NEW width \in Widths, Run(pos, width)
      PROVE  next' = next /\ LostStep(s)'
  <2>1. at' = 1 /\ ~sent' /\ UNCHANGED <<next, sequence, executed>>
    BY <1>3 DEF Run, runtime
  <2> QED BY <1>0, <1>1, <1>2, <2>1 DEF LostStep
<1>4. ASSUME NEW t \in Stage, ClientStep(t) \/ CloseClient(t)
      PROVE  next' = next /\ LostStep(s)'
  <2>1. UNCHANGED <<sequence, executed>>
    BY <1>4 DEF ClientStep, CloseClient, Dial, DialFails, Write, WriteFails, Read, ReadFails, runtime
  <2>2. CASE UNCHANGED session
    BY <1>0, <1>1, <2>1, <2>2 DEF session, LostStep
  <2>3. CASE Fail
    <3>1. at' = 0 /\ ~sent' /\ next' = next
      BY <2>3 DEF Fail
    <3> QED BY <1>0, <1>1, <1>2, <2>1, <3>1 DEF LostStep
  <2>4. CASE Write(t)
    (* The frame it is sent is newer than anything it has executed. *)
    <3>1. at = t /\ ~sent /\ UNCHANGED <<next, calls, at>>
      BY <2>4 DEF Write
    <3>2. s = t /\ sequence[s] = next + 1 => executed[s][next + 1].input < calls
      <4>1. Earlier(s) /\ Len(executed[s]) = sequence[s] /\ executed[s] \in Seq(Values)
        BY <1>2, Types DEF IInv, StageInv
      <4>2. s = t => ~Reached(s)
        BY <1>2, <3>1 DEF Reached
      <4> QED BY <1>2, <4>1, <4>2 DEF Earlier, Recent
    <3>3. sequence[s] = next + 1 => executed[s][next + 1].input \in Nat
      <4>1. executed[s] \in Seq(Values) /\ Len(executed[s]) = sequence[s]
        BY <1>2, Types
      <4> QED BY <1>2, <4>1, InputTypes
    <3> QED BY <1>0, <1>1, <1>2, <2>1, <3>1, <3>2, <3>3 DEF LostStep
  <2>5. CASE Read(t) /\ ~Fail
    <3>1. at = t /\ link[t].reply # None /\ Forward(t) /\ sent' = FALSE
      BY <2>5 DEF Read
    <3>2. s # t /\ s >= t
      BY <1>0, <1>1, <3>1 DEF LostStep
    <3>3. t \in Nat /\ t < N
      BY <1>2, <3>2, Constants DEF Stage
    <3>4. at' = t + 1 /\ next' = next
      BY <3>1, <3>3 DEF Forward
    <3> QED BY <1>0, <1>1, <1>2, <2>1, <3>1, <3>2, <3>3, <3>4 DEF LostStep
  <2> QED BY <1>4, <2>2, <2>3, <2>4, <2>5
       DEF ClientStep, CloseClient, Dial, DialFails, WriteFails, ReadFails
<1>5. ASSUME NEW t \in Stage, ServerStep(t)
      PROVE  next' = next /\ LostStep(s)'
  <2>1. /\ UNCHANGED <<next, calls, at, sent>>
        /\ sequence'[s] = sequence[s] /\ executed'[s] = executed[s]
    BY <1>1, <1>5, LostRefuses DEF session
  <2> QED BY <1>0, <1>1, <2>1 DEF LostStep
<1>6. ASSUME NEW t \in Stage, Expire(t)
      PROVE  next' = next /\ LostStep(s)'
  BY <1>0, <1>1, <1>6 DEF Expire, session, runtime, LostStep
<1>7. ASSUME NEW t \in Stage, Restart(t)
      PROVE  next' = next /\ LostStep(s)'
  <2>1. UNCHANGED <<next, calls, at, sent>>
    BY <1>7 DEF Restart, session
  <2>2. CASE t = s
    <3>1. sequence'[s] = 0
      BY <1>2, <1>7, <2>2 DEF Restart, TypeOK
    <3> QED BY <1>0, <1>1, <1>2, <2>1, <3>1 DEF LostStep
  <2>3. CASE t # s
    <3>1. sequence'[s] = sequence[s] /\ executed'[s] = executed[s]
      BY <1>2, <1>7, <2>3 DEF Restart, TypeOK
    <3> QED BY <1>0, <1>1, <2>1, <3>1 DEF LostStep
  <2> QED BY <2>2, <2>3
<1> QED BY <1>3, <1>4, <1>5, <1>6, <1>7 DEF Next

(* A session in use that has lost step with a stage never succeeds again,   *)
(* whatever is retried, redialled or restarted (Runtime.Process takes no    *)
(* number twice and Run never skips one).                                   *)
THEOREM WedgedStays == Spec => WedgedForever
<1>1. IInv /\ [Next]_vars => [Wedged => Wedged' /\ next' = next]_vars
  BY WedgedStep
<1> QED BY <1>1, SessionInvariant, PTL DEF Spec, WedgedForever

-----------------------------------------------------------------------------
(***************************************************************************)
(* The pipeline the callers see.                                           *)
(***************************************************************************)

(* A session that has not been called is one. *)
LEMMA InitIsPipelineInit == Init => Calls!Init
BY DEF Init, Calls!Init

(* What happens in the connections and at the stages is not seen. *)
LEMMA UnseenStep ==
  ASSUME UNCHANGED <<calls, at, returned>>
  PROVE  UNCHANGED Calls!vars
BY DEF Calls!vars

(* A call that fails ends without an answer. *)
LEMMA FailIsPipelineFail ==
  ASSUME NEW s \in Stage, at = s, Fail
  PROVE  Calls!Fail
<1>1. at # 0
  BY Constants
<1> QED BY <1>1 DEF Fail, Calls!Fail

(* The answer of the last stage is the call's own activation, come through  *)
(* all of them.                                                             *)
LEMMA ReadIsPipelineStep ==
  ASSUME IInv, NEW s \in Stage, Read(s)
  PROVE  [Calls!Next]_(Calls!vars)
<1>1. at = s /\ s # 0 /\ at # 0 /\ link[s].reply # None /\ N \in Nat
  BY Constants DEF Read
<1>2. CASE Readable(link[s].reply) /\ Matches(link[s].reply, frame)
  <2>1. Forward(s) /\ UNCHANGED calls
    BY <1>2 DEF Read
  <2>2. CASE s < N
    <3>1. at' = s + 1 /\ UNCHANGED returned
      BY <2>1, <2>2 DEF Forward
    <3>2. s + 1 # 0
      BY Constants
    <3> QED BY <1>1, <2>1, <3>1, <3>2 DEF Calls!vars
  <2>3. CASE ~(s < N)
    <3>1. s = N
      BY <2>3, Constants DEF Stage
    <3>2. link[s].reply.value = [input |-> calls, through |-> Upto(s + 1)]
      BY <1>1, ReplyFacts
    <3>3. Upto(s + 1) = [i \in 1..N |-> i]
      BY <1>1, <3>1 DEF Upto
    <3>4. at' = 0 /\ returned' = Append(returned, [call |-> calls, value |-> link[s].reply.value])
      BY <2>1, <2>3 DEF Forward
    <3>5. Calls!Answer
      BY <1>1, <2>1, <3>2, <3>3, <3>4 DEF Calls!Answer, Calls!Applied
    <3> QED BY <3>5 DEF Calls!Next
  <2> QED BY <2>2, <2>3
<1>3. CASE ~(Readable(link[s].reply) /\ Matches(link[s].reply, frame))
  BY <1>1, <1>3, FailIsPipelineFail DEF Read, Calls!Next
<1> QED BY <1>2, <1>3

(* Every step of the session is a step of the pipeline, or not seen.        *)
LEMMA StepIsPipelineStep ==
  ASSUME IInv, [Next]_vars
  PROVE  [Calls!Next]_(Calls!vars)
<1>1. ASSUME NEW pos \in Positions, NEW width \in Widths, Run(pos, width)
      PROVE  Calls!Call
  BY <1>1 DEF Run, Calls!Call
<1>2. ASSUME NEW s \in Stage, Dial(s) \/ Write(s) \/ CloseClient(s)
      PROVE  UNCHANGED Calls!vars
  BY <1>2, UnseenStep DEF Dial, Write, CloseClient, session
<1>3. ASSUME NEW s \in Stage, DialFails(s) \/ WriteFails(s) \/ ReadFails(s)
      PROVE  Calls!Fail
  BY <1>3, FailIsPipelineFail DEF DialFails, WriteFails, ReadFails
<1>4. ASSUME NEW s \in Stage, ServerStep(s) \/ Expire(s) \/ Restart(s)
      PROVE  UNCHANGED Calls!vars
  BY <1>4, UnseenStep
     DEF ServerStep, Serve, ServeUnanswered, ServeRefused, ServeLate, Expire, Restart, session
<1>5. CASE UNCHANGED vars
  BY <1>5, UnseenStep DEF vars, session
<1> QED BY <1>1, <1>2, <1>3, <1>4, <1>5, ReadIsPipelineStep DEF Next, ClientStep, Calls!Next

(* The session implements the pipeline its callers see: what abandoned      *)
(* frames, late answers and restarts do below never shows in an answer.     *)
THEOREM SessionIsPipeline == Spec => ImplementsPipeline
<1>1. IInv /\ [Next]_vars => [Calls!Next]_(Calls!vars)
  BY StepIsPipelineStep
<1>2. Spec => Init /\ [][Next]_vars
  BY DEF Spec
<1> QED BY <1>1, <1>2, InitIsPipelineInit, SessionInvariant, PTL
        DEF ImplementsPipeline, Calls!Spec
=============================================================================
