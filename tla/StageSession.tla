---------------------------- MODULE StageSession ----------------------------
(***************************************************************************)
(* The experimental layer pipeline: distributed.Session.Run driving one    *)
(* stage.TCPClient per stage, each talking tensorwire frames to a          *)
(* stage.Server whose Runtime keeps, per session ID, the sequence number   *)
(* it expects next.                                                        *)
(*                                                                         *)
(* One session ID is modelled: Runtime.sequence is indexed by it, so other *)
(* sessions touch other entries.  The activation handed to the r-th call   *)
(* of Run is represented by r itself and what the stages made of it by the *)
(* stages it went through, so two activations are equal only if they come  *)
(* from the same call and went through the same stages in the same order.  *)
(***************************************************************************)
EXTENDS Integers, Sequences

CONSTANTS
  N,             \* len(Session.Stages)
  HiddenSize,    \* Runtime.HiddenSize of each stage
  MaxValues,     \* tensorwire.maxValues
  Positions,     \* the token positions callers pass to Run
  Widths,        \* the activation lengths callers pass to Run
  Faults,        \* what may go wrong, see Fault
  None,          \* no frame
  MaxRuns,       \* bound: calls of Run
  MaxNext        \* bound: calls of Run that succeed

Stage == 1..N

(* "network": dials, writes and replies fail; "timeout": the client's read  *)
(* deadline passes; "deadline": the server's five-minute connection         *)
(* deadline passes; "execute": the backend fails; "restart": a stage        *)
(* process is restarted.                                                    *)
Fault == {"network", "timeout", "deadline", "execute", "restart"}

Values == [input : 1..MaxRuns, through : Seq(Stage)]
Results == [call : 1..MaxRuns, value : Values]
Frames == [seq : Nat, pos : Positions, width : Nat, value : Values]

ASSUME StageAssumption ==
  /\ N \in Nat /\ N >= 2
  /\ HiddenSize \in [Stage -> Nat \ {0}]
  /\ MaxValues \in Nat /\ Widths \subseteq Nat /\ Positions \subseteq Nat
  /\ Faults \subseteq Fault
  /\ MaxRuns \in Nat /\ MaxNext \in Nat
  /\ None \notin Frames

VARIABLES
  next,       \* Session.next
  calls,      \* how many calls of Run have been made; names their activations
  at,         \* the stage Run is at; 0 when no call holds Session.mu
  sent,       \* Run has written its frame to that stage and waits
  frame,      \* Run's local frame
  returned,   \* what each successful call returned, by sequence number
  link,       \* each TCPClient's connection and what it carries
  late,       \* frames left in connections the client has closed
  sequence,   \* Runtime.sequence[session] at each stage
  executed    \* the frames each stage process has run its layers on

session == <<next, calls, at, sent, frame, returned>>
runtime == <<sequence, executed>>
vars == <<session, link, late, runtime>>

Closed == [open |-> FALSE, serving |-> FALSE, request |-> None, reply |-> None]
Fresh  == [open |-> TRUE, serving |-> TRUE, request |-> None, reply |-> None]

-----------------------------------------------------------------------------
(***************************************************************************)
(* The client: Session.Run and TCPClient.                                  *)
(***************************************************************************)

(* A call with an empty activation is refused and changes nothing. *)
Run(pos, width) ==
  /\ at = 0 /\ calls < MaxRuns /\ next < MaxNext /\ width > 0
  /\ calls' = calls + 1
  /\ at' = 1 /\ sent' = FALSE
  /\ frame' = [seq |-> next, pos |-> pos, width |-> width,
               value |-> [input |-> calls + 1, through |-> <<>>]]
  /\ UNCHANGED <<next, returned, link, late, runtime>>

(* Run returns an error: Session.next is not advanced. *)
Fail ==
  /\ at' = 0 /\ sent' = FALSE /\ frame' = None
  /\ UNCHANGED <<next, calls, returned>>

Close_Kept(s) ==
  UNCHANGED <<link, late>>

(* closeLocked: the connection is forgotten, but a request the handler has  *)
(* not read yet may still reach the stage.                                  *)
Close(s) ==
  /\ link' = [link EXCEPT ![s] = Closed]
  /\ late' = IF link[s].serving /\ link[s].request # None
             THEN [late EXCEPT ![s] = @ \cup {link[s].request}] ELSE late

Dial(s) ==
  /\ at = s /\ ~sent /\ ~link[s].open
  /\ link' = [link EXCEPT ![s] = Fresh]
  /\ UNCHANGED <<session, late, runtime>>

DialFails(s) ==
  /\ "network" \in Faults
  /\ at = s /\ ~sent /\ ~link[s].open
  /\ Fail
  /\ UNCHANGED <<link, late, runtime>>

(* WriteFrame refuses a frame it could not describe in its header. *)
Writable(f) == f.width \in 1..MaxValues

(* ReadFrame refuses a value count out of range; what WriteFrame signed with *)
(* the shared key it reads back unchanged.                                   *)
Readable(f) == f.width \in 1..MaxValues

Write(s) ==
  /\ at = s /\ ~sent /\ link[s].open /\ link[s].serving /\ Writable(frame)
  /\ sent' = TRUE
  /\ link' = [link EXCEPT ![s].request = frame]
  /\ UNCHANGED <<next, calls, at, frame, returned, late, runtime>>

(* The frame cannot be written: it is not writable, the network fails, or   *)
(* the handler has closed its end (when the write into a closed connection  *)
(* is buffered the read fails instead, with the same effect).               *)
WriteFails(s) ==
  /\ at = s /\ ~sent /\ link[s].open
  /\ ~Writable(frame) \/ ~link[s].serving \/ "network" \in Faults
  /\ Fail /\ Close(s)
  /\ UNCHANGED runtime

Matches(f, g) == f.seq = g.seq /\ f.pos = g.pos

(* The loop of Run goes on to the next stage; after the last one it         *)
(* advances Session.next and returns the values.                            *)
Forward(s) ==
  IF s < N
  THEN at' = s + 1 /\ frame' = link[s].reply /\ UNCHANGED <<next, returned>>
  ELSE /\ at' = 0 /\ frame' = None
       /\ next' = next + 1
       /\ returned' = Append(returned, [call |-> calls, value |-> link[s].reply.value])

Read(s) ==
  /\ at = s /\ sent /\ link[s].reply # None
  /\ IF Readable(link[s].reply) /\ Matches(link[s].reply, frame)
     THEN /\ Forward(s)
          /\ sent' = FALSE /\ UNCHANGED <<calls, late>>
          /\ link' = [link EXCEPT ![s].reply = None]
     ELSE Fail /\ Close(s)
  /\ UNCHANGED runtime

ReadFails_NoDeadline(s) ==
  /\ at = s /\ sent
  /\ ~link[s].serving /\ link[s].reply = None
  /\ Fail /\ Close(s)
  /\ UNCHANGED runtime

(* The handler has closed the connection without answering, or the read     *)
(* deadline has passed, the answer being on its way or not.                 *)
ReadFails(s) ==
  /\ at = s /\ sent
  /\ (~link[s].serving /\ link[s].reply = None) \/ "timeout" \in Faults
  /\ Fail /\ Close(s)
  /\ UNCHANGED runtime

(* TCPClient.Close waits for the mutex that Process holds. *)
CloseClient(s) ==
  /\ at # s /\ link[s].open
  /\ Close(s)
  /\ UNCHANGED <<session, runtime>>

-----------------------------------------------------------------------------
(***************************************************************************)
(* The stage: Server.handle and Runtime.Process, which holds Runtime.mu    *)
(* from the sequence check to the advance.                                 *)
(***************************************************************************)

Accepts_Again(s, f) ==
  /\ f.width = HiddenSize[s]
  /\ f.seq <= sequence[s]

Accepts(s, f) ==
  /\ f.width = HiddenSize[s]
  /\ f.seq = sequence[s]

Through(s, f) == [f EXCEPT !.value.through = Append(@, s)]

Execute(s, f) ==
  /\ Readable(f) /\ Accepts(s, f)
  /\ sequence' = [sequence EXCEPT ![s] = f.seq + 1]
  /\ executed' = [executed EXCEPT ![s] = Append(@, f.value)]

(* An error of ReadFrame or Runtime.Process makes the handler close the     *)
(* connection.                                                              *)
Refuse(s, f) ==
  /\ ~Readable(f) \/ ~Accepts(s, f) \/ "execute" \in Faults
  /\ UNCHANGED runtime

Serve(s) ==
  /\ link[s].serving /\ link[s].request # None
  /\ Execute(s, link[s].request)
  /\ link' = [link EXCEPT ![s].request = None,
                          ![s].reply = Through(s, link[s].request)]
  /\ UNCHANGED <<session, late>>

ServeUnanswered(s) ==
  /\ Faults \cap {"network", "deadline"} # {}
  /\ link[s].serving /\ link[s].request # None
  /\ Execute(s, link[s].request)
  /\ link' = [link EXCEPT ![s].request = None, ![s].serving = FALSE]
  /\ UNCHANGED <<session, late>>

ServeRefused(s) ==
  /\ link[s].serving /\ link[s].request # None
  /\ Refuse(s, link[s].request)
  /\ link' = [link EXCEPT ![s].request = None, ![s].serving = FALSE]
  /\ UNCHANGED <<session, late>>

(* The handler of a connection the client has given up reads its frame. *)
ServeLate(s) ==
  \E f \in late[s] :
    /\ Execute(s, f) \/ Refuse(s, f)
    /\ late' = [late EXCEPT ![s] = @ \ {f}]
    /\ UNCHANGED <<session, link>>

(* handle sets one deadline when the connection is accepted and never       *)
(* extends it; a broken connection ends the handler the same way.           *)
Expire(s) ==
  /\ Faults \cap {"network", "deadline"} # {}
  /\ link[s].serving
  /\ link' = [link EXCEPT ![s].serving = FALSE, ![s].request = None]
  /\ UNCHANGED <<session, late, runtime>>

(* The stage process ends and is started again.  What it has not read is    *)
(* lost; an answer it has written may be in the client's socket already, or *)
(* be lost with the connection.                                             *)
Restart(s) ==
  /\ "restart" \in Faults
  /\ sequence' = [sequence EXCEPT ![s] = 0]
  /\ executed' = [executed EXCEPT ![s] = <<>>]
  /\ \E reply \in {link[s].reply, None} :
       link' = [link EXCEPT ![s].serving = FALSE, ![s].request = None, ![s].reply = reply]
  /\ late' = [late EXCEPT ![s] = {}]
  /\ UNCHANGED session

-----------------------------------------------------------------------------
Init ==
  /\ next = 0 /\ calls = 0 /\ at = 0 /\ sent = FALSE /\ frame = None
  /\ returned = <<>>
  /\ link = [s \in Stage |-> Closed]
  /\ late = [s \in Stage |-> {}]
  /\ sequence = [s \in Stage |-> 0]
  /\ executed = [s \in Stage |-> <<>>]

ClientStep(s) ==
  \/ Dial(s) \/ DialFails(s) \/ Write(s) \/ WriteFails(s) \/ Read(s) \/ ReadFails(s)

ServerStep(s) == Serve(s) \/ ServeUnanswered(s) \/ ServeRefused(s) \/ ServeLate(s)

Next ==
  \/ \E pos \in Positions, width \in Widths : Run(pos, width)
  \/ \E s \in Stage : ClientStep(s) \/ CloseClient(s)
  \/ \E s \in Stage : ServerStep(s) \/ Expire(s) \/ Restart(s)

(* The caller's goroutine is scheduled, and woken when its deadline passes. *)
(* Nothing is assumed of the stages: a backend may hang for ever.           *)
Fairness == \A s \in Stage : WF_vars(ClientStep(s))

Spec == Init /\ [][Next]_vars /\ Fairness

-----------------------------------------------------------------------------
(***************************************************************************)
(* Properties.                                                             *)
(***************************************************************************)

Slot == Frames \cup {None}

(* Every variable has its type; in particular a stage has executed exactly  *)
(* one frame per sequence number it has moved past (Runtime.Process).       *)
TypeOK ==
  /\ next \in Nat /\ calls \in 0..MaxRuns /\ at \in 0..N /\ sent \in BOOLEAN
  /\ frame \in Slot /\ (frame = None <=> at = 0)
  /\ returned \in Seq(Results) /\ Len(returned) = next
  /\ link \in [Stage -> [open : BOOLEAN, serving : BOOLEAN, request : Slot, reply : Slot]]
  /\ late \in [Stage -> SUBSET Frames]
  /\ sequence \in [Stage -> Nat]
  /\ executed \in [Stage -> Seq(Values)]
  /\ \A s \in Stage : Len(executed[s]) = sequence[s]

(* A call of Run that succeeds returns its own activation taken through     *)
(* every stage once and in order, whatever calls were given up before it    *)
(* and whatever those calls' frames still do at the stages (Session.Run,    *)
(* TCPClient.Process: a connection that failed is never read again).        *)
ResultIsOwn ==
  \A k \in 1..Len(returned) :
    returned[k].value = [input |-> returned[k].call, through |-> [i \in Stage |-> i]]

Calls == INSTANCE Pipeline WITH busy <- at # 0, answers <- returned

(* The session implements the pipeline its callers see: one call at a time, *)
(* answered with its own activation taken through every stage once and in   *)
(* order, or failed, whatever earlier calls left behind in connections and  *)
(* at the stages (Session.Run with TCPClient.Process and Runtime.Process).  *)
ImplementsPipeline == Calls!Spec

(* What a stage process has executed agrees with what the session has       *)
(* acknowledged: for every sequence number the session is past, the frame   *)
(* the stage ran is the one whose result was returned, come through the     *)
(* stages before it.  A frame of an abandoned call is never hidden in a     *)
(* stage's state under an acknowledged number (Runtime.Process).            *)
HistoryAgrees ==
  \A s \in Stage : \A k \in 1..next :
    k <= Len(executed[s]) =>
      executed[s][k] = [input |-> returned[k].call, through |-> [i \in 1..(s - 1) |-> i]]

(* A stage has lost step with the session: the current call has not passed  *)
(* it and it expects another number than the session's, neither because it  *)
(* has just executed the current call nor with an answer under way that the *)
(* call may still read, which it has if it was restarted since.             *)
LostStep(s) ==
  /\ s >= at /\ sequence[s] # next /\ link[s].reply = None
  /\ ~ (/\ at = s /\ sent /\ sequence[s] = next + 1
        /\ executed[s][next + 1].input = calls)

Wedged == next > 0 /\ \E s \in Stage : LostStep(s)

(* A session in use that has lost step with a stage never succeeds again:   *)
(* no retry, reconnection or restart brings it back, because Run resends    *)
(* the same sequence number and Runtime.Process takes no number twice.      *)
WedgedForever == [][Wedged => Wedged' /\ next' = next]_vars

(* Every call of Run returns, failed or not: it never waits for ever for a  *)
(* stage (TCPClient.Process sets a deadline on every exchange).             *)
RunReturns == at # 0 ~> at = 0

(* A session whose network and stages do not fail keeps working however     *)
(* long it lives: it never loses step with a stage.                         *)
NeverWedged == ~Wedged
=============================================================================
