---------------------------- MODULE SecureStream ----------------------------
(***************************************************************************)
(* One stream of the tunnel, from the moment the relay has joined its two  *)
(* halves: the agents' bridges (internal/tunnel/agent.go), which copy      *)
(* between a program's socket and the stream, and the encrypted records    *)
(* the stream is made of (crypto.go).                                      *)
(*                                                                         *)
(* A record stands for its header and its sealed bytes.  One that arrives  *)
(* in part makes io.ReadFull fail, as the end of the stream does, so only  *)
(* whole records are on the wire.  Bytes are numbered by their place in    *)
(* what their program wrote, and those of a record or of a buffer are the  *)
(* "size" ones after the first "from".  Variables are by end; wire, cut    *)
(* and eof belong to the end that writes.                                  *)
(***************************************************************************)
EXTENDS Integers, Sequences

CONSTANTS
  MaxRecord,   \* maxEncryptedRecord (64 KB)
  OutBuffer,   \* what io.Copy reads from a socket at a time (32 KB)
  InBuffer,    \* what it reads from the stream at a time (32 KB)
  MaxBytes     \* bound: bytes each program writes

End == {"requester", "provider"}
Peer(e) == IF e = "requester" THEN "provider" ELSE "requester"

ASSUME SecureStreamAssumption ==
  /\ {MaxRecord, OutBuffer, InBuffer} \subseteq Nat \ {0}
  /\ MaxBytes \in [End -> Nat]

VARIABLES
  sent,     \* bytes the program has written to its socket
  eof,      \* it has closed the socket, or its output
  at,       \* its agent: "opening", "open" or "closed"
  stopped,  \* the copies that have ended: "out" to the stream, "in" from it
  taken,    \* bytes io.Copy has read from the socket
  sealed,   \* those of them that Write has put in records
  writeCounter, readCounter,
  wire,     \* records under way
  cut,      \* the network has failed: what it loses is lost for good
  buffer,   \* readBuffer
  got       \* bytes written to the program's socket

source == <<sent, eof>>
out == <<taken, sealed, writeCounter>>
in == <<readCounter, buffer, got>>
network == <<wire, cut>>
vars == <<source, at, stopped, out, network, in>>

Least(a, b) == IF a < b THEN a ELSE b
Run(k, n) == [i \in 1..n |-> k + i]

-----------------------------------------------------------------------------
(***************************************************************************)
(* The programs and the network.                                           *)
(***************************************************************************)

Send(e) ==
  /\ ~eof[e] /\ sent[e] < MaxBytes[e]
  /\ sent' = [sent EXCEPT ![e] = @ + 1]
  /\ UNCHANGED <<eof, at, stopped, out, network, in>>

Finish(e) ==
  /\ eof' = [eof EXCEPT ![e] = TRUE]
  /\ UNCHANGED <<sent, at, stopped, out, network, in>>

(* A connection fails, on either side of the relay: some of what is under   *)
(* way is lost.  So it may be when a connection is closed and nobody reads. *)
Cut(e) ==
  /\ cut' = [cut EXCEPT ![e] = TRUE]
  /\ \E n \in 0..Len(wire[e]) : wire' = [wire EXCEPT ![e] = SubSeq(@, 1, n)]
  /\ UNCHANGED <<source, at, stopped, out, in>>

-----------------------------------------------------------------------------
(***************************************************************************)
(* An agent.                                                               *)
(***************************************************************************)

Copying(e, way) == at[e] = "open" /\ way \notin stopped[e]

(* io.Copy returns. *)
Stop(e, way) ==
  /\ Copying(e, way)
  /\ stopped' = [stopped EXCEPT ![e] = @ \cup {way}]
  /\ UNCHANGED <<source, at, out, network, in>>

Open_Unbuffered(e) ==
  /\ at[e] = "opening" /\ at' = [at EXCEPT ![e] = "open"]
  /\ wire' = [wire EXCEPT ![Peer(e)] = <<>>]
  /\ UNCHANGED <<source, stopped, out, cut, in>>

(* openStream has read "ready".  Records that came right behind it are in   *)
(* the handshake's bufio.Reader; bufferedConn goes on reading there.        *)
Open(e) ==
  /\ at[e] = "opening" /\ at' = [at EXCEPT ![e] = "open"]
  /\ UNCHANGED <<source, stopped, out, network, in>>

(* "ready" does not arrive.  openForward may dial again: another stream. *)
OpenFails(e) ==
  /\ at[e] = "opening" /\ cut[Peer(e)] /\ at' = [at EXCEPT ![e] = "closed"]
  /\ UNCHANGED <<source, stopped, out, network, in>>

(* bridge returns when the first copy does, and both connections are closed *)
(* whatever the other copy has left to do.                                  *)
Shut(e) ==
  /\ at[e] = "open" /\ stopped[e] # {} /\ at' = [at EXCEPT ![e] = "closed"]
  /\ UNCHANGED <<source, stopped, out, network, in>>

(* io.Copy reads from the socket. *)
Take(e) ==
  /\ Copying(e, "out") /\ sealed[e] = taken[e]
  /\ \E n \in 1..Least(OutBuffer, sent[e] - taken[e]) :
       taken' = [taken EXCEPT ![e] = @ + n]
  /\ UNCHANGED <<source, at, stopped, sealed, writeCounter, network, in>>

OutEnds(e) == Stop(e, "out") /\ eof[e] /\ taken[e] = sent[e] /\ sealed[e] = taken[e]

Record(e) ==
  [counter |-> writeCounter[e], from |-> sealed[e],
   size |-> Least(MaxRecord, taken[e] - sealed[e])]

Sealed(e) == sealed' = [sealed EXCEPT ![e] = @ + Record(e).size]

Transmit(e) ==
  /\ wire' = [wire EXCEPT ![e] = IF cut[e] THEN @ ELSE Append(@, Record(e))]
  /\ UNCHANGED cut

(* One round of Write's loop. *)
Write(e) ==
  /\ Copying(e, "out") /\ sealed[e] < taken[e]
  /\ Transmit(e) /\ Sealed(e)
  /\ writeCounter' = [writeCounter EXCEPT ![e] = @ + 1]
  /\ UNCHANGED <<source, at, stopped, taken, in>>

(* writeFull fails.  The counter stays, and io.Copy does not try again. *)
WriteFails(e) == Stop(e, "out") /\ sealed[e] < taken[e] /\ cut[e]

-----------------------------------------------------------------------------
(***************************************************************************)
(* secureConn.Read, and io.Copy's write to the socket.                     *)
(***************************************************************************)

(* Read hands out what fits from the bytes, and keeps the rest. *)
HandOut(e, from, size) ==
  LET n == Least(InBuffer, size) IN
    /\ got' = [got EXCEPT ![e] = @ \o Run(from, n)]
    /\ buffer' = [buffer EXCEPT ![e] = [from |-> from + n, size |-> size - n]]

ReadBuffer(e) ==
  /\ Copying(e, "in") /\ buffer[e].size > 0
  /\ HandOut(e, buffer[e].from, buffer[e].size)
  /\ UNCHANGED <<source, at, stopped, out, network, readCounter>>

(* The sizes allowed, and the nonce its sender used. *)
Opens(e, record) ==
  record.size \in 1..MaxRecord /\ record.counter = readCounter[e]

Incoming(e) == wire[Peer(e)]

ReadRecord_DropsRest(e) ==
  /\ Copying(e, "in") /\ Incoming(e) # <<>>
  /\ LET record == Head(Incoming(e)) IN
       /\ Opens(e, record)
       /\ got' = [got EXCEPT ![e] = @ \o Run(record.from, Least(InBuffer, record.size))]
  /\ wire' = [wire EXCEPT ![Peer(e)] = Tail(@)]
  /\ readCounter' = [readCounter EXCEPT ![e] = @ + 1]
  /\ UNCHANGED <<source, at, stopped, out, cut, buffer>>

(* A record that does not open ends the copy: "invalid encrypted tunnel     *)
(* record size", "tunnel record authentication failed".                     *)
ReadRecord(e) ==
  /\ Copying(e, "in") /\ buffer[e].size = 0 /\ Incoming(e) # <<>>
  /\ LET record == Head(Incoming(e)) IN
       IF Opens(e, record)
       THEN /\ HandOut(e, record.from, record.size)
            /\ readCounter' = [readCounter EXCEPT ![e] = @ + 1] /\ UNCHANGED stopped
       ELSE /\ stopped' = [stopped EXCEPT ![e] = @ \cup {"in"}]
            /\ UNCHANGED in
  /\ wire' = [wire EXCEPT ![Peer(e)] = Tail(@)]
  /\ UNCHANGED <<source, at, out, cut>>

(* The end of the stream, in the middle of a record or not. *)
ReadEnds(e) ==
  /\ Stop(e, "in") /\ buffer[e].size = 0
  /\ Incoming(e) = <<>> /\ (cut[Peer(e)] \/ at[Peer(e)] = "closed")

(* The program has gone and its socket takes no more. *)
SocketFails(e) == Stop(e, "in") /\ eof[e]

-----------------------------------------------------------------------------
Init ==
  /\ sent = [e \in End |-> 0] /\ eof = [e \in End |-> FALSE]
  /\ at = [e \in End |-> "opening"] /\ stopped = [e \in End |-> {}]
  /\ taken = [e \in End |-> 0] /\ sealed = [e \in End |-> 0]
  /\ writeCounter = [e \in End |-> 0] /\ readCounter = [e \in End |-> 0]
  /\ wire = [e \in End |-> <<>>] /\ cut = [e \in End |-> FALSE]
  /\ buffer = [e \in End |-> [from |-> 0, size |-> 0]]
  /\ got = [e \in End |-> <<>>]

CopyOut(e) == Take(e) \/ Write(e) \/ WriteFails(e) \/ OutEnds(e)

CopyIn(e) == ReadBuffer(e) \/ ReadRecord(e) \/ ReadEnds(e) \/ SocketFails(e)

Bridge(e) == Open(e) \/ OpenFails(e) \/ Shut(e)

Next ==
  \E e \in End : Send(e) \/ Finish(e) \/ Cut(e) \/ Bridge(e) \/ CopyOut(e) \/ CopyIn(e)

(* Both goroutines of a bridge run, and the relay passes on what it gets. *)
Fairness ==
  \A e \in End : WF_vars(Bridge(e)) /\ WF_vars(CopyOut(e)) /\ WF_vars(CopyIn(e))

Spec == Init /\ [][Next]_vars /\ Fairness

-----------------------------------------------------------------------------
(***************************************************************************)
(* Properties.                                                             *)
(***************************************************************************)

Over == \E e \in End : eof[e] \/ cut[e]

(* Everything a program writes reaches the other, however it is divided     *)
(* into records and reads, until a program is through or the network fails. *)
(* (Write counts only the records it has sent; Read keeps the rest of one.) *)
Arrives ==
  \A e \in End : \A k \in 1..MaxBytes[e] :
    sent[e] >= k ~> (Len(got[Peer(e)]) >= k \/ Over)

Stream == INSTANCE ByteStream WITH open <- [e \in End |-> at[e] # "closed"], over <- Over

(* Each program is given the other's bytes in order, none missing and none  *)
(* twice, whatever is cut off or closed meanwhile, and no record is refused *)
(* that was only delayed or divided (the counters of Write and Read agree,  *)
(* bufferedConn loses nothing, bridge never writes after a failed Write).   *)
ImplementsByteStream == Stream!Spec
=============================================================================
