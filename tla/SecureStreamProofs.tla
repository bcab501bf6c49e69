------------------------- MODULE SecureStreamProofs -------------------------
(***************************************************************************)
(* A proof that SecureStream implements ByteStream, for records and        *)
(* buffers of every size.  Flow says how the bytes of one direction are    *)
(* spread over the program, the bridge, the wire and the reader.           *)
(***************************************************************************)
EXTENDS SecureStream, SequenceTheorems, TLAPS

Sealable == [counter : Nat, from : Nat, size : 1..MaxRecord]

TypeOK ==
  /\ sent \in [End -> Nat] /\ eof \in [End -> BOOLEAN]
  /\ at \in [End -> {"opening", "open", "closed"}]
  /\ stopped \in [End -> SUBSET {"out", "in"}]
  /\ taken \in [End -> Nat] /\ sealed \in [End -> Nat]
  /\ writeCounter \in [End -> Nat] /\ readCounter \in [End -> Nat]
  /\ wire \in [End -> Seq(Sealable)] /\ cut \in [End -> BOOLEAN]
  /\ buffer \in [End -> [from : Nat, size : Nat]]
  /\ got \in [End -> Seq(Nat)]

(* The records of w follow one another, the first from the byte after base. *)
Chain(w, base) ==
  /\ w # <<>> => w[1].from = base
  /\ \A i \in 1..(Len(w) - 1) : w[i].from + w[i].size = w[i + 1].from

(* They reach no further than top, and that far. *)
Within(w, base, top) ==
  base <= top /\ \A i \in 1..Len(w) : w[i].from + w[i].size <= top

Ends(w, base, top) ==
  /\ w = <<>> => base = top
  /\ w # <<>> => w[Len(w)].from + w[Len(w)].size = top

Numbered(w, first) == \A i \in 1..Len(w) : w[i].counter = first + i - 1

(* The bytes of e: the reader has the first of them, then the buffer and    *)
(* the wire go on without a gap up to what Write has sealed, unless the     *)
(* wire is cut; the rest is in the bridge and in the socket.  The counters  *)
(* differ by the records on the wire.                                       *)
Received(e) == buffer[Peer(e)].from + buffer[Peer(e)].size

Flow(e) ==
  /\ sealed[e] <= taken[e] /\ taken[e] <= sent[e]
  /\ buffer[Peer(e)].from = Len(got[Peer(e)])
  /\ Numbered(wire[e], readCounter[Peer(e)])
  /\ Chain(wire[e], Received(e))
  /\ Within(wire[e], Received(e), sealed[e])
  /\ ~cut[e] => /\ writeCounter[e] = readCounter[Peer(e)] + Len(wire[e])
                /\ Ends(wire[e], Received(e), sealed[e])

(* A copy ends, or a bridge closes, only once the stream is over. *)
Reason(e) == stopped[e] # {} \/ at[e] = "closed" => Over

IInv == TypeOK /\ \A e \in End : Flow(e) /\ Reason(e)

-----------------------------------------------------------------------------
(***************************************************************************)
(* Sequences of records.                                                   *)
(***************************************************************************)

(* The sizes are positive integers. *)
LEMMA Sizes == MaxRecord \in Nat /\ OutBuffer \in Nat /\ InBuffer \in Nat
               /\ MaxRecord > 0 /\ OutBuffer > 0 /\ InBuffer > 0
<1>1. \A x \in {MaxRecord, OutBuffer, InBuffer} : x \in Nat /\ x > 0
  BY SecureStreamAssumption
<1> QED BY <1>1

(* A record counts and is not empty. *)
LEMMA SealableFields ==
  ASSUME NEW r \in Sealable
  PROVE  r.counter \in Nat /\ r.from \in Nat /\ r.size \in Nat /\ r.size > 0
BY Sizes DEF Sealable

(* A sequence of records is empty when its length is zero. *)
LEMMA Empty == \A w \in Seq(Sealable) : Len(w) \in Nat /\ (w = <<>> <=> Len(w) = 0)
BY EmptySeq, LenProperties

(* A record that begins where the others end extends them (Write). *)
LEMMA AppendKeeps ==
  ASSUME NEW w \in Seq(Sealable), NEW r \in Sealable, NEW base \in Nat, NEW top \in Nat,
         NEW first \in Nat,
         Chain(w, base), Within(w, base, top), Ends(w, base, top), Numbered(w, first),
         r.from = top, r.counter = first + Len(w)
  PROVE  /\ Append(w, r) \in Seq(Sealable) /\ Len(Append(w, r)) = Len(w) + 1
         /\ Chain(Append(w, r), base)
         /\ Within(Append(w, r), base, top + r.size)
         /\ Ends(Append(w, r), base, top + r.size)
         /\ Numbered(Append(w, r), first)
<1> DEFINE v == Append(w, r)
<1>1. /\ v \in Seq(Sealable) /\ Len(v) = Len(w) + 1 /\ Len(w) \in Nat
      /\ \A i \in 1..Len(w) : v[i] = w[i] /\ w[i] \in Sealable
      /\ v[Len(w) + 1] = r
  OBVIOUS
<1>2. r.size \in Nat /\ r.from \in Nat /\ r.counter \in Nat
  BY SealableFields
<1> HIDE DEF v
<1>3. v # <<>> /\ (w = <<>> <=> Len(w) = 0)
  BY <1>1, Empty
<1>4. Chain(v, base)
  <2>1. v[1].from = base
    <3>1. CASE w = <<>>
      BY <1>1, <1>3, <3>1 DEF Ends
    <3>2. CASE w # <<>>
      BY <1>1, <1>3, <3>2 DEF Chain
    <3> QED BY <3>1, <3>2
  <2>2. ASSUME NEW i \in 1..Len(w) PROVE v[i].from + v[i].size = v[i + 1].from
    <3>1. CASE i = Len(w)
      BY <1>1, <1>3, <3>1 DEF Ends
    <3>2. CASE i # Len(w)
      <4>1. i \in 1..(Len(w) - 1) /\ i + 1 \in 1..Len(w)
        BY <1>1, <3>2
      <4> QED BY <1>1, <4>1 DEF Chain
    <3> QED BY <3>1, <3>2
  <2> QED BY <1>1, <2>1, <2>2 DEF Chain
<1>5. Within(v, base, top + r.size)
  <2>1. ASSUME NEW i \in 1..Len(w) PROVE w[i].from \in Nat /\ w[i].size \in Nat
    BY <1>1, SealableFields
  <2>2. ASSUME NEW i \in 1..(Len(w) + 1) PROVE v[i].from + v[i].size <= top + r.size
    <3>1. CASE i \in 1..Len(w)
      <4>1. v[i] = w[i] /\ w[i].from + w[i].size <= top
        BY <1>1, <3>1 DEF Within
      <4> QED BY <1>2, <2>1, <3>1, <4>1, SMTT(30)
    <3>2. CASE i = Len(w) + 1
      BY <1>1, <1>2, <3>2
    <3> QED BY <1>1, <3>1, <3>2
  <2>3. base <= top + r.size
    BY <1>2 DEF Within
  <2> QED BY <1>1, <2>2, <2>3 DEF Within
<1>6. Ends(v, base, top + r.size)
  BY <1>1, <1>2, <1>3 DEF Ends
<1>7. Numbered(v, first)
  <2>1. ASSUME NEW i \in 1..(Len(w) + 1) PROVE v[i].counter = first + i - 1
    <3>1. CASE i \in 1..Len(w)
      <4>1. w[i].counter = first + i - 1
        BY <3>1 DEF Numbered
      <4> QED BY <1>1, <3>1, <4>1
    <3>2. CASE i = Len(w) + 1
      BY <1>1, <3>2
    <3> QED BY <1>1, <3>1, <3>2
  <2> QED BY <1>1, <2>1 DEF Numbered
<1> QED BY <1>1, <1>4, <1>5, <1>6, <1>7 DEF v

(* Records within a range are within a longer one. *)
LEMMA WithinMore ==
  ASSUME NEW w \in Seq(Sealable), NEW base \in Nat, NEW top \in Nat, NEW more \in Nat,
         Within(w, base, top)
  PROVE  Within(w, base, top + more)
<1>1. ASSUME NEW i \in 1..Len(w) PROVE w[i].from + w[i].size <= top + more
  <2>1. w[i] \in Sealable
    BY ElementOfSeq
  <2>2. w[i].from \in Nat /\ w[i].size \in Nat
    BY <2>1, SealableFields
  <2> QED BY <2>2 DEF Within
<1> QED BY <1>1 DEF Within

(* What follows the first record (Read). *)
LEMMA TailKeeps ==
  ASSUME NEW w \in Seq(Sealable), w # <<>>, NEW base \in Nat, NEW top \in Nat,
         NEW first \in Nat, NEW next \in Nat, next = base + w[1].size,
         Chain(w, base), Within(w, base, top), Numbered(w, first)
  PROVE  /\ Tail(w) \in Seq(Sealable) /\ Len(Tail(w)) = Len(w) - 1 /\ w[1] \in Sealable
         /\ Chain(Tail(w), next)
         /\ Within(Tail(w), next, top)
         /\ Ends(w, base, top) => Ends(Tail(w), next, top)
         /\ Numbered(Tail(w), first + 1)
<1> DEFINE v == Tail(w)
<1>1. /\ v \in Seq(Sealable) /\ Len(v) = Len(w) - 1 /\ Len(w) \in Nat /\ Len(w) > 0
      /\ \A i \in 1..Len(v) : v[i] = w[i + 1]
      /\ \A i \in 1..Len(w) : w[i] \in Sealable
  OBVIOUS
<1>2. w[1] \in Sealable /\ w[1].from = base /\ w[1].size \in Nat
  BY <1>1, SealableFields DEF Chain
<1> HIDE DEF v
<1>3. v = <<>> <=> Len(w) = 1
  BY <1>1, Empty
<1>4. Chain(v, next)
  <2>1. v # <<>> => v[1].from = next
    BY <1>1, <1>2, <1>3, SMTT(30) DEF Chain
  <2>2. ASSUME NEW i \in 1..(Len(v) - 1) PROVE v[i].from + v[i].size = v[i + 1].from
    <3>1. i + 1 \in 1..(Len(w) - 1) /\ i \in 1..Len(v) /\ i + 1 \in 1..Len(v)
      BY <1>1
    <3>2. v[i] = w[i + 1] /\ v[i + 1] = w[(i + 1) + 1]
      BY <1>1, <3>1
    <3> QED BY <3>1, <3>2 DEF Chain
  <2> QED BY <2>1, <2>2 DEF Chain
<1>5. Within(v, next, top)
  <2>1. next <= top
    BY <1>1, <1>2 DEF Within
  <2>2. ASSUME NEW i \in 1..Len(v) PROVE v[i].from + v[i].size <= top
    <3>1. i + 1 \in 1..Len(w) /\ v[i] = w[i + 1]
      BY <1>1
    <3> QED BY <3>1 DEF Within
  <2> QED BY <2>1, <2>2 DEF Within
<1>6. Ends(w, base, top) => Ends(v, next, top)
  BY <1>1, <1>2, <1>3, SMTT(30) DEF Ends
<1>7. Numbered(v, first + 1)
  <2>1. ASSUME NEW i \in 1..Len(v) PROVE v[i].counter = (first + 1) + i - 1
    <3>1. i + 1 \in 1..Len(w) /\ v[i] = w[i + 1]
      BY <1>1
    <3> QED BY <3>1 DEF Numbered
  <2> QED BY <2>1 DEF Numbered
<1> QED BY <1>1, <1>2, <1>4, <1>5, <1>6, <1>7 DEF v

(* What is left of records some of which are lost (Cut). *)
LEMMA PrefixKeeps ==
  ASSUME NEW w \in Seq(Sealable), NEW n \in 0..Len(w), NEW base \in Nat, NEW top \in Nat,
         NEW first \in Nat, Chain(w, base), Within(w, base, top), Numbered(w, first)
  PROVE  /\ SubSeq(w, 1, n) \in Seq(Sealable)
         /\ Chain(SubSeq(w, 1, n), base)
         /\ Within(SubSeq(w, 1, n), base, top)
         /\ Numbered(SubSeq(w, 1, n), first)
<1> DEFINE v == SubSeq(w, 1, n)
<1>1. /\ v \in Seq(Sealable) /\ Len(v) = n /\ Len(w) \in Nat /\ n <= Len(w) /\ n \in Nat
      /\ \A i \in 1..n : v[i] = w[i]
  OBVIOUS
<1>2. v # <<>> => n > 0 /\ w # <<>>
  BY <1>1
<1> HIDE DEF v
<1> QED BY <1>1, <1>2 DEF Chain, Within, Numbered

-----------------------------------------------------------------------------
(***************************************************************************)
(* The invariant.                                                          *)
(***************************************************************************)

(* There are two ends, each the peer of the other. *)
LEMMA Peers ==
  ASSUME NEW e \in End
  PROVE  /\ Peer(e) \in End /\ Peer(e) # e /\ Peer(Peer(e)) = e
         /\ \A d \in End : d = e \/ d = Peer(e)
BY DEF End, Peer

(* At first nothing is under way. *)
LEMMA InitIInv == Init => IInv
<1> SUFFICES ASSUME Init PROVE IInv
  OBVIOUS
<1>1. TypeOK
  BY DEF Init, TypeOK
<1>2. ASSUME NEW e \in End PROVE Flow(e) /\ Reason(e)
  <2>1. Peer(e) \in End
    BY Peers
  <2>2. /\ sealed[e] = 0 /\ taken[e] = 0 /\ sent[e] = 0 /\ wire[e] = <<>> /\ writeCounter[e] = 0
        /\ readCounter[Peer(e)] = 0 /\ got[Peer(e)] = <<>>
        /\ buffer[Peer(e)].from = 0 /\ buffer[Peer(e)].size = 0
    BY <2>1 DEF Init
  <2>3. Flow(e)
    BY <2>2 DEF Flow, Received, Chain, Within, Ends, Numbered
  <2>4. Reason(e)
    BY DEF Init, Reason
  <2> QED BY <2>3, <2>4
<1> QED BY <1>1, <1>2 DEF IInv

(* What Write puts on the wire is a record, and its bytes are taken. *)
LEMMA RecordType ==
  ASSUME TypeOK, NEW e \in End, sealed[e] < taken[e]
  PROVE  /\ Record(e) \in Sealable
         /\ Record(e).from = sealed[e] /\ Record(e).counter = writeCounter[e]
         /\ Record(e).size \in Nat /\ sealed[e] + Record(e).size <= taken[e]
<1>1. sealed[e] \in Nat /\ taken[e] \in Nat /\ writeCounter[e] \in Nat
  BY DEF TypeOK
<1>2. Least(MaxRecord, taken[e] - sealed[e]) \in 1..MaxRecord
      /\ Least(MaxRecord, taken[e] - sealed[e]) <= taken[e] - sealed[e]
  BY <1>1, Sizes DEF Least
<1> QED BY <1>1, <1>2, Sizes DEF Record, Sealable

(* The next record, when there is one. *)
LEMMA HeadType ==
  ASSUME TypeOK, NEW e \in End, Incoming(e) # <<>>
  PROVE  /\ Incoming(e) \in Seq(Sealable) /\ Head(Incoming(e)) \in Sealable
         /\ Head(Incoming(e)) = Incoming(e)[1] /\ Tail(Incoming(e)) \in Seq(Sealable)
<1>1. Incoming(e) \in Seq(Sealable)
  BY Peers DEF TypeOK, Incoming
<1> QED BY <1>1, HeadTailProperties

(* A run of bytes has the length asked for. *)
LEMMA RunType ==
  ASSUME NEW k \in Nat, NEW n \in Nat
  PROVE  Run(k, n) \in Seq(Nat) /\ Len(Run(k, n)) = n
<1>1. Run(k, n) \in [1..n -> Nat]
  BY DEF Run
<1> QED BY <1>1

(* Reading a run adds its length to what was read. *)
LEMMA ConcatRun ==
  ASSUME NEW s \in Seq(Nat), NEW k \in Nat, NEW n \in Nat
  PROVE  s \o Run(k, n) \in Seq(Nat) /\ Len(s \o Run(k, n)) = Len(s) + n
<1>1. PICK t \in Seq(Nat) : t = Run(k, n) /\ Len(t) = n
  BY RunType
<1>2. s \o t \in Seq(Nat) /\ Len(s \o t) = Len(s) + Len(t)
  BY ConcatProperties
<1> QED BY <1>1, <1>2

(* What Read hands out of size bytes, and the rest. *)
LEMMA HandOutType ==
  ASSUME TypeOK, NEW e \in End, NEW from \in Nat, NEW size \in Nat, size > 0,
         HandOut(e, from, size)
  PROVE  \E n \in Nat :
           /\ n > 0 /\ n <= size
           /\ got' = [got EXCEPT ![e] = @ \o Run(from, n)]
           /\ got'[e] \in Seq(Nat) /\ Len(got'[e]) = Len(got[e]) + n
           /\ buffer'[e].from = from + n /\ buffer'[e].size = size - n
           /\ got' \in [End -> Seq(Nat)] /\ buffer' \in [End -> [from : Nat, size : Nat]]
           /\ \A d \in End \ {e} : got'[d] = got[d] /\ buffer'[d] = buffer[d]
<1> DEFINE n == Least(InBuffer, size)
<1>1. n \in Nat /\ n > 0 /\ n <= size
  BY Sizes DEF Least
<1>2. got' = [got EXCEPT ![e] = @ \o Run(from, n)]
      /\ buffer' = [buffer EXCEPT ![e] = [from |-> from + n, size |-> size - n]]
  BY DEF HandOut
<1> HIDE DEF n
<1>3. got[e] \in Seq(Nat)
  BY DEF TypeOK
<1>4. got[e] \o Run(from, n) \in Seq(Nat) /\ Len(got[e] \o Run(from, n)) = Len(got[e]) + n
  BY <1>1, <1>3, ConcatRun
<1>5. got' \in [End -> Seq(Nat)] /\ got'[e] = got[e] \o Run(from, n)
      /\ \A d \in End \ {e} : got'[d] = got[d]
  BY <1>2, <1>4 DEF TypeOK
<1>6. from + n \in Nat /\ size - n \in Nat
  BY <1>1
<1>7. buffer' \in [End -> [from : Nat, size : Nat]] /\ buffer'[e].from = from + n
      /\ buffer'[e].size = size - n /\ \A d \in End \ {e} : buffer'[d] = buffer[d]
  BY <1>2, <1>6 DEF TypeOK
<1> QED BY <1>1, <1>2, <1>4, <1>5, <1>7

(* The steps of an agent that only end a copy or move it along. *)
Stops(e) ==
  \/ WriteFails(e) \/ OutEnds(e) \/ ReadEnds(e) \/ SocketFails(e)

Moves(e) == Open(e) \/ OpenFails(e) \/ Shut(e)

(* Every step keeps the types. *)
LEMMA TypeStep ==
  ASSUME TypeOK, NEW e \in End,
         Send(e) \/ Finish(e) \/ Cut(e) \/ Moves(e) \/ Stops(e) \/ Take(e) \/ Write(e)
           \/ ReadBuffer(e) \/ ReadRecord(e)
  PROVE  TypeOK'
<1>1. CASE Send(e)
  <2>1. /\ sent' = [sent EXCEPT ![e] = @ + 1]
        /\ UNCHANGED <<eof, at, stopped, taken, sealed, writeCounter, readCounter, wire, cut,
                       buffer, got>>
    BY <1>1 DEF Send, out, in, network
  <2>2. sent' \in [End -> Nat]
    BY <2>1 DEF TypeOK
  <2> QED BY <2>1, <2>2 DEF TypeOK
<1>2. CASE Finish(e)
  <2>1. /\ eof' = [eof EXCEPT ![e] = TRUE]
        /\ UNCHANGED <<sent, at, stopped, taken, sealed, writeCounter, readCounter, wire, cut,
                       buffer, got>>
    BY <1>2 DEF Finish, out, in, network
  <2>2. eof' \in [End -> BOOLEAN]
    BY <2>1 DEF TypeOK
  <2> QED BY <2>1, <2>2 DEF TypeOK
<1>3. CASE Cut(e)
  <2>1. PICK n \in 0..Len(wire[e]) : wire' = [wire EXCEPT ![e] = SubSeq(@, 1, n)]
    BY <1>3 DEF Cut
  <2>2. wire[e] \in Seq(Sealable)
    BY DEF TypeOK
  <2>3. SubSeq(wire[e], 1, n) \in Seq(Sealable)
    BY <2>2
  <2>4. wire' \in [End -> Seq(Sealable)]
    BY <2>1, <2>3 DEF TypeOK
  <2> QED BY <1>3, <2>4 DEF Cut, TypeOK, source, out, in
<1>4. CASE Moves(e)
  BY <1>4 DEF Moves, Open, OpenFails, Shut, TypeOK, source, out, network, in
<1>5. CASE Stops(e)
  <2>1. PICK way \in {"out", "in"} : Stop(e, way)
    BY <1>5 DEF Stops, WriteFails, OutEnds, ReadEnds, SocketFails
  <2>2. stopped' \in [End -> SUBSET {"out", "in"}]
    BY <2>1 DEF Stop, TypeOK
  <2> QED BY <2>1, <2>2 DEF Stop, TypeOK, source, out, network, in
<1>6. CASE Take(e)
  <2>1. PICK n \in 1..Least(OutBuffer, sent[e] - taken[e]) : taken' = [taken EXCEPT ![e] = @ + n]
    BY <1>6 DEF Take
  <2>2. taken[e] \in Nat /\ sent[e] \in Nat
    BY DEF TypeOK
  <2>3. taken[e] + n \in Nat
    BY <2>2, Sizes DEF Least
  <2>4. taken' \in [End -> Nat]
    BY <2>1, <2>3 DEF TypeOK
  <2> QED BY <1>6, <2>4 DEF Take, TypeOK, source, network, in
<1>7. CASE Write(e)
  <2>1. Record(e) \in Sealable /\ Record(e).size \in Nat
    BY <1>7, RecordType DEF Write
  <2>2. wire[e] \in Seq(Sealable) /\ sealed[e] \in Nat /\ writeCounter[e] \in Nat
    BY DEF TypeOK
  <2>3. Append(wire[e], Record(e)) \in Seq(Sealable)
    BY <2>1, <2>2
  <2>4. wire' \in [End -> Seq(Sealable)] /\ cut' = cut
    BY <1>7, <2>2, <2>3 DEF Write, Transmit, TypeOK
  <2>5. sealed' \in [End -> Nat]
    BY <1>7, <2>1, <2>2 DEF Write, Sealed, TypeOK
  <2>6. writeCounter' \in [End -> Nat]
    BY <1>7, <2>2 DEF Write, TypeOK
  <2> QED BY <1>7, <2>4, <2>5, <2>6 DEF Write, TypeOK, source, in
<1>8. CASE ReadBuffer(e)
  <2>1. buffer[e].from \in Nat /\ buffer[e].size \in Nat
    BY DEF TypeOK
  <2>2. got' \in [End -> Seq(Nat)] /\ buffer' \in [End -> [from : Nat, size : Nat]]
    BY <1>8, <2>1, HandOutType DEF ReadBuffer
  <2> QED BY <1>8, <2>2 DEF ReadBuffer, TypeOK, source, out, network
<1>9. CASE ReadRecord(e)
  <2> DEFINE r == Head(Incoming(e))
  <2>1. r \in Sealable /\ Tail(Incoming(e)) \in Seq(Sealable)
    BY <1>9, HeadType DEF ReadRecord
  <2>2. wire' \in [End -> Seq(Sealable)]
    BY <1>9, <2>1, Peers DEF ReadRecord, Incoming, TypeOK
  <2>3. CASE Opens(e, r)
    <3>1. HandOut(e, r.from, r.size) /\ stopped' = stopped
          /\ readCounter' = [readCounter EXCEPT ![e] = @ + 1]
      BY <1>9, <2>3 DEF ReadRecord
    <3>2. r.from \in Nat /\ r.size \in Nat /\ r.size > 0
      BY <2>1, SealableFields
    <3>3. got' \in [End -> Seq(Nat)] /\ buffer' \in [End -> [from : Nat, size : Nat]]
      <4> HIDE DEF r
      <4> QED BY <3>1, <3>2, HandOutType
    <3>4. readCounter' \in [End -> Nat]
      BY <3>1 DEF TypeOK
    <3> QED BY <1>9, <2>2, <3>1, <3>3, <3>4 DEF ReadRecord, TypeOK, source, out
  <2>4. CASE ~Opens(e, r)
    <3>1. stopped' = [stopped EXCEPT ![e] = @ \cup {"in"}] /\ UNCHANGED in
      BY <1>9, <2>4 DEF ReadRecord
    <3>2. stopped' \in [End -> SUBSET {"out", "in"}]
      BY <3>1 DEF TypeOK
    <3> QED BY <1>9, <2>2, <3>1, <3>2 DEF ReadRecord, TypeOK, source, out, in
  <2> QED BY <2>3, <2>4
<1> QED BY <1>1, <1>2, <1>3, <1>4, <1>5, <1>6, <1>7, <1>8, <1>9

(* Nothing that Flow(d) is about changes. *)
SameReader(d) ==
  /\ got'[Peer(d)] = got[Peer(d)] /\ buffer'[Peer(d)] = buffer[Peer(d)]
  /\ readCounter'[Peer(d)] = readCounter[Peer(d)]

SameWriter(d) ==
  /\ sent'[d] = sent[d] /\ taken'[d] = taken[d] /\ sealed'[d] = sealed[d]
  /\ writeCounter'[d] = writeCounter[d]

SameWire(d) == wire'[d] = wire[d] /\ cut'[d] = cut[d]

(* A direction that a step does not touch stays in order. *)
LEMMA SameFlow ==
  ASSUME NEW d \in End, Flow(d), SameReader(d), SameWriter(d), SameWire(d)
  PROVE  Flow(d)'
BY DEF Flow, Received, SameReader, SameWriter, SameWire

(* What the type says of one direction. *)
LEMMA FlowTypes ==
  ASSUME TypeOK, NEW d \in End
  PROVE  /\ sent[d] \in Nat /\ taken[d] \in Nat /\ sealed[d] \in Nat /\ writeCounter[d] \in Nat
         /\ wire[d] \in Seq(Sealable)
         /\ readCounter[Peer(d)] \in Nat /\ got[Peer(d)] \in Seq(Nat)
         /\ buffer[Peer(d)].from \in Nat /\ buffer[Peer(d)].size \in Nat
         /\ Received(d) \in Nat
<1>1. Peer(d) \in End
  BY Peers
<1>2. buffer[Peer(d)].from \in Nat /\ buffer[Peer(d)].size \in Nat
  BY <1>1 DEF TypeOK
<1>3. /\ sent[d] \in Nat /\ taken[d] \in Nat /\ sealed[d] \in Nat /\ writeCounter[d] \in Nat
      /\ wire[d] \in Seq(Sealable)
  BY DEF TypeOK
<1>4. readCounter[Peer(d)] \in Nat /\ got[Peer(d)] \in Seq(Nat)
  BY <1>1 DEF TypeOK
<1>5. Received(d) \in Nat
  BY <1>2 DEF Received
<1> QED BY <1>2, <1>3, <1>4, <1>5

(* Bytes on their way into the writer are not under way yet. *)
LEMMA SendFlow ==
  ASSUME IInv, NEW e \in End, Send(e) \/ Take(e), NEW d \in End
  PROVE  Flow(d)'
<1>1. Flow(d) /\ TypeOK
  BY DEF IInv
<1>2. SameReader(d) /\ SameWire(d) /\ sealed' = sealed /\ writeCounter' = writeCounter
  BY DEF Send, Take, SameReader, SameWire, out, in, network
<1>3. CASE d # e
  <2>1. SameWriter(d)
    BY <1>1, <1>3 DEF Send, Take, SameWriter, TypeOK, source, out
  <2> QED BY <1>1, <1>2, <2>1, SameFlow
<1>4. CASE d = e
  <2>1. sealed[d] \in Nat /\ taken[d] \in Nat /\ sent[d] \in Nat
    BY <1>1, FlowTypes
  <2>2. sealed[d] <= taken'[d] /\ taken'[d] <= sent'[d]
    <3>1. CASE Send(e)
      BY <1>1, <1>4, <2>1, <3>1 DEF Send, out, TypeOK, Flow
    <3>2. CASE Take(e)
      <4>1. PICK n \in 1..Least(OutBuffer, sent[e] - taken[e]) : taken' = [taken EXCEPT ![e] = @ + n]
        BY <3>2 DEF Take
      <4>2. n \in Nat /\ n <= sent[e] - taken[e]
        BY <1>4, <2>1, Sizes DEF Least
      <4>3. taken'[e] = taken[e] + n /\ sent' = sent
        BY <1>1, <3>2, <4>1 DEF Take, TypeOK, source
      <4> QED BY <1>1, <1>4, <2>1, <4>2, <4>3 DEF Flow
    <3> QED BY <3>1, <3>2
  <2> QED BY <1>1, <1>2, <2>2 DEF Flow, Received, SameReader, SameWire
<1> QED BY <1>3, <1>4

(* A cut loses a suffix of what is under way. *)
LEMMA CutFlow ==
  ASSUME IInv, NEW e \in End, Cut(e), NEW d \in End
  PROVE  Flow(d)'
<1>1. Flow(d) /\ TypeOK
  BY DEF IInv
<1>2. SameReader(d) /\ SameWriter(d)
  BY DEF Cut, SameReader, SameWriter, source, out, in
<1>3. CASE d # e
  <2>1. SameWire(d)
    BY <1>1, <1>3 DEF Cut, SameWire, TypeOK
  <2> QED BY <1>1, <1>2, <2>1, SameFlow
<1>4. CASE d = e
  <2>1. PICK n \in 0..Len(wire[d]) : wire'[d] = SubSeq(wire[d], 1, n)
    BY <1>1, <1>4 DEF Cut, TypeOK
  <2>2. cut'[d]
    BY <1>1, <1>4 DEF Cut, TypeOK
  <2>3. Numbered(wire'[d], readCounter[Peer(d)]) /\ Chain(wire'[d], Received(d))
        /\ Within(wire'[d], Received(d), sealed[d])
    BY <1>1, <2>1, FlowTypes, PrefixKeeps DEF Flow
  <2> QED BY <1>1, <1>2, <2>2, <2>3 DEF Flow, Received, SameReader, SameWriter
<1> QED BY <1>3, <1>4

(* A new record follows the last one, with the next counter. *)
LEMMA WriteFlow ==
  ASSUME IInv, NEW e \in End, Write(e), NEW d \in End
  PROVE  Flow(d)'
<1>1. Flow(d) /\ TypeOK
  BY DEF IInv
<1>2. SameReader(d) /\ cut' = cut /\ sent' = sent /\ taken' = taken
  BY DEF Write, Transmit, SameReader, source, in
<1>3. CASE d # e
  <2>1. SameWire(d) /\ SameWriter(d)
    BY <1>1, <1>2, <1>3 DEF Write, Transmit, Sealed, SameWire, SameWriter, TypeOK
  <2> QED BY <1>1, <1>2, <2>1, SameFlow
<1>4. CASE d = e
  <2>1. PICK r \in Sealable : /\ r = Record(d) /\ r.from = sealed[d] /\ r.counter = writeCounter[d]
                             /\ r.size \in Nat /\ sealed[d] + r.size <= taken[d]
    BY <1>1, <1>4, RecordType DEF Write
  <2>2. sealed'[d] = sealed[d] + r.size /\ writeCounter'[d] = writeCounter[d] + 1
        /\ wire'[d] = IF cut[d] THEN wire[d] ELSE Append(wire[d], r)
    BY <1>1, <1>4, <2>1 DEF Write, Transmit, Sealed, TypeOK
  <2>3. /\ sealed[d] \in Nat /\ writeCounter[d] \in Nat /\ readCounter[Peer(d)] \in Nat
        /\ wire[d] \in Seq(Sealable) /\ Received(d) \in Nat
    BY <1>1, FlowTypes
  <2>4. Received(d)' = Received(d)
    BY <1>2 DEF SameReader, Received
  <2>5. CASE cut[d]
    <3>1. Within(wire[d], Received(d), sealed[d] + r.size)
      BY <1>1, <2>1, <2>3, WithinMore DEF Flow
    <3> QED BY <1>1, <1>2, <2>1, <2>2, <2>4, <2>5, <3>1 DEF Flow, SameReader
  <2>6. CASE ~cut[d]
    <3>1. /\ Ends(wire[d], Received(d), sealed[d]) /\ Chain(wire[d], Received(d))
          /\ Within(wire[d], Received(d), sealed[d]) /\ Numbered(wire[d], readCounter[Peer(d)])
          /\ r.counter = readCounter[Peer(d)] + Len(wire[d])
      BY <1>1, <2>1, <2>6 DEF Flow
    <3>2. /\ Len(wire'[d]) = Len(wire[d]) + 1 /\ Chain(wire'[d], Received(d))
          /\ Within(wire'[d], Received(d), sealed'[d]) /\ Ends(wire'[d], Received(d), sealed'[d])
          /\ Numbered(wire'[d], readCounter[Peer(d)])
      <4> DEFINE v == Append(wire[d], r)
      <4>1. wire'[d] = v /\ sealed'[d] = sealed[d] + r.size
        BY <2>2, <2>6
      <4>2. /\ Len(v) = Len(wire[d]) + 1 /\ Chain(v, Received(d))
            /\ Within(v, Received(d), sealed[d] + r.size)
            /\ Ends(v, Received(d), sealed[d] + r.size) /\ Numbered(v, readCounter[Peer(d)])
        BY <2>1, <2>3, <3>1, AppendKeeps, Zenon
      <4> HIDE DEF v
      <4> QED BY <4>1, <4>2, Zenon
    <3>3. writeCounter'[d] = readCounter[Peer(d)] + Len(wire'[d])
      <4>1. writeCounter[d] = readCounter[Peer(d)] + Len(wire[d]) /\ Len(wire[d]) \in Nat
        BY <1>1, <2>3, <2>6, Empty DEF Flow
      <4> QED BY <2>2, <2>3, <3>2, <4>1
    <3> QED BY <1>1, <1>2, <2>1, <2>2, <2>4, <3>2, <3>3 DEF Flow, SameReader
  <2> QED BY <2>5, <2>6
<1> QED BY <1>3, <1>4

(* The first record on the wire opens: it has the reader's counter, and its *)
(* bytes follow those already read.                                         *)
LEMMA HeadOpens ==
  ASSUME IInv, NEW e \in End, Incoming(e) # <<>>
  PROVE  /\ Opens(e, Head(Incoming(e)))
         /\ Head(Incoming(e)).from = Received(Peer(e))
<1>1. Flow(Peer(e)) /\ TypeOK /\ Peer(e) \in End /\ Peer(Peer(e)) = e
  BY Peers DEF IInv
<1>2. PICK w \in Seq(Sealable) : w = wire[Peer(e)] /\ w # <<>>
  BY <1>1, FlowTypes DEF Incoming
<1>3. Len(w) \in Nat /\ Len(w) > 0 /\ Head(w) = w[1] /\ w[1] \in Sealable
  BY <1>2, Empty, ElementOfSeq
<1>4. w[1].from = Received(Peer(e)) /\ w[1].counter = readCounter[e] + 1 - 1
  BY <1>1, <1>2, <1>3 DEF Flow, Chain, Numbered
<1>5. readCounter[e] \in Nat
  BY <1>1 DEF TypeOK
<1>6. w[1].size \in 1..MaxRecord
  BY <1>3 DEF Sealable
<1> QED BY <1>2, <1>3, <1>4, <1>5, <1>6 DEF Incoming, Opens

(* A read from the rest of the last record. *)
LEMMA ReadBufferFlow ==
  ASSUME IInv, NEW e \in End, ReadBuffer(e), NEW d \in End
  PROVE  Flow(d)'
<1>1. Flow(d) /\ TypeOK
  BY DEF IInv
<1>2. SameWriter(d) /\ SameWire(d) /\ readCounter' = readCounter
  BY DEF ReadBuffer, SameWriter, SameWire, source, out, network
<1>3. buffer[e].from \in Nat /\ buffer[e].size \in Nat /\ buffer[e].size > 0
      /\ HandOut(e, buffer[e].from, buffer[e].size)
  BY <1>1 DEF ReadBuffer, TypeOK
<1>4. PICK n \in Nat :
        /\ n > 0 /\ n <= buffer[e].size
        /\ Len(got'[e]) = Len(got[e]) + n
        /\ buffer'[e].from = buffer[e].from + n /\ buffer'[e].size = buffer[e].size - n
        /\ \A x \in End \ {e} : got'[x] = got[x] /\ buffer'[x] = buffer[x]
  BY <1>1, <1>3, HandOutType
<1>5. CASE d = e
  <2>1. SameReader(d)
    BY <1>2, <1>4, <1>5, Peers DEF SameReader
  <2> QED BY <1>1, <1>2, <2>1, SameFlow
<1>6. CASE d # e
  <2>1. Peer(d) = e
    BY <1>6, Peers
  <2>2. Received(d)' = Received(d)
    BY <1>3, <1>4, <2>1 DEF Received
  <2>3. buffer'[e].from = Len(got'[e])
    BY <1>1, <1>4, <2>1 DEF Flow
  <2> QED BY <1>1, <1>2, <2>1, <2>2, <2>3 DEF Flow, SameWriter, SameWire
<1> QED BY <1>5, <1>6

(* A read of the next record opens it. *)
LEMMA ReadRecordFlow ==
  ASSUME IInv, NEW e \in End, ReadRecord(e), NEW d \in End
  PROVE  Flow(d)'
<1>1. Flow(d) /\ TypeOK /\ Peer(e) \in End
  BY Peers DEF IInv
<1>2. PICK r \in Sealable : r = Head(Incoming(e)) /\ r = Incoming(e)[1]
  BY <1>1, HeadType DEF ReadRecord
<1>3. r.from \in Nat /\ r.size \in Nat /\ r.size > 0 /\ r.from = Received(Peer(e))
  BY <1>2, HeadOpens, SealableFields DEF ReadRecord
<1>4. HandOut(e, r.from, r.size) /\ readCounter' = [readCounter EXCEPT ![e] = @ + 1]
      /\ wire' = [wire EXCEPT ![Peer(e)] = Tail(@)]
  BY <1>2, HeadOpens DEF ReadRecord
<1>5. SameWriter(d) /\ cut' = cut
  BY DEF ReadRecord, SameWriter, source, out
<1>6. PICK n \in Nat :
        /\ n > 0 /\ n <= r.size
        /\ Len(got'[e]) = Len(got[e]) + n
        /\ buffer'[e].from = r.from + n /\ buffer'[e].size = r.size - n
        /\ \A x \in End \ {e} : got'[x] = got[x] /\ buffer'[x] = buffer[x]
  BY <1>1, <1>3, <1>4, HandOutType
<1>7. CASE d = e
  <2>1. SameReader(d) /\ SameWire(d)
    BY <1>1, <1>4, <1>5, <1>6, <1>7, Peers DEF SameReader, SameWire, TypeOK
  <2> QED BY <1>1, <1>5, <2>1, SameFlow
<1>8. CASE d # e
  <2>1. Peer(d) = e /\ Peer(e) = d
    BY <1>8, Peers
  <2>2. wire'[d] = Tail(wire[d]) /\ readCounter'[e] = readCounter[e] + 1
    BY <1>1, <1>4, <2>1 DEF TypeOK
  <2>3. wire[d] # <<>> /\ wire[d][1] = r
    BY <1>2, <2>1 DEF ReadRecord, Incoming
  <2>4. /\ wire[d] \in Seq(Sealable) /\ Received(d) \in Nat /\ sealed[d] \in Nat
        /\ readCounter[e] \in Nat /\ buffer[e].from \in Nat /\ buffer[e].size \in Nat
        /\ Len(wire[d]) \in Nat
    BY <1>1, <2>1, FlowTypes, Empty
  <2>5. Received(d)' = Received(d) + r.size /\ Received(d) = buffer[e].from + buffer[e].size
    BY <1>3, <1>6, <2>1 DEF Received
  <2>6. /\ Len(Tail(wire[d])) = Len(wire[d]) - 1
        /\ Chain(Tail(wire[d]), Received(d) + r.size)
        /\ Within(Tail(wire[d]), Received(d) + r.size, sealed[d])
        /\ Ends(wire[d], Received(d), sealed[d]) =>
             Ends(Tail(wire[d]), Received(d) + r.size, sealed[d])
        /\ Numbered(Tail(wire[d]), readCounter[e] + 1)
    <3>1. Received(d) + r.size \in Nat /\ Received(d) + r.size = Received(d) + wire[d][1].size
      BY <1>3, <2>3, <2>4
    <3>2. Chain(wire[d], Received(d)) /\ Within(wire[d], Received(d), sealed[d])
          /\ Numbered(wire[d], readCounter[e])
      BY <1>1, <2>1 DEF Flow
    <3> QED BY <2>3, <2>4, <3>1, <3>2, TailKeeps
  <2>7. buffer'[e].from = Len(got'[e])
    <3>1. buffer[e].size = 0 /\ buffer[e].from = Len(got[e])
      BY <1>1, <2>1 DEF ReadRecord, Flow
    <3> QED BY <1>3, <1>6, <2>1, <2>4, <2>5, <3>1
  <2>8. ~cut[d] => writeCounter[d] = (readCounter[e] + 1) + (Len(wire[d]) - 1)
    <3> SUFFICES ASSUME ~cut[d] PROVE writeCounter[d] = (readCounter[e] + 1) + (Len(wire[d]) - 1)
      OBVIOUS
    <3>1. writeCounter[d] = readCounter[e] + Len(wire[d])
      BY <1>1, <2>1 DEF Flow
    <3>2. \A a, b \in Nat : a + b = (a + 1) + (b - 1)
      OBVIOUS
    <3>3. readCounter[e] \in Nat /\ Len(wire[d]) \in Nat
      BY <2>4
    <3> QED BY <3>1, <3>2, <3>3
  <2> QED BY <1>1, <1>5, <2>1, <2>2, <2>5, <2>6, <2>7, <2>8 DEF Flow, SameWriter
<1> QED BY <1>7, <1>8

-----------------------------------------------------------------------------
(* A step of one end, by what it changes. *)
Steps(e) ==
  \/ Send(e) \/ Take(e) \/ Finish(e) \/ Cut(e) \/ Moves(e) \/ Stops(e) \/ Write(e)
  \/ ReadBuffer(e) \/ ReadRecord(e)

(* Every step is one end's. *)
LEMMA NextIsSteps == Next => \E e \in End : Steps(e)
BY DEF Next, Steps, Bridge, CopyOut, CopyIn, Moves, Stops

(* Every step keeps the bytes of both directions in order. *)
LEMMA FlowStep ==
  ASSUME IInv, NEW e \in End, Steps(e), NEW d \in End
  PROVE  Flow(d)'
<1>1. CASE Finish(e) \/ Moves(e) \/ Stops(e)
  <2>1. SameReader(d) /\ SameWriter(d) /\ SameWire(d)
    BY <1>1 DEF Finish, Moves, Open, OpenFails, Shut, Stops, WriteFails, OutEnds, ReadEnds,
                SocketFails, Stop, SameReader, SameWriter, SameWire, source, out, network, in
  <2>2. Flow(d)
    BY DEF IInv
  <2> QED BY <2>1, <2>2, SameFlow
<1> QED BY <1>1, SendFlow, CutFlow, WriteFlow, ReadBufferFlow, ReadRecordFlow DEF Steps

(* What ends a copy is the end of a program's output or of the network. *)
LEMMA StopsWhenOver ==
  ASSUME IInv, NEW e \in End, Stops(e) \/ Moves(e), ~Open(e)
  PROVE  Over
<1>1. Reason(e) /\ Reason(Peer(e)) /\ Peer(e) \in End
  BY Peers DEF IInv
<1> QED BY <1>1 DEF Stops, Moves, WriteFails, OutEnds, ReadEnds, SocketFails, OpenFails, Shut,
                    Reason, Over

(* A connection that is over stays so. *)
LEMMA OverStays ==
  ASSUME TypeOK, NEW e \in End, Steps(e), Over
  PROVE  Over'
<1>1. PICK x \in End : eof[x] \/ cut[x]
  BY DEF Over
<1>2. CASE Finish(e)
  <2>1. eof'[x] \/ cut'[x]
    BY <1>1, <1>2 DEF Finish, network, TypeOK
  <2> QED BY <2>1 DEF Over
<1>3. CASE Cut(e)
  <2>1. eof'[x] \/ cut'[x]
    BY <1>1, <1>3 DEF Cut, source, TypeOK
  <2> QED BY <2>1 DEF Over
<1>4. CASE ~Finish(e) /\ ~Cut(e)
  <2>1. eof' = eof /\ cut' = cut
    BY <1>4 DEF Steps, Send, Take, Moves, Open, OpenFails, Shut, Stops, WriteFails, OutEnds,
                ReadEnds, SocketFails, Stop, Write, Transmit, ReadBuffer, ReadRecord, source, network
  <2> QED BY <1>1, <2>1 DEF Over
<1> QED BY <1>2, <1>3, <1>4

(* Every step keeps the reason for which a copy ended. *)
LEMMA ReasonStep ==
  ASSUME IInv, NEW e \in End, Steps(e), NEW d \in End
  PROVE  Reason(d)'
<1>1. TypeOK /\ Reason(d)
  BY DEF IInv
<1>2. CASE Over
  BY <1>1, <1>2, OverStays DEF Reason
<1>3. CASE ~Over
  <2>1. stopped' = stopped
    BY <1>3, StopsWhenOver, HeadOpens
       DEF Steps, Send, Take, Finish, Cut, Moves, Open, Write, ReadBuffer, ReadRecord
  <2>2. at' = at \/ Open(e)
    BY <1>3, StopsWhenOver
       DEF Steps, Send, Take, Finish, Cut, Moves, Write, ReadBuffer, ReadRecord
  <2>3. at'[d] = "closed" => at[d] = "closed"
    BY <1>1, <2>2 DEF Open, TypeOK
  <2> QED BY <1>1, <1>3, <2>1, <2>3 DEF Reason
<1> QED BY <1>2, <1>3

(* Every step keeps the invariant. *)
LEMMA StepIInv == IInv /\ [Next]_vars => IInv'
<1> SUFFICES ASSUME IInv, [Next]_vars PROVE IInv'
  OBVIOUS
<1>1. CASE Next
  <2>1. PICK e \in End : Steps(e)
    BY <1>1, NextIsSteps
  <2>2. TypeOK'
    BY <2>1, TypeStep DEF IInv, Steps
  <2> QED BY <2>1, <2>2, FlowStep, ReasonStep DEF IInv
<1>2. CASE UNCHANGED vars
  BY <1>2 DEF IInv, TypeOK, Flow, Received, Reason, Over, vars, source, out, network, in
<1> QED BY <1>1, <1>2

(* The records of a stream, its buffers and its counters agree at all times *)
(* (Write, Read, bridge).                                                   *)
THEOREM StreamInvariant == Spec => []IInv
<1>1. Spec => Init /\ [][Next]_vars
  BY DEF Spec
<1> QED BY <1>1, InitIInv, StepIInv, PTL

-----------------------------------------------------------------------------
(***************************************************************************)
(* The refinement.                                                         *)
(***************************************************************************)

Opened == [e \in End |-> at[e] # "closed"]

(* The initial states are those of a byte stream. *)
LEMMA InitIsStreamInit == Init => Stream!Init
BY DEF Init, Stream!Init, Over

(* What Read hands out follows what was handed out before, and was sent. *)
LEMMA ReadIsDeliver ==
  ASSUME IInv, NEW e \in End, NEW from \in Nat, NEW size \in Nat, size > 0,
         HandOut(e, from, size), from = Len(got[e]), from + size <= sent[Peer(e)],
         at[e] = "open", UNCHANGED <<sent, eof, at, cut>>
  PROVE  Stream!Deliver(e)
<1>1. TypeOK /\ Peer(e) \in End
  BY Peers DEF IInv
<1>2. PICK n \in Nat : n > 0 /\ n <= size /\ got' = [got EXCEPT ![e] = got[e] \o Run(from, n)]
  <2>1. Least(InBuffer, size) \in Nat /\ Least(InBuffer, size) > 0 /\ Least(InBuffer, size) <= size
    BY Sizes DEF Least
  <2> QED BY <2>1 DEF HandOut
<1>3. sent[Peer(e)] \in Nat
  BY <1>1 DEF TypeOK
<1>4. n \in 1..(sent[Peer(e)] - Len(got[e]))
  BY <1>2, <1>3
<1>5. got' = [got EXCEPT ![e] = got[e] \o Stream!Run(Len(got[e]), n)]
  BY <1>2 DEF Run, Stream!Run
<1>6. Opened[e] /\ Opened' = Opened /\ Over' = Over
  BY DEF Opened, Over
<1> QED BY <1>4, <1>5, <1>6 DEF Stream!Deliver, Opened

(* Every step is a step of the byte stream or none. *)
LEMMA StepIsStreamStep ==
  ASSUME IInv, [Next]_vars
  PROVE  [Stream!Next]_(Stream!vars)
<1>1. CASE UNCHANGED vars
  BY <1>1 DEF Stream!vars, Over, vars, source, network, in
<1>2. CASE Next
  <2>1. PICK e \in End : Steps(e)
    BY <1>2, NextIsSteps
  <2>2. TypeOK /\ Flow(Peer(e)) /\ Peer(e) \in End /\ Peer(Peer(e)) = e
    BY Peers DEF IInv
  <2>3. CASE Send(e)
    <3>1. sent'[e] \in Nat /\ sent'[e] > sent[e] /\ sent' = [sent EXCEPT ![e] = sent'[e]]
      <4>1. sent \in [End -> Nat] /\ sent' = [sent EXCEPT ![e] = sent[e] + 1]
        BY <2>2, <2>3 DEF Send, TypeOK
      <4>2. sent'[e] = sent[e] + 1 /\ sent[e] \in Nat
        BY <4>1
      <4> QED BY <4>1, <4>2
    <3>2. UNCHANGED <<got, at, eof, cut>>
      BY <2>3 DEF Send, network, in
    <3>3. UNCHANGED <<Opened, Over>>
      BY <3>2 DEF Opened, Over
    <3>4. Stream!Send(e)
      BY <3>1, <3>2, <3>3 DEF Stream!Send, Opened
    <3> QED BY <3>4 DEF Stream!Next
  <2>4. CASE Finish(e) \/ Cut(e)
    <3>1. UNCHANGED <<sent, got, at>> /\ (eof'[e] \/ cut'[e])
      BY <2>2, <2>4 DEF Finish, Cut, TypeOK, source, network, in
    <3>2. Over' = TRUE /\ UNCHANGED Opened
      BY <3>1 DEF Over, Opened
    <3>3. Stream!Finish
      BY <3>1, <3>2 DEF Stream!Finish, Opened
    <3> QED BY <3>3 DEF Stream!Next
  <2>5. CASE OpenFails(e) \/ Shut(e)
    <3>1. UNCHANGED <<sent, got, eof, cut>> /\ at' = [at EXCEPT ![e] = "closed"]
      BY <2>5 DEF OpenFails, Shut, source, network, in
    <3>2. Over
      <4>1. cut[Peer(e)] \/ stopped[e] # {}
        BY <2>5 DEF OpenFails, Shut
      <4> QED BY <2>2, <4>1 DEF IInv, Reason, Over
    <3>3. Opened' = [Opened EXCEPT ![e] = FALSE] /\ Over' = Over
      BY <2>2, <3>1 DEF Opened, Over, TypeOK
    <3>4. Stream!Close(e)
      BY <3>1, <3>2, <3>3 DEF Stream!Close, Opened
    <3> QED BY <3>4 DEF Stream!Next
  <2>6. CASE Open(e) \/ Stops(e) \/ Take(e) \/ Write(e)
    <3>1. UNCHANGED <<sent, got, eof, cut>>
      BY <2>6 DEF Open, Stops, WriteFails, OutEnds, ReadEnds, SocketFails, Stop, Take, Write,
                  Transmit, source, network, in
    <3>2. \A d \in End : at'[d] = "closed" <=> at[d] = "closed"
      BY <2>2, <2>6 DEF Open, Stops, WriteFails, OutEnds, ReadEnds, SocketFails, Stop, Take,
                        Write, TypeOK
    <3>3. UNCHANGED <<Opened, Over>>
      BY <3>1, <3>2 DEF Opened, Over
    <3> QED BY <3>1, <3>3 DEF Stream!vars, Opened
  <2>7. CASE ReadBuffer(e)
    <3>1. /\ buffer[e].from \in Nat /\ buffer[e].size \in Nat
          /\ sealed[Peer(e)] \in Nat /\ taken[Peer(e)] \in Nat /\ sent[Peer(e)] \in Nat
      BY <2>2 DEF TypeOK
    <3>2. /\ buffer[e].from = Len(got[e])
          /\ buffer[e].from + buffer[e].size <= sealed[Peer(e)]
          /\ sealed[Peer(e)] <= taken[Peer(e)] /\ taken[Peer(e)] <= sent[Peer(e)]
      BY <2>2 DEF Flow, Within, Received
    <3>3. buffer[e].from + buffer[e].size <= sent[Peer(e)]
      BY <3>1, <3>2
    <3>4. /\ HandOut(e, buffer[e].from, buffer[e].size) /\ buffer[e].size > 0
          /\ at[e] = "open" /\ UNCHANGED <<sent, eof, at, cut>>
      BY <2>7 DEF ReadBuffer, Copying, source, network
    <3>5. Stream!Deliver(e)
      BY <3>1, <3>2, <3>3, <3>4, ReadIsDeliver
    <3> QED BY <3>5 DEF Stream!Next
  <2>8. CASE ReadRecord(e)
    <3>1. PICK r \in Sealable : r = Head(Incoming(e)) /\ r = wire[Peer(e)][1]
      BY <2>2, <2>8, HeadType DEF ReadRecord, Incoming
    <3>2. /\ r.from \in Nat /\ r.size \in Nat /\ r.size > 0 /\ r.from = Received(Peer(e))
          /\ HandOut(e, r.from, r.size)
      BY <2>8, <3>1, HeadOpens, SealableFields DEF ReadRecord
    <3>3. at[e] = "open" /\ UNCHANGED <<sent, eof, at, cut>> /\ buffer[e].size = 0
      BY <2>8 DEF ReadRecord, Copying, source
    <3>4. /\ sealed[Peer(e)] \in Nat /\ taken[Peer(e)] \in Nat /\ sent[Peer(e)] \in Nat
          /\ buffer[e].from \in Nat /\ wire[Peer(e)] \in Seq(Sealable) /\ wire[Peer(e)] # <<>>
      BY <2>2, <2>8 DEF TypeOK, ReadRecord, Incoming
    <3>5. r.from = Len(got[e])
      BY <2>2, <3>2, <3>3, <3>4 DEF Flow, Received
    <3>6. 1 \in 1..Len(wire[Peer(e)])
      BY <3>4, Empty
    <3>7. r.from + r.size <= sealed[Peer(e)] /\ sealed[Peer(e)] <= taken[Peer(e)]
          /\ taken[Peer(e)] <= sent[Peer(e)]
      BY <2>2, <3>1, <3>6 DEF Flow, Within
    <3>8. r.from + r.size <= sent[Peer(e)]
      BY <3>2, <3>4, <3>7
    <3>9. Stream!Deliver(e)
      BY <3>2, <3>3, <3>5, <3>8, ReadIsDeliver
    <3> QED BY <3>9 DEF Stream!Next
  <2> QED BY <2>1, <2>3, <2>4, <2>5, <2>6, <2>7, <2>8 DEF Steps, Moves
<1> QED BY <1>1, <1>2

(* A tunnelled connection is a byte stream, whatever the sizes of records   *)
(* and buffers: in order, nothing missing, nothing twice, and closed by     *)
(* nothing but its programs or the network.                                 *)
THEOREM SecureIsByteStream == Spec => ImplementsByteStream
<1>1. IInv /\ [Next]_vars => [Stream!Next]_(Stream!vars)
  BY StepIsStreamStep
<1>2. Spec => Init /\ [][Next]_vars
  BY DEF Spec
<1> QED BY <1>1, <1>2, InitIsStreamInit, StreamInvariant, PTL DEF ImplementsByteStream, Stream!Spec
=============================================================================
