---------------------------- MODULE ModbusClient ----------------------------
(***************************************************************************)
(* ModbusAgvClient (agv_control/agv_bridge.py): one write of a register    *)
(* over a TCP stream on which the vehicle also pushes heartbeats of its    *)
(* own.  The client flushes what has arrived, writes the request and cuts  *)
(* its reply out of a stream that arrives in pieces of any size.           *)
(*                                                                         *)
(* A byte on the stream is a pair: the frame it belongs to and its place   *)
(* in it.  The client sees the value alone; where the byte comes from is   *)
(* for the properties.  The vehicle is external.                           *)
(***************************************************************************)
EXTENDS Naturals, Sequences

CONSTANTS
  HeartbeatLen,  \* HEARTBEAT_LEN (34)
  Filler,        \* the value of the other bytes of a heartbeat
  UnitId, ControlAddr,
  Values,        \* the commands written
  FirstTid,      \* the transaction identifier a check starts from
  MaxWrites,     \* bound on the writes acknowledged
  MaxBeats,      \* bound on the heartbeats
  MaxFaults,     \* bound on lost, refused or late replies and closed lines
  MaxAbandons    \* writes interrupted by Ctrl-C: after the first destroy_node
                 \* writes stop, a second ends it and with it the process

HeartbeatHead == 187  \* 0xBB
LastTid == 65535      \* 0xFFFF
Outcomes == {"none", "ok", "failed"}
Unsigned16 == {n \in Nat : n < 65536}

ASSUME FrameAssumption ==
  /\ HeartbeatLen \in Nat /\ HeartbeatLen >= 5
  /\ Filler \in 0 .. 255 /\ UnitId \in 0 .. 255
  /\ ControlAddr \in Unsigned16 /\ Values \subseteq Unsigned16
  /\ FirstTid \in 1 .. LastTid
ASSUME BoundAssumption ==
  /\ MaxWrites \in Nat /\ MaxBeats \in Nat
  /\ MaxFaults \in Nat /\ MaxAbandons \in 0 .. 1

VARIABLES
  pc,        \* "idle", "flush", "recv" or "parse": where send_command stands
  sock,      \* self.sock is not None
  tid,
  value,     \* the argument of send_command
  buf,       \* the bytes received for this request
  result,    \* how the last call ended
  incoming,  \* the bytes the vehicle sent and the client has not read
  requests,  \* the requests the vehicle has not answered: <<tid, value>>
  register,  \* the vehicle's control register
  cut,       \* the kind of frame the last flush ended in, or "no" (history)
  answered,  \* the reply to this request is complete on the stream (history)
  writes, beats, faults, abandons \* counters for the bounds

bounds == <<writes, beats, faults, abandons>>
vars == <<pc, sock, tid, value, buf, result, incoming, requests, register,
          cut, answered, bounds>>

-----------------------------------------------------------------------------
(* Frames                                                                  *)

Beat == [kind |-> "beat", tid |-> 0, value |-> 0]
Echo(t, v) == [kind |-> "echo", tid |-> t, value |-> v]
Refusal(t) == [kind |-> "refusal", tid |-> t, value |-> 0]

High(n) == n \div 256
Low(n) == n % 256

\* The bytes of a frame.  A refusal is the Modbus exception 0x86, code 4.
BytesOf(f) ==
  CASE f.kind = "beat" ->
         [i \in 1 .. HeartbeatLen |-> IF i = 1 THEN HeartbeatHead ELSE Filler]
    [] f.kind = "echo" ->
         <<High(f.tid), Low(f.tid), 0, 0, 0, 6, UnitId, 6,
           High(ControlAddr), Low(ControlAddr), High(f.value), Low(f.value)>>
    [] f.kind = "refusal" ->
         <<High(f.tid), Low(f.tid), 0, 0, 0, 3, UnitId, 134, 4>>

Stream(f) == [i \in DOMAIN BytesOf(f) |-> <<f, i>>]

\* What the client sees of buffer b.
At(b, i) == BytesOf(b[i][1])[b[i][2]]
WordAt(b, i) == At(b, i) * 256 + At(b, i + 1)

From(b, i) == SubSeq(b, i, Len(b))

\* _try_extract_matching_modbus_frame: the cases of its loop on buffer b.
StartsHeartbeat(b) == Len(b) >= 1 /\ At(b, 1) = HeartbeatHead
HasHeader(b) == ~StartsHeartbeat(b) /\ Len(b) >= 7
AduLen(b) == 6 + WordAt(b, 5)
LooksLikeFrame(b) ==
  HasHeader(b) /\ WordAt(b, 3) = 0 /\ WordAt(b, 5) \in 2 .. 260
Matches(b) == WordAt(b, 1) = tid /\ At(b, 7) = UnitId

\* Faulty variant: the value of the echo is not compared.
AcceptedAnyValue(b) ==
  AduLen(b) >= 12 /\ At(b, 8) = 6 /\ WordAt(b, 9) = ControlAddr

\* _write_single_register accepts the frame at the head of b.  A refusal is
\* too short to be an echo.
Accepted(b) ==
  /\ AduLen(b) >= 12
  /\ At(b, 8) = 6
  /\ WordAt(b, 9) = ControlAddr
  /\ WordAt(b, 11) = value

-----------------------------------------------------------------------------
Init ==
  /\ pc = "idle"
  /\ sock = FALSE
  /\ tid = FirstTid
  /\ value \in Values
  /\ buf = <<>>
  /\ result = "none"
  /\ incoming = <<>>
  /\ requests = <<>>
  /\ register \in Values
  /\ cut = "no"
  /\ answered = FALSE
  /\ writes = 0 /\ beats = 0 /\ faults = 0 /\ abandons = 0

\* send_command(v): connect() if needed, then flush.
SendCommand(v) ==
  /\ pc = "idle"
  /\ writes < MaxWrites
  /\ value' = v
  /\ sock' = TRUE
  /\ result' = "none"
  /\ pc' = "flush"
  /\ UNCHANGED <<tid, buf, incoming, requests, register, cut, answered, bounds>>

\* _flush_socket reads what has arrived, a prefix of what was sent, and
\* _write_single_register writes the request.
FlushAndWrite ==
  /\ pc = "flush"
  /\ \E n \in 0 .. Len(incoming) :
       /\ incoming' = From(incoming, n + 1)
       /\ cut' = IF incoming' = <<>> \/ incoming'[1][2] = 1
                 THEN "no" ELSE incoming'[1][1].kind
  /\ requests' = Append(requests, <<tid, value>>)
  /\ buf' = <<>>
  /\ answered' = FALSE
  /\ pc' = "recv"
  /\ UNCHANGED <<sock, tid, value, result, register, bounds>>

\* recv returns any non-empty piece.
Recv ==
  /\ pc = "recv"
  /\ \E n \in 1 .. Len(incoming) :
       /\ buf' = buf \o SubSeq(incoming, 1, n)
       /\ incoming' = From(incoming, n + 1)
  /\ pc' = "parse"
  /\ UNCHANGED <<sock, tid, value, result, requests, register, cut, answered,
                 bounds>>

\* Faulty variant: one byte of the heartbeat stays behind.
DropHeartbeatShort ==
  /\ pc = "parse"
  /\ StartsHeartbeat(buf)
  /\ Len(buf) >= HeartbeatLen
  /\ buf' = From(buf, HeartbeatLen)
  /\ UNCHANGED <<pc, sock, tid, value, result, incoming, requests, register,
                 cut, answered, bounds>>

DropHeartbeat ==
  /\ pc = "parse"
  /\ StartsHeartbeat(buf)
  /\ Len(buf) >= HeartbeatLen
  /\ buf' = From(buf, HeartbeatLen + 1)
  /\ UNCHANGED <<pc, sock, tid, value, result, incoming, requests, register,
                 cut, answered, bounds>>

\* Faulty variant: a frame is taken only when a byte follows it.
NeedMoreLate ==
  /\ pc = "parse"
  /\ \/ StartsHeartbeat(buf) /\ Len(buf) < HeartbeatLen
     \/ ~StartsHeartbeat(buf) /\ Len(buf) < 7
     \/ LooksLikeFrame(buf) /\ Len(buf) <= AduLen(buf)
  /\ pc' = "recv"
  /\ UNCHANGED <<sock, tid, value, buf, result, incoming, requests, register,
                 cut, answered, bounds>>

NeedMore ==
  /\ pc = "parse"
  /\ \/ StartsHeartbeat(buf) /\ Len(buf) < HeartbeatLen
     \/ ~StartsHeartbeat(buf) /\ Len(buf) < 7
     \/ LooksLikeFrame(buf) /\ Len(buf) < AduLen(buf)
  /\ pc' = "recv"
  /\ UNCHANGED <<sock, tid, value, buf, result, incoming, requests, register,
                 cut, answered, bounds>>

SkipFrame ==
  /\ pc = "parse"
  /\ LooksLikeFrame(buf) /\ Len(buf) >= AduLen(buf) /\ ~Matches(buf)
  /\ buf' = From(buf, AduLen(buf) + 1)
  /\ UNCHANGED <<pc, sock, tid, value, result, incoming, requests, register,
                 cut, answered, bounds>>

DropByte ==
  /\ pc = "parse"
  /\ HasHeader(buf) /\ ~LooksLikeFrame(buf)
  /\ buf' = Tail(buf)
  /\ UNCHANGED <<pc, sock, tid, value, result, incoming, requests, register,
                 cut, answered, bounds>>

\* Faulty variant: the identifier does not wrap around.
NextTidNoWrap == tid + 1

NextTid == IF tid >= LastTid THEN 1 ELSE tid + 1

\* An exception leaves send_command: the bridge closes the connection.  tid is
\* not advanced.
Fail ==
  /\ result' = "failed"
  /\ sock' = FALSE
  /\ incoming' = <<>>
  /\ requests' = <<>>
  /\ buf' = <<>>
  /\ cut' = "no"
  /\ answered' = FALSE
  /\ pc' = "idle"
  /\ UNCHANGED <<tid, value, writes, beats, abandons>>

TakeReply ==
  /\ pc = "parse"
  /\ LooksLikeFrame(buf) /\ Len(buf) >= AduLen(buf) /\ Matches(buf)
  /\ \/ /\ Accepted(buf)
        /\ result' = "ok"
        /\ tid' = NextTid
        /\ buf' = <<>>
        /\ answered' = FALSE
        /\ pc' = "idle"
        /\ writes' = writes + 1
        /\ UNCHANGED <<sock, value, incoming, requests, cut, beats, faults,
                       abandons>>
     \/ /\ ~Accepted(buf)
        /\ Fail
        /\ UNCHANGED faults
  /\ UNCHANGED register

\* Faulty variant: the deadline is not looked at while a frame is incomplete.
TimeoutIfEmpty ==
  /\ pc = "recv"
  /\ buf = <<>>
  /\ incoming = <<>> /\ requests = <<>>
  /\ Fail
  /\ UNCHANGED <<faults, register>>

\* The deadline passes with nothing left to come.
Timeout ==
  /\ pc = "recv"
  /\ incoming = <<>> /\ requests = <<>>
  /\ Fail
  /\ UNCHANGED <<faults, register>>

\* The peer closes, or its reply is later than the deadline.  A request on the
\* way is carried out at once or never (AgvBridge has the ones that come late).
LineFails ==
  /\ pc \in {"flush", "recv"}
  /\ faults < MaxFaults
  /\ faults' = faults + 1
  /\ register' \in {register} \union {requests[i][2] : i \in DOMAIN requests}
  /\ Fail

\* Ctrl-C in recv: destroy_node goes on with this connection.
Abandon ==
  /\ pc = "recv"
  /\ abandons < MaxAbandons
  /\ abandons' = abandons + 1
  /\ pc' = "idle"
  /\ result' = "failed"
  /\ answered' = FALSE
  /\ buf' = <<>>
  /\ UNCHANGED <<sock, tid, value, incoming, requests, register, cut, writes,
                 beats, faults>>

-----------------------------------------------------------------------------
(* The vehicle (external)                                                  *)

PushHeartbeat ==
  /\ sock
  /\ beats < MaxBeats
  /\ beats' = beats + 1
  /\ incoming' = incoming \o Stream(Beat)
  /\ UNCHANGED <<pc, sock, tid, value, buf, result, requests, register, cut,
                 answered, writes, faults, abandons>>

\* The request at the head is the one send_command waits for.
Current == Len(requests) = 1 /\ pc \in {"recv", "parse"}

CarryOut ==
  /\ requests # <<>>
  /\ register' = Head(requests)[2]
  /\ incoming' = incoming \o Stream(Echo(Head(requests)[1], Head(requests)[2]))
  /\ answered' = (answered \/ Current)
  /\ requests' = Tail(requests)
  /\ UNCHANGED <<pc, sock, tid, value, buf, result, cut, bounds>>

\* Refused, carried out without a reply, or lost.
VehicleFault ==
  /\ requests # <<>>
  /\ faults < MaxFaults
  /\ faults' = faults + 1
  /\ requests' = Tail(requests)
  /\ \/ /\ incoming' = incoming \o Stream(Refusal(Head(requests)[1]))
        /\ UNCHANGED register
     \/ /\ register' = Head(requests)[2]
        /\ UNCHANGED incoming
     \/ UNCHANGED <<incoming, register>>
  /\ UNCHANGED <<pc, sock, tid, value, buf, result, cut, answered, writes,
                 beats, abandons>>

-----------------------------------------------------------------------------
Client == FlushAndWrite \/ Recv \/ DropHeartbeat \/ NeedMore \/ SkipFrame
          \/ DropByte \/ TakeReply \/ Timeout
Next == Client \/ CarryOut \/ VehicleFault \/ PushHeartbeat \/ LineFails
        \/ Abandon \/ \E v \in Values : SendCommand(v)

\* The client runs on, the vehicle answers, and the bridge repeats a command
\* that was not acknowledged at its next timer tick.
Fairness == /\ WF_vars(Client)
            /\ WF_vars(CarryOut)
            /\ WF_vars(\E v \in Values : SendCommand(v))

Spec == Init /\ [][Next]_vars /\ Fairness

-----------------------------------------------------------------------------
Frames ==
  {Beat} \union [kind : {"echo"}, tid : 1 .. LastTid, value : Values]
         \union [kind : {"refusal"}, tid : 1 .. LastTid, value : {0}]
Byte == {b \in Frames \X Nat : b[2] \in DOMAIN BytesOf(b[1])}

\* The type of every variable.
TypeOK ==
  /\ pc \in {"idle", "flush", "recv", "parse"}
  /\ sock \in BOOLEAN /\ tid \in 1 .. LastTid /\ value \in Values
  /\ buf \in Seq(Byte) /\ incoming \in Seq(Byte)
  /\ result \in Outcomes
  /\ requests \in Seq((1 .. LastTid) \X Values)
  /\ register \in Values
  /\ cut \in {"no", "beat", "echo", "refusal"} /\ answered \in BOOLEAN
  /\ writes \in 0 .. MaxWrites /\ beats \in 0 .. MaxBeats
  /\ faults \in 0 .. MaxFaults /\ abandons \in 0 .. MaxAbandons

\* The transaction identifiers whose replies start like a heartbeat.
HeartbeatTid == tid \div 256 = HeartbeatHead

\* However the stream is cut into pieces, the parser stands at the start of a
\* frame whenever it waits for more, unless the flush split a frame or the
\* reply is mistaken for a heartbeat.
StaysInStep ==
  pc = "recv" /\ cut = "no" /\ ~HeartbeatTid /\ buf # <<>> => buf[1][2] = 1

\* The reply is found as soon as its last byte is read: the client never waits
\* with the reply to its request in the buffer, even behind a heartbeat that
\* the flush split, provided its bytes are neither 0 nor 0xBB.  Behind a split
\* reply, to a write that was abandoned, it may be missed.
ReplyIsFound ==
  pc = "recv" /\ ~HeartbeatTid /\ answered
    => \/ incoming # <<>>
       \/ cut = "beat" /\ Filler \in {0, HeartbeatHead}
       \/ cut \in {"echo", "refusal"}

\* A write that succeeds has been carried out: the register holds its value,
\* even on a connection that carries the reply to an abandoned write with the
\* same transaction identifier.
SuccessIsDone == result = "ok" => register = value

\* A command repeated until it is acknowledged is acknowledged in the end.
WriteGetsThrough == pc = "recv" ~> result = "ok"
=============================================================================
