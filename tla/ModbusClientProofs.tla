-------------------------- MODULE ModbusClientProofs --------------------------
(***************************************************************************)
(* What ModbusClient promises for every length and filler of the           *)
(* heartbeats, every unit, every set of commands and every transaction     *)
(* identifier: the client stays in step with the frames, finds its reply,  *)
(* and a write it reports as done is done.  The invariants speak of Sent,  *)
(* the bytes the vehicle has sent and the client has not consumed.         *)
(***************************************************************************)
EXTENDS ModbusClient, SequenceTheorems, TLAPS

Sent == buf \o incoming
Places == 1 .. Len(Sent)

FrameLen(f) == IF f.kind = "beat" THEN HeartbeatLen
               ELSE IF f.kind = "echo" THEN 12 ELSE 9

\* The frames lie one behind the other: around every byte there is the rest
\* of its frame, as far as it has not been consumed, and behind that the first
\* byte of the next one.
Framed(s) ==
  \A i \in 1 .. Len(s) :
    LET f == s[i][1]
        start == i - s[i][2]
    IN  /\ start + FrameLen(f) <= Len(s)
        /\ \A q \in 1 .. FrameLen(f) : start + q >= 1 => s[start + q] = <<f, q>>
        /\ start + FrameLen(f) < Len(s) => s[start + FrameLen(f) + 1][2] = 1

Receiving == pc \in {"recv", "parse"}

\* Nothing is kept between two calls, and no call waits with bytes that could
\* be dealt with.
Incomplete(b) ==
  \/ StartsHeartbeat(b) /\ Len(b) < HeartbeatLen
  \/ ~StartsHeartbeat(b) /\ Len(b) < 7
  \/ LooksLikeFrame(b) /\ Len(b) < AduLen(b)
BufferInv ==
  /\ pc \in {"idle", "flush"} => buf = <<>>
  /\ pc = "recv" => buf = <<>> \/ Incomplete(buf)

\* Before the identifiers of HeartbeatTid no reply starts like a heartbeat.
HeadsDiffer ==
  ~HeartbeatTid =>
    /\ \A i \in Places :
         Sent[i][1].kind # "beat" => High(Sent[i][1].tid) # HeartbeatHead
    /\ \A j \in 1 .. Len(requests) : High(requests[j][1]) # HeartbeatHead

\* The rest of a heartbeat is told from a reply.
BeatIsSkipped == cut = "beat" /\ Filler \notin {0, HeartbeatHead}

InStep ==
  Receiving /\ ~HeartbeatTid /\ Sent # <<>> =>
    /\ cut = "no" => Sent[1][2] = 1
    /\ BeatIsSkipped => Sent[1][2] = 1 \/ Sent[1][1].kind = "beat"

\* A call is under way only while the bound leaves a write to acknowledge.
WritesLeft == pc # "idle" => writes < MaxWrites

OwnIsLast ==
  Receiving /\ requests # <<>> => requests[Len(requests)] = <<tid, value>>

ReplyIsThere ==
  Receiving /\ answered /\ ~HeartbeatTid /\ (cut = "no" \/ BeatIsSkipped) =>
    \E i \in Places : Sent[i] = <<Echo(tid, value), 1>>

FrameInv == TypeOK /\ WritesLeft /\ Framed(Sent) /\ BufferInv /\ OwnIsLast
StepInv == FrameInv /\ HeadsDiffer /\ InStep /\ ReplyIsThere

\* The replies and requests of the current transaction come last.
CurrentIsLast ==
  /\ \A i \in Places : Sent[i][1].kind # "beat" /\ Sent[i][1].tid = tid =>
       /\ \A k \in i .. Len(Sent) : Sent[k][1].kind # "beat" => Sent[k][1].tid = tid
       /\ \A j \in 1 .. Len(requests) : requests[j][1] = tid
  /\ \A j \in 1 .. Len(requests) : requests[j][1] = tid =>
       \A k \in j .. Len(requests) : requests[k][1] = tid

\* An echo of the value being written says that the register holds it, and
\* that nothing on the way changes it.
EchoIsTrue ==
  Receiving =>
    /\ \A i \in Places : Sent[i][1] = Echo(tid, value) =>
         register = value /\ \A j \in 1 .. Len(requests) : requests[j][2] = value
    /\ \A j \in 1 .. Len(requests) : requests[j] = <<tid, value>> =>
         \A k \in j .. Len(requests) : requests[k][2] = value

\* Between two calls, and before the first abandoned one, at most one request
\* of the current transaction is on its way, and its echo is true.
OneOnItsWay ==
  pc \in {"idle", "flush"} \/ abandons = 0 =>
    /\ \A i \in Places : Sent[i][1].kind = "echo" /\ Sent[i][1].tid = tid =>
         register = Sent[i][1].value /\ requests = <<>>
    /\ \A j \in 1 .. Len(requests) : requests[j][1] = tid => j = Len(requests)

Fresh ==
  pc \in {"idle", "flush"} /\ abandons = 0 =>
    /\ \A i \in Places : Sent[i][1].kind # "beat" => Sent[i][1].tid # tid
    /\ \A j \in 1 .. Len(requests) : requests[j][1] # tid

DoneStaysDone ==
  result = "ok" =>
    /\ pc = "idle" /\ register = value
    /\ \A j \in 1 .. Len(requests) : requests[j][2] = value

WriteInv ==
  FrameInv /\ CurrentIsLast /\ EchoIsTrue /\ OneOnItsWay /\ Fresh /\ DoneStaysDone
-----------------------------------------------------------------------------
(* Frames and their bytes.                                                 *)

LEMMA ConstantTypes ==
  /\ HeartbeatLen \in Nat /\ HeartbeatLen >= 5
  /\ Filler \in Nat /\ Filler < 256 /\ UnitId \in Nat /\ UnitId < 256
  /\ ControlAddr \in Nat /\ Values \subseteq Nat
<1>1. ControlAddr \in Nat /\ Values \subseteq Nat
  BY FrameAssumption DEF Unsigned16
<1>2. Filler \in 0 .. 255 /\ UnitId \in 0 .. 255
  BY FrameAssumption
<1>3. Filler \in Nat /\ Filler < 256 /\ UnitId \in Nat /\ UnitId < 256
  BY <1>2
<1>4. HeartbeatLen \in Nat /\ HeartbeatLen >= 5
  BY FrameAssumption
<1> QED BY <1>1, <1>3, <1>4

LEMMA LastTidIsNat == LastTid \in Nat /\ LastTid > 1 /\ LastTid < 65536
  BY DEF LastTid

LEMMA FrameKinds ==
  ASSUME NEW f \in Frames
  PROVE  /\ f.kind \in {"beat", "echo", "refusal"} /\ f.tid \in Nat /\ f.value \in Nat
         /\ f.kind # "beat" => f.tid \in 1 .. LastTid
         /\ f.kind = "echo" => f = Echo(f.tid, f.value)
         /\ FrameLen(f) \in Nat /\ FrameLen(f) >= 5
<1>1. Values \subseteq Nat /\ HeartbeatLen \in Nat /\ HeartbeatLen >= 5
  BY FrameAssumption DEF Unsigned16
<1>2. CASE f = Beat
  BY <1>1, <1>2 DEF Beat, FrameLen
<1>3. CASE f \in [kind : {"echo"}, tid : 1 .. LastTid, value : Values]
  <2>1. f = Echo(f.tid, f.value)
    BY <1>3 DEF Echo
  <2>2. f.kind = "echo" /\ f.tid \in 1 .. LastTid /\ f.value \in Values
    BY <1>3
  <2>3. f.tid \in Nat /\ f.value \in Nat
    <3>1. f.tid \in Nat
      BY <2>2, LastTidIsNat
    <3>2. f.value \in Nat
      BY <1>1, <2>2
    <3> QED BY <3>1, <3>2
  <2> QED BY <2>1, <2>2, <2>3 DEF FrameLen
<1>4. CASE f \in [kind : {"refusal"}, tid : 1 .. LastTid, value : {0}]
  <2>1. f.kind = "refusal" /\ f.tid \in 1 .. LastTid /\ f.value = 0
    BY <1>4
  <2>2. f.tid \in Nat
    BY <2>1, LastTidIsNat
  <2> QED BY <2>1, <2>2 DEF FrameLen
<1> QED BY <1>2, <1>3, <1>4 DEF Frames

LEMMA HalfWord ==
  ASSUME NEW n \in Unsigned16
  PROVE  High(n) \in Nat /\ High(n) < 256 /\ Low(n) \in Nat /\ Low(n) < 256
<1>1. n \in Nat /\ n < 65536
  BY DEF Unsigned16
<1> QED BY <1>1 DEF High, Low

LEMMA BytesOfFrame ==
  ASSUME NEW f \in Frames
  PROVE  /\ DOMAIN BytesOf(f) = 1 .. FrameLen(f)
         /\ \A i \in 1 .. FrameLen(f) : BytesOf(f)[i] \in Nat /\ BytesOf(f)[i] < 256
<1> DEFINE Ok(x) == x \in Nat /\ x < 256
<1>0. /\ f.tid \in Unsigned16 /\ ControlAddr \in Unsigned16
      /\ f.kind = "echo" => f.value \in Unsigned16
  <2>1. f.tid \in Nat /\ (f.tid = 0 \/ f.tid \in 1 .. LastTid)
        /\ (f.kind = "echo" => f.value \in Values)
    BY DEF Frames, Beat
  <2>2. ControlAddr \in Unsigned16 /\ Values \subseteq Unsigned16
    BY FrameAssumption
  <2>3. f.tid \in Nat /\ f.tid < 65536
    BY <2>1, LastTidIsNat
  <2>4. f.tid \in Unsigned16
    BY <2>3 DEF Unsigned16
  <2>5. f.kind = "echo" => f.value \in Unsigned16
    BY <2>1, <2>2
  <2> QED BY <2>2, <2>4, <2>5
<1>1. CASE f.kind = "beat"
  <2>1. FrameLen(f) = HeartbeatLen /\ Ok(Filler)
    BY <1>1, ConstantTypes DEF FrameLen
  <2>2. BytesOf(f) = [i \in 1 .. HeartbeatLen |-> IF i = 1 THEN 187 ELSE Filler]
    BY <1>1 DEF BytesOf, HeartbeatHead
  <2> QED BY <2>1, <2>2
<1>2. CASE f.kind = "echo"
  <2>1. BytesOf(f) = <<High(f.tid), Low(f.tid), 0, 0, 0, 6, UnitId, 6,
           High(ControlAddr), Low(ControlAddr), High(f.value), Low(f.value)>>
    BY <1>2 DEF BytesOf
  <2>2. Ok(High(f.tid)) /\ Ok(Low(f.tid)) /\ Ok(High(ControlAddr)) /\ Ok(Low(ControlAddr))
        /\ Ok(High(f.value)) /\ Ok(Low(f.value)) /\ Ok(UnitId)
    <3>1. Ok(High(f.tid)) /\ Ok(Low(f.tid))
      BY <1>0, HalfWord
    <3>2. Ok(High(ControlAddr)) /\ Ok(Low(ControlAddr))
      BY <1>0, HalfWord
    <3>3. Ok(High(f.value)) /\ Ok(Low(f.value))
      BY <1>0, <1>2, HalfWord
    <3>4. Ok(UnitId)
      BY ConstantTypes
    <3> QED BY <3>1, <3>2, <3>3, <3>4
  <2>3. FrameLen(f) = 12
    BY <1>2 DEF FrameLen
  <2>4. DOMAIN BytesOf(f) = 1 .. 12
    BY <2>1
  <2>5. ASSUME NEW i \in 1 .. 12 PROVE Ok(BytesOf(f)[i])
    BY <2>1, <2>2
  <2> QED BY <2>3, <2>4, <2>5
<1>3. CASE f.kind = "refusal"
  <2>1. BytesOf(f) = <<High(f.tid), Low(f.tid), 0, 0, 0, 3, UnitId, 134, 4>>
    BY <1>3 DEF BytesOf
  <2>2. Ok(High(f.tid)) /\ Ok(Low(f.tid)) /\ Ok(UnitId)
    BY <1>0, HalfWord, ConstantTypes
  <2>3. FrameLen(f) = 9
    BY <1>3 DEF FrameLen
  <2>4. DOMAIN BytesOf(f) = 1 .. 9
    BY <2>1
  <2>5. ASSUME NEW i \in 1 .. 9 PROVE Ok(BytesOf(f)[i])
    BY <2>1, <2>2
  <2> QED BY <2>3, <2>4, <2>5
<1> QED BY <1>1, <1>2, <1>3, FrameKinds

LEMMA StreamOfFrame ==
  ASSUME NEW f \in Frames
  PROVE  /\ Stream(f) \in Seq(Byte) /\ Len(Stream(f)) = FrameLen(f)
         /\ \A i \in 1 .. FrameLen(f) : Stream(f)[i] = <<f, i>>
<1>1. Stream(f) = [i \in 1 .. FrameLen(f) |-> <<f, i>>]
  BY BytesOfFrame DEF Stream
<1>2. \A i \in 1 .. FrameLen(f) : <<f, i>> \in Byte
  BY BytesOfFrame, FrameKinds DEF Byte
<1> QED BY <1>1, <1>2, FrameKinds

LEMMA ByteParts ==
  ASSUME NEW b \in Byte
  PROVE  /\ b = <<b[1], b[2]>> /\ b[1] \in Frames /\ b[2] \in 1 .. FrameLen(b[1])
<1>1. b \in Frames \X Nat /\ b[2] \in DOMAIN BytesOf(b[1])
  BY DEF Byte
<1>2. b = <<b[1], b[2]>> /\ b[1] \in Frames
  BY <1>1
<1> QED BY <1>1, <1>2, BytesOfFrame

-----------------------------------------------------------------------------
(* Streams that lose bytes at the head and get frames at the end.          *)

Drops(s, t, n) == /\ Len(t) = Len(s) - n
                  /\ \A i \in 1 .. Len(t) : t[i] = s[i + n]
Adds(s, t, f) == /\ Len(t) = Len(s) + FrameLen(f)
                 /\ \A i \in 1 .. Len(s) : t[i] = s[i]
                 /\ \A q \in 1 .. FrameLen(f) : t[Len(s) + q] = <<f, q>>

LEMMA FramedDrops ==
  ASSUME NEW s \in Seq(Byte), NEW t \in Seq(Byte), NEW n \in 0 .. Len(s),
         Framed(s), Drops(s, t, n)
  PROVE  Framed(t)
<1> SUFFICES ASSUME NEW i \in 1 .. Len(t)
             PROVE  LET f == t[i][1]
                        start == i - t[i][2]
                    IN  /\ start + FrameLen(f) <= Len(t)
                        /\ \A q \in 1 .. FrameLen(f) : start + q >= 1 => t[start + q] = <<f, q>>
                        /\ start + FrameLen(f) < Len(t) => t[start + FrameLen(f) + 1][2] = 1
  BY DEF Framed
<1> DEFINE f == t[i][1]
           start == i - t[i][2]
<1>1. Len(t) = Len(s) - n /\ i + n \in 1 .. Len(s) /\ t[i] = s[i + n] /\ t[i] \in Byte
  BY DEF Drops
<1>2. f \in Frames /\ t[i][2] \in 1 .. FrameLen(f) /\ FrameLen(f) \in Nat
  BY <1>1, ByteParts, FrameKinds
<1>3. /\ start + n + FrameLen(f) <= Len(s)
      /\ \A q \in 1 .. FrameLen(f) : start + n + q >= 1 => s[start + n + q] = <<f, q>>
      /\ start + n + FrameLen(f) < Len(s) => s[start + n + FrameLen(f) + 1][2] = 1
  <2>1. (i + n) - s[i + n][2] = start + n
    BY <1>1, <1>2
  <2> QED BY <1>1, <2>1 DEF Framed
<1>4. start \in Int /\ FrameLen(f) \in Nat /\ n \in Nat /\ Len(s) \in Nat /\ Len(t) \in Nat
      /\ start + FrameLen(f) >= 1
  BY <1>2
<1> HIDE DEF f, start
<1>5. ASSUME NEW q \in 1 .. FrameLen(f), start + q >= 1
      PROVE  t[start + q] = <<f, q>>
  <2>1. start + q \in 1 .. Len(t)
    <3>1. start + n + FrameLen(f) <= Len(s)
      BY <1>3
    <3>2. Len(t) = Len(s) - n
      BY <1>1
    <3> QED BY <1>4, <1>5, <3>1, <3>2
  <2>2. t[start + q] = s[start + q + n]
    BY <2>1 DEF Drops
  <2>3. s[start + n + q] = <<f, q>>
    BY <1>3, <1>4, <1>5
  <2> QED BY <2>2, <2>3, <1>4
<1>6. ASSUME start + FrameLen(f) < Len(t)
      PROVE  t[start + FrameLen(f) + 1][2] = 1
  <2>1. start + FrameLen(f) + 1 \in 1 .. Len(t)
    BY <1>2, <1>4, <1>6
  <2>2. t[start + FrameLen(f) + 1] = s[start + FrameLen(f) + 1 + n]
    BY <2>1 DEF Drops
  <2>3. s[start + n + FrameLen(f) + 1][2] = 1
    BY <1>1, <1>3, <1>4, <1>6
  <2>4. start + FrameLen(f) + 1 + n = start + n + FrameLen(f) + 1
    BY <1>4
  <2> QED BY <2>2, <2>3, <2>4
<1>7. start + FrameLen(f) <= Len(t)
  BY <1>1, <1>3, <1>4
<1> QED BY <1>5, <1>6, <1>7 DEF f, start

LEMMA FramedAdds ==
  ASSUME NEW s \in Seq(Byte), NEW t \in Seq(Byte), NEW g \in Frames,
         Framed(s), Adds(s, t, g)
  PROVE  Framed(t)
<1> SUFFICES ASSUME NEW i \in 1 .. Len(t)
             PROVE  LET f == t[i][1]
                        start == i - t[i][2]
                    IN  /\ start + FrameLen(f) <= Len(t)
                        /\ \A q \in 1 .. FrameLen(f) : start + q >= 1 => t[start + q] = <<f, q>>
                        /\ start + FrameLen(f) < Len(t) => t[start + FrameLen(f) + 1][2] = 1
  BY DEF Framed
<1> DEFINE f == t[i][1]
           start == i - t[i][2]
<1>0. FrameLen(g) \in Nat /\ FrameLen(g) >= 5 /\ Len(t) = Len(s) + FrameLen(g) /\ Len(s) \in Nat
  BY FrameKinds DEF Adds
<1>1. CASE i <= Len(s)
  <2>1. i \in 1 .. Len(s) /\ t[i] = s[i] /\ s[i] \in Byte
    BY <1>1, <1>0 DEF Adds
  <2>2. f \in Frames /\ t[i][2] \in 1 .. FrameLen(f) /\ FrameLen(f) \in Nat
    BY <2>1, ByteParts, FrameKinds
  <2>3. /\ start + FrameLen(f) <= Len(s)
        /\ \A q \in 1 .. FrameLen(f) : start + q >= 1 => s[start + q] = <<f, q>>
        /\ start + FrameLen(f) < Len(s) => s[start + FrameLen(f) + 1][2] = 1
    BY <2>1 DEF Framed
  <2>4. \A q \in 1 .. FrameLen(f) : start + q >= 1 => t[start + q] = s[start + q]
    <3> SUFFICES ASSUME NEW q \in 1 .. FrameLen(f), start + q >= 1
                 PROVE  t[start + q] = s[start + q]
      OBVIOUS
    <3>1. start \in Int
      BY <2>2
    <3>2. start + q \in 1 .. Len(s)
      <4>1. start + FrameLen(f) <= Len(s) /\ Len(s) \in Nat /\ FrameLen(f) \in Nat
        BY <2>2, <2>3, <1>0
      <4> QED BY <3>1, <4>1
    <3> QED BY <3>2 DEF Adds
  <2>5. ASSUME start + FrameLen(f) < Len(t)
        PROVE  t[start + FrameLen(f) + 1][2] = 1
    <3>1. CASE start + FrameLen(f) < Len(s)
      <4>1. start + FrameLen(f) + 1 \in 1 .. Len(s)
        BY <2>2, <3>1, <1>0
      <4> QED BY <4>1, <2>3, <3>1 DEF Adds
    <3>2. CASE start + FrameLen(f) = Len(s)
      <4>1. t[Len(s) + 1] = <<g, 1>>
        BY <1>0 DEF Adds
      <4> QED BY <4>1, <3>2
    <3>3. start \in Int
      BY <2>2
    <3> QED BY <3>1, <3>2, <3>3, <2>2, <2>3, <1>0
  <2>6. start + FrameLen(f) <= Len(t)
    <3>1. start \in Int
      BY <2>2
    <3> QED BY <3>1, <2>2, <2>3, <1>0
  <2> QED BY <2>3, <2>4, <2>5, <2>6
<1>2. CASE i > Len(s)
  <2>1. i - Len(s) \in 1 .. FrameLen(g) /\ i = Len(s) + (i - Len(s))
    BY <1>2, <1>0
  <2>2. t[i] = <<g, i - Len(s)>>
    BY <2>1 DEF Adds
  <2>3. f = g /\ start = Len(s)
    <3>1. t[i][1] = g /\ t[i][2] = i - Len(s)
      BY <2>2
    <3>2. i \in Nat /\ Len(s) \in Nat
      BY <1>0
    <3>3. i - (i - Len(s)) = Len(s)
      BY <3>2
    <3> QED BY <3>1, <3>3
  <2>4. \A q \in 1 .. FrameLen(g) : t[Len(s) + q] = <<g, q>>
    BY DEF Adds
  <2>5. ~(start + FrameLen(f) < Len(t)) /\ start + FrameLen(f) <= Len(t)
    BY <2>3, <1>0
  <2> QED BY <2>3, <2>4, <2>5
<1>3. i \in Nat /\ Len(s) \in Nat
  BY <1>0
<1>4. i <= Len(s) \/ i > Len(s)
  BY <1>3
<1> QED BY <1>1, <1>2, <1>4

LEMMA SeqParts ==
  ASSUME NEW b \in Seq(Byte), NEW c \in Seq(Byte)
  PROVE  /\ b \o c \in Seq(Byte) /\ Len(b \o c) = Len(b) + Len(c)
         /\ Len(b) \in Nat /\ Len(c) \in Nat
         /\ \A i \in 1 .. Len(b) : (b \o c)[i] = b[i]
         /\ \A i \in 1 .. Len(c) : (b \o c)[Len(b) + i] = c[i]
  BY ConcatProperties

LEMMA Regrouped ==
  ASSUME NEW b \in Seq(Byte), NEW c \in Seq(Byte), NEW d \in Seq(Byte)
  PROVE  (b \o c) \o d = b \o (c \o d)
  BY ConcatAssociative

LEMMA FromDrops ==
  ASSUME NEW s \in Seq(Byte), NEW n \in 0 .. Len(s)
  PROVE  From(s, n + 1) \in Seq(Byte) /\ Drops(s, From(s, n + 1), n)
<1>1. n + 1 \in Int /\ Len(s) \in Nat
  OBVIOUS
<1>2. \A i \in n + 1 .. Len(s) : s[i] \in Byte
  OBVIOUS
<1>3. SubSeq(s, n + 1, Len(s)) \in Seq(Byte)
  BY <1>1, <1>2, SubSeqProperties
<1>4. Len(SubSeq(s, n + 1, Len(s))) = Len(s) - n
  <2>1. Len(SubSeq(s, n + 1, Len(s)))
          = IF n + 1 <= Len(s) THEN Len(s) - (n + 1) + 1 ELSE 0
    BY <1>1, <1>2, SubSeqProperties
  <2> QED BY <1>1, <2>1
<1>5. \A i \in 1 .. Len(s) - n : SubSeq(s, n + 1, Len(s))[i] = s[i + n]
  <2>1. \A i \in 1 .. Len(s) - (n + 1) + 1 :
          SubSeq(s, n + 1, Len(s))[i] = s[(n + 1) + i - 1]
    BY <1>1, <1>2, SubSeqProperties
  <2> QED BY <1>1, <2>1
<1> QED BY <1>3, <1>4, <1>5 DEF From, Drops

LEMMA ConcatDrops ==
  ASSUME NEW b \in Seq(Byte), NEW c \in Seq(Byte), NEW n \in 0 .. Len(b)
  PROVE  /\ From(b, n + 1) \in Seq(Byte) /\ From(b, n + 1) \o c \in Seq(Byte)
         /\ Drops(b \o c, From(b, n + 1) \o c, n)
<1> DEFINE d == From(b, n + 1)
<1>1. d \in Seq(Byte) /\ Len(d) = Len(b) - n /\ \A i \in 1 .. Len(d) : d[i] = b[i + n]
  BY FromDrops DEF Drops
<1> HIDE DEF d
<1>2. /\ Len(b \o c) = Len(b) + Len(c) /\ Len(b) \in Nat /\ Len(c) \in Nat
      /\ \A i \in 1 .. Len(b) : (b \o c)[i] = b[i]
      /\ \A i \in 1 .. Len(c) : (b \o c)[Len(b) + i] = c[i]
  BY SeqParts
<1>3. /\ d \o c \in Seq(Byte) /\ Len(d \o c) = Len(d) + Len(c) /\ Len(d) \in Nat
      /\ \A i \in 1 .. Len(d) : (d \o c)[i] = d[i]
      /\ \A i \in 1 .. Len(c) : (d \o c)[Len(d) + i] = c[i]
  BY <1>1, SeqParts
<1>4. ASSUME NEW i \in 1 .. Len(d \o c)
      PROVE  (d \o c)[i] = (b \o c)[i + n]
  <2>1. CASE i <= Len(d)
    <3>1. i \in 1 .. Len(d) /\ i + n \in 1 .. Len(b)
      BY <2>1, <1>1, <1>2
    <3> QED BY <3>1, <1>1, <1>2, <1>3
  <2>2. CASE i > Len(d)
    <3>1. i - Len(d) \in 1 .. Len(c) /\ i = Len(d) + (i - Len(d))
          /\ i + n = Len(b) + (i - Len(d))
      BY <2>2, <1>1, <1>2, <1>3
    <3>2. (d \o c)[Len(d) + (i - Len(d))] = c[i - Len(d)]
          /\ (b \o c)[Len(b) + (i - Len(d))] = c[i - Len(d)]
      BY <3>1, <1>2, <1>3
    <3> QED BY <3>1, <3>2
  <2>3. i \in Nat /\ Len(d) \in Nat
    BY <1>3
  <2>4. i <= Len(d) \/ i > Len(d)
    BY <2>3
  <2> QED BY <2>1, <2>2, <2>4
<1>5. Len(d \o c) = Len(b \o c) - n
  BY <1>1, <1>2, <1>3
<1> QED BY <1>1, <1>3, <1>4, <1>5 DEF d, Drops

LEMMA ConcatMoves ==
  ASSUME NEW b \in Seq(Byte), NEW c \in Seq(Byte), NEW n \in 1 .. Len(c)
  PROVE  /\ b \o SubSeq(c, 1, n) \in Seq(Byte) /\ From(c, n + 1) \in Seq(Byte)
         /\ b \o SubSeq(c, 1, n) # <<>>
         /\ (b \o SubSeq(c, 1, n)) \o From(c, n + 1) = b \o c
<1>1. SubSeq(c, 1, n) \in Seq(Byte) /\ Len(SubSeq(c, 1, n)) = n
  <2>1. \A i \in 1 .. n : c[i] \in Byte
    OBVIOUS
  <2> QED BY <2>1, SubSeqProperties
<1>2. From(c, n + 1) \in Seq(Byte)
  BY FromDrops
<1>3. SubSeq(c, 1, n) \o From(c, n + 1) = c
  <2>1. SubSeq(c, 1, n) \o SubSeq(c, n + 1, Len(c)) = SubSeq(c, 1, Len(c))
    BY ConcatAdjacentSubSeq
  <2> QED BY <2>1, SubSeqFull DEF From
<1>4. b \o SubSeq(c, 1, n) \in Seq(Byte) /\ Len(b \o SubSeq(c, 1, n)) >= n
  BY <1>1, SeqParts
<1>5. b \o SubSeq(c, 1, n) # <<>>
  BY <1>4
<1>6. (b \o SubSeq(c, 1, n)) \o From(c, n + 1) = b \o (SubSeq(c, 1, n) \o From(c, n + 1))
  BY <1>1, <1>2, Regrouped
<1> QED BY <1>2, <1>3, <1>4, <1>5, <1>6

LEMMA ConcatAdds ==
  ASSUME NEW b \in Seq(Byte), NEW c \in Seq(Byte), NEW f \in Frames
  PROVE  /\ c \o Stream(f) \in Seq(Byte) /\ b \o (c \o Stream(f)) \in Seq(Byte)
         /\ Adds(b \o c, b \o (c \o Stream(f)), f)
<1>1. /\ Stream(f) \in Seq(Byte) /\ Len(Stream(f)) = FrameLen(f)
      /\ \A i \in 1 .. FrameLen(f) : Stream(f)[i] = <<f, i>>
  BY StreamOfFrame
<1>2. c \o Stream(f) \in Seq(Byte) /\ b \o c \in Seq(Byte)
      /\ b \o (c \o Stream(f)) = (b \o c) \o Stream(f)
  <2>1. c \o Stream(f) \in Seq(Byte) /\ b \o c \in Seq(Byte)
    BY <1>1, SeqParts
  <2>2. b \o (c \o Stream(f)) = (b \o c) \o Stream(f)
    BY <1>1, Regrouped
  <2> QED BY <2>1, <2>2
<1> DEFINE s == b \o c
           t == s \o Stream(f)
<1>3. /\ t \in Seq(Byte) /\ Len(t) = Len(s) + FrameLen(f)
      /\ \A i \in 1 .. Len(s) : t[i] = s[i]
      /\ \A q \in 1 .. FrameLen(f) : t[Len(s) + q] = Stream(f)[q]
  <2>1. s \in Seq(Byte)
    BY <1>2
  <2> HIDE DEF s
  <2>2. /\ s \o Stream(f) \in Seq(Byte)
        /\ Len(s \o Stream(f)) = Len(s) + Len(Stream(f))
        /\ \A i \in 1 .. Len(s) : (s \o Stream(f))[i] = s[i]
        /\ \A i \in 1 .. Len(Stream(f)) : (s \o Stream(f))[Len(s) + i] = Stream(f)[i]
    BY <2>1, <1>1, SeqParts
  <2> QED BY <2>2, <1>1
<1>4. Adds(s, t, f)
  BY <1>1, <1>3 DEF Adds
<1> QED BY <1>2, <1>3, <1>4

-----------------------------------------------------------------------------
(* Types.                                                                  *)

LEMMA TypeParts ==
  ASSUME TypeOK
  PROVE  /\ buf \in Seq(Byte) /\ incoming \in Seq(Byte) /\ Sent \in Seq(Byte)
         /\ Len(Sent) = Len(buf) + Len(incoming) /\ Len(buf) \in Nat /\ Len(incoming) \in Nat
         /\ \A k \in 1 .. Len(buf) : Sent[k] = buf[k]
         /\ tid \in 1 .. LastTid /\ tid \in Nat /\ tid >= 1
<1>1. buf \in Seq(Byte) /\ incoming \in Seq(Byte) /\ tid \in 1 .. LastTid
  BY DEF TypeOK
<1>2. tid \in Nat /\ tid >= 1
  BY <1>1, LastTidIsNat
<1> QED BY <1>1, <1>2, SeqParts DEF Sent

LEMMA AduLenIsNat ==
  ASSUME NEW b, LooksLikeFrame(b)
  PROVE  AduLen(b) \in Nat /\ AduLen(b) \in 8 .. 266
  BY DEF LooksLikeFrame, AduLen

LEMMA LooksLikeParts ==
  ASSUME NEW b, LooksLikeFrame(b)
  PROVE  /\ Len(b) >= 7 /\ ~StartsHeartbeat(b) /\ WordAt(b, 3) = 0
         /\ WordAt(b, 5) \in Nat /\ WordAt(b, 5) >= 2 /\ WordAt(b, 5) <= 260
<1>1. WordAt(b, 5) \in 2 .. 260 /\ WordAt(b, 3) = 0 /\ HasHeader(b)
  BY DEF LooksLikeFrame
<1>2. WordAt(b, 5) \in Nat /\ WordAt(b, 5) >= 2 /\ WordAt(b, 5) <= 260
  BY <1>1
<1> QED BY <1>1, <1>2 DEF HasHeader

\* The vehicle's replies to the request at the head.
LEMMA HeadRequest ==
  ASSUME TypeOK, requests # <<>>
  PROVE  /\ Head(requests) = requests[1] /\ requests[1] = <<requests[1][1], requests[1][2]>>
         /\ requests[1][1] \in 1 .. LastTid /\ requests[1][2] \in Values
         /\ Echo(requests[1][1], requests[1][2]) \in Frames /\ Refusal(requests[1][1]) \in Frames
         /\ Len(requests) \in Nat /\ Len(requests) >= 1 /\ Len(Tail(requests)) = Len(requests) - 1
         /\ Tail(requests) \in Seq((1 .. LastTid) \X Values)
         /\ \A j \in 1 .. Len(Tail(requests)) : Tail(requests)[j] = requests[j + 1]
<1>1. requests \in Seq((1 .. LastTid) \X Values)
  BY DEF TypeOK
<1>2. /\ Head(requests) = requests[1] /\ requests[1] \in (1 .. LastTid) \X Values
      /\ Len(requests) \in Nat /\ Len(requests) >= 1
  BY <1>1
<1>3. /\ Tail(requests) \in Seq((1 .. LastTid) \X Values)
      /\ Len(Tail(requests)) = Len(requests) - 1
      /\ \A j \in 1 .. Len(Tail(requests)) : Tail(requests)[j] = requests[j + 1]
  BY <1>1, HeadTailProperties
<1>4. requests[1][1] \in 1 .. LastTid /\ requests[1][2] \in Values
      /\ requests[1] = <<requests[1][1], requests[1][2]>>
  BY <1>2
<1>5. Echo(requests[1][1], requests[1][2]) \in Frames
  BY <1>4 DEF Frames, Echo
<1>6. Refusal(requests[1][1]) \in Frames
  BY <1>4 DEF Frames, Refusal
<1> QED BY <1>2, <1>3, <1>4, <1>5, <1>6

LEMMA BeatIsFrame == Beat \in Frames
  BY DEF Frames

\* What each step does to the bytes sent.
LEMMA FailDrops ==
  ASSUME TypeOK, Fail
  PROVE  Sent' = <<>>
<1>1. buf' = <<>> /\ incoming' = <<>>
  BY DEF Fail
<1> QED BY <1>1, ConcatEmptySeq DEF Sent

LEMMA FlushDrops ==
  ASSUME TypeOK, buf = <<>>, FlushAndWrite
  PROVE  \E n \in 0 .. Len(Sent) : Drops(Sent, Sent', n)
<1>1. PICK n \in 0 .. Len(incoming) : incoming' = From(incoming, n + 1)
  BY DEF FlushAndWrite
<1>2. buf' = <<>>
  BY DEF FlushAndWrite
<1>3. incoming \in Seq(Byte) /\ From(incoming, n + 1) \in Seq(Byte)
  BY TypeParts, FromDrops
<1>4. Sent = incoming /\ Sent' = From(incoming, n + 1)
  BY <1>1, <1>2, <1>3, ConcatEmptySeq DEF Sent
<1> QED BY <1>3, <1>4, FromDrops

LEMMA RecvKeeps ==
  ASSUME TypeOK, Recv
  PROVE  /\ Sent' = Sent /\ buf' \in Seq(Byte) /\ incoming' \in Seq(Byte)
         /\ buf' # <<>>
<1>1. PICK n \in 1 .. Len(incoming) : /\ buf' = buf \o SubSeq(incoming, 1, n)
                                      /\ incoming' = From(incoming, n + 1)
  BY DEF Recv
<1> QED BY <1>1, TypeParts, ConcatMoves DEF Sent

LEMMA ParseDrops ==
  ASSUME TypeOK, NEW n \in 0 .. Len(buf), buf' = From(buf, n + 1), incoming' = incoming
  PROVE  Drops(Sent, Sent', n) /\ buf' \in Seq(Byte) /\ n \in 0 .. Len(Sent)
<1>1. n \in 0 .. Len(Sent)
  BY TypeParts
<1> QED BY <1>1, TypeParts, ConcatDrops DEF Sent

LEMMA TailDrops ==
  ASSUME TypeOK, DropByte
  PROVE  buf' = From(buf, 1 + 1) /\ 1 \in 0 .. Len(buf) /\ incoming' = incoming
<1>1. buf' = Tail(buf) /\ Len(buf) >= 7 /\ buf \in Seq(Byte) /\ incoming' = incoming
  BY TypeParts DEF DropByte, HasHeader
<1>2. buf # <<>> /\ 1 \in 0 .. Len(buf)
  BY <1>1
<1> QED BY <1>1, <1>2, TailIsSubSeq DEF From

LEMMA ReplyDrops ==
  ASSUME TypeOK, buf' = <<>>, incoming' = incoming
  PROVE  Drops(Sent, Sent', Len(buf)) /\ Len(buf) \in 0 .. Len(Sent)
<1>1. Sent' = incoming
  BY TypeParts, ConcatEmptySeq DEF Sent
<1> QED BY <1>1, TypeParts, SeqParts DEF Sent, Drops

LEMMA FrameAdds ==
  ASSUME TypeOK, NEW f \in Frames, incoming' = incoming \o Stream(f), buf' = buf
  PROVE  Adds(Sent, Sent', f) /\ incoming' \in Seq(Byte)
  BY TypeParts, ConcatAdds DEF Sent

LEMMA FailType ==
  ASSUME TypeOK, Fail, faults' \in 0 .. MaxFaults, register' \in Values
  PROVE  TypeOK'
<1>1. /\ pc' = "idle" /\ sock' = FALSE /\ result' = "failed" /\ cut' = "no"
      /\ buf' = <<>> /\ incoming' = <<>> /\ requests' = <<>> /\ answered' = FALSE
  BY DEF Fail
<1>2. UNCHANGED <<tid, value, writes, beats, abandons>>
  BY DEF Fail
<1>3. buf' \in Seq(Byte) /\ incoming' \in Seq(Byte)
      /\ requests' \in Seq((1 .. LastTid) \X Values)
  BY <1>1
<1> QED BY <1>1, <1>2, <1>3 DEF TypeOK, Outcomes

LEMMA TypeStep ==
  ASSUME TypeOK, WritesLeft, [Next]_vars
  PROVE  TypeOK'
<1>1. ASSUME NEW v \in Values, SendCommand(v) PROVE TypeOK'
  BY <1>1 DEF TypeOK, SendCommand, bounds, Outcomes
<1>2. CASE FlushAndWrite
  <2>1. incoming' \in Seq(Byte) /\ cut' \in {"no", "beat", "echo", "refusal"}
    <3>1. PICK n \in 0 .. Len(incoming) :
            /\ incoming' = From(incoming, n + 1)
            /\ cut' = IF incoming' = <<>> \/ incoming'[1][2] = 1
                      THEN "no" ELSE incoming'[1][1].kind
      BY <1>2 DEF FlushAndWrite
    <3>2. incoming' \in Seq(Byte)
      BY <3>1, TypeParts, FromDrops
    <3>3. ASSUME incoming' # <<>> PROVE incoming'[1][1].kind \in {"beat", "echo", "refusal"}
      <4>1. incoming'[1] \in Byte
        BY <3>2, <3>3
      <4> QED BY <4>1, ByteParts, FrameKinds
    <3> QED BY <3>1, <3>2, <3>3
  <2>2. requests' \in Seq((1 .. LastTid) \X Values)
    <3>1. <<tid, value>> \in (1 .. LastTid) \X Values
          /\ requests \in Seq((1 .. LastTid) \X Values)
      BY DEF TypeOK
    <3> QED BY <1>2, <3>1, AppendProperties DEF FlushAndWrite
  <2>3. buf' = <<>> /\ answered' = FALSE /\ pc' = "recv"
        /\ UNCHANGED <<sock, tid, value, result, register, writes, beats, faults, abandons>>
    BY <1>2 DEF FlushAndWrite, bounds
  <2>4. buf' \in Seq(Byte)
    BY <2>3
  <2> QED BY <2>1, <2>2, <2>3, <2>4 DEF TypeOK
<1>3. CASE Recv
  <2>1. buf' \in Seq(Byte) /\ incoming' \in Seq(Byte)
    BY <1>3, RecvKeeps
  <2> QED BY <1>3, <2>1 DEF TypeOK, Recv, bounds
<1>4. CASE DropHeartbeat
  <2>1. HeartbeatLen \in 0 .. Len(buf)
    BY <1>4, FrameAssumption, TypeParts DEF DropHeartbeat
  <2>2. buf' \in Seq(Byte)
    BY <1>4, <2>1, ParseDrops DEF DropHeartbeat
  <2> QED BY <1>4, <2>2 DEF TypeOK, DropHeartbeat, bounds
<1>5. CASE NeedMore
  BY <1>5 DEF TypeOK, NeedMore, bounds
<1>6. CASE SkipFrame
  <2>1. AduLen(buf) \in 0 .. Len(buf)
    BY <1>6, AduLenIsNat, TypeParts DEF SkipFrame
  <2>2. buf' \in Seq(Byte)
    BY <1>6, <2>1, ParseDrops DEF SkipFrame
  <2> QED BY <1>6, <2>2 DEF TypeOK, SkipFrame, bounds
<1>7. CASE DropByte
  <2>1. buf' \in Seq(Byte)
    BY <1>7, TailDrops, ParseDrops
  <2> QED BY <1>7, <2>1 DEF TypeOK, DropByte, bounds
<1>8. CASE TakeReply
  <2>1. CASE Accepted(buf) /\ result' = "ok"
    <3>1. NextTid \in 1 .. LastTid
      BY LastTidIsNat DEF NextTid, TypeOK
    <3>2. writes' \in 0 .. MaxWrites
      BY <1>8, <2>1, BoundAssumption DEF TakeReply, Fail, TypeOK, WritesLeft
    <3>3. buf' = <<>> /\ buf' \in Seq(Byte)
      BY <1>8, <2>1 DEF TakeReply, Fail
    <3>4. /\ tid' = NextTid /\ pc' = "idle" /\ answered' = FALSE /\ result' = "ok"
          /\ UNCHANGED <<sock, value, incoming, requests, register, cut, beats, faults, abandons>>
      BY <1>8, <2>1 DEF TakeReply, Fail
    <3> QED BY <3>1, <3>2, <3>3, <3>4 DEF TypeOK, Outcomes
  <2>2. CASE Fail /\ UNCHANGED faults
    BY <1>8, <2>2, FailType DEF TakeReply, TypeOK
  <2> QED BY <1>8, <2>1, <2>2 DEF TakeReply, Fail
<1>9. CASE Timeout
  BY <1>9, FailType DEF Timeout, TypeOK
<1>10. CASE CarryOut
  <2>1. incoming' \in Seq(Byte)
    BY <1>10, HeadRequest, FrameAdds DEF CarryOut
  <2>2. requests' \in Seq((1 .. LastTid) \X Values) /\ register' \in Values
    BY <1>10, HeadRequest DEF CarryOut
  <2>3. answered' \in BOOLEAN
    BY <1>10 DEF CarryOut, TypeOK, Current
  <2>4. UNCHANGED <<pc, sock, tid, value, buf, result, cut, writes, beats, faults, abandons>>
    BY <1>10 DEF CarryOut, bounds
  <2> QED BY <2>1, <2>2, <2>3, <2>4 DEF TypeOK
<1>11. CASE VehicleFault
  <2>1. incoming' \in Seq(Byte) /\ register' \in Values
    BY <1>11, HeadRequest, FrameAdds DEF VehicleFault, TypeOK
  <2>2. requests' \in Seq((1 .. LastTid) \X Values)
    BY <1>11, HeadRequest DEF VehicleFault
  <2>3. faults' \in 0 .. MaxFaults
    BY <1>11, BoundAssumption DEF VehicleFault, TypeOK
  <2>4. UNCHANGED <<pc, sock, tid, value, buf, result, cut, answered, writes, beats, abandons>>
    BY <1>11 DEF VehicleFault
  <2> QED BY <2>1, <2>2, <2>3, <2>4 DEF TypeOK
<1>12. CASE PushHeartbeat
  <2>1. incoming' \in Seq(Byte)
    BY <1>12, BeatIsFrame, FrameAdds DEF PushHeartbeat
  <2>2. beats' \in 0 .. MaxBeats
    BY <1>12, BoundAssumption DEF PushHeartbeat, TypeOK
  <2>3. UNCHANGED <<pc, sock, tid, value, buf, result, requests, register, cut,
                    answered, writes, faults, abandons>>
    BY <1>12 DEF PushHeartbeat
  <2> QED BY <2>1, <2>2, <2>3 DEF TypeOK
<1>13. CASE LineFails
  <2>1. faults' \in 0 .. MaxFaults
    BY <1>13, BoundAssumption DEF LineFails, TypeOK
  <2>2. register' \in Values
    BY <1>13 DEF LineFails, TypeOK
  <2> QED BY <1>13, <2>1, <2>2, FailType DEF LineFails
<1>14. CASE Abandon
  <2>1. abandons' \in 0 .. MaxAbandons
    BY <1>14, BoundAssumption DEF Abandon, TypeOK
  <2>2. buf' \in Seq(Byte)
    BY <1>14 DEF Abandon
  <2> QED BY <1>14, <2>1, <2>2 DEF Abandon, TypeOK, Outcomes
<1>15. CASE UNCHANGED vars
  BY <1>15 DEF TypeOK, vars, bounds
<1> QED
  BY <1>1, <1>2, <1>3, <1>4, <1>5, <1>6, <1>7, <1>8, <1>9, <1>10, <1>11, <1>12,
     <1>13, <1>14, <1>15 DEF Next, Client

LEMMA WritesStep ==
  ASSUME TypeOK, WritesLeft, [Next]_vars
  PROVE  WritesLeft'
  BY DEF WritesLeft, TypeOK, vars, bounds, Next, Client, SendCommand, FlushAndWrite, Recv,
         DropHeartbeat, NeedMore, SkipFrame, DropByte, TakeReply, Fail, Timeout, CarryOut,
         VehicleFault, PushHeartbeat, LineFails, Abandon

-----------------------------------------------------------------------------
(* The frames lie one behind the other.                                    *)

\* Every step leaves the stream alone, cuts off its head or adds a frame.
LEMMA SentStep ==
  ASSUME TypeOK, BufferInv, [Next]_vars
  PROVE  \/ Sent' = Sent
         \/ \E n \in 0 .. Len(Sent) : Drops(Sent, Sent', n)
         \/ \E f \in Frames : /\ Adds(Sent, Sent', f)
                              /\ f.kind = "beat" \/ (requests # <<>> /\ f.tid = requests[1][1])
         \/ Sent' = <<>>
<1> DEFINE Goal == \/ Sent' = Sent
                   \/ \E n \in 0 .. Len(Sent) : Drops(Sent, Sent', n)
                   \/ \E f \in Frames :
                        /\ Adds(Sent, Sent', f)
                        /\ f.kind = "beat" \/ (requests # <<>> /\ f.tid = requests[1][1])
                   \/ Sent' = <<>>
<1>1. ASSUME NEW v \in Values, SendCommand(v) PROVE Goal
  BY <1>1 DEF SendCommand, Sent
<1>2. CASE FlushAndWrite
  BY <1>2, FlushDrops DEF FlushAndWrite, BufferInv
<1>3. CASE Recv
  BY <1>3, RecvKeeps
<1>4. CASE DropHeartbeat
  <2>1. HeartbeatLen \in 0 .. Len(buf)
    BY <1>4, FrameAssumption, TypeParts DEF DropHeartbeat
  <2> QED BY <1>4, <2>1, ParseDrops DEF DropHeartbeat
<1>5. CASE NeedMore
  BY <1>5 DEF NeedMore, Sent
<1>6. CASE SkipFrame
  <2>1. AduLen(buf) \in 0 .. Len(buf)
    BY <1>6, AduLenIsNat, TypeParts DEF SkipFrame
  <2> QED BY <1>6, <2>1, ParseDrops DEF SkipFrame
<1>7. CASE DropByte
  BY <1>7, TailDrops, ParseDrops
<1>8. CASE TakeReply
  <2>1. CASE Fail
    BY <2>1, FailDrops
  <2>2. CASE ~Fail
    BY <1>8, <2>2, ReplyDrops DEF TakeReply
  <2> QED BY <2>1, <2>2
<1>9. CASE Timeout
  BY <1>9, FailDrops DEF Timeout
<1>10. CASE CarryOut
  <2> DEFINE f == Echo(requests[1][1], requests[1][2])
  <2>1. requests # <<>> /\ f \in Frames /\ incoming' = incoming \o Stream(f) /\ buf' = buf
    BY <1>10, HeadRequest DEF CarryOut
  <2>2. f.tid = requests[1][1]
    BY DEF Echo
  <2>3. Adds(Sent, Sent', f)
    BY <2>1, FrameAdds
  <2> HIDE DEF f
  <2> QED BY <2>1, <2>2, <2>3
<1>11. CASE VehicleFault
  <2> DEFINE f == Refusal(requests[1][1])
  <2>1. requests # <<>> /\ f \in Frames /\ buf' = buf
        /\ (incoming' = incoming \o Stream(f) \/ incoming' = incoming)
    BY <1>11, HeadRequest DEF VehicleFault
  <2>2. f.tid = requests[1][1]
    BY DEF Refusal
  <2>3. CASE incoming' = incoming \o Stream(f)
    <3>1. Adds(Sent, Sent', f)
      BY <2>1, <2>3, FrameAdds
    <3> HIDE DEF f
    <3> QED BY <2>1, <2>2, <3>1
  <2>4. CASE incoming' = incoming
    BY <2>1, <2>4 DEF Sent
  <2> QED BY <2>1, <2>3, <2>4
<1>12. CASE PushHeartbeat
  <2>1. Adds(Sent, Sent', Beat)
    BY <1>12, BeatIsFrame, FrameAdds DEF PushHeartbeat
  <2>2. Beat.kind = "beat"
    BY DEF Beat
  <2> QED BY <2>1, <2>2, BeatIsFrame
<1>13. CASE LineFails
  BY <1>13, FailDrops DEF LineFails
<1>14. CASE Abandon
  BY <1>14, ReplyDrops DEF Abandon
<1>15. CASE UNCHANGED vars
  BY <1>15 DEF vars, Sent
<1> QED BY <1>1, <1>2, <1>3, <1>4, <1>5, <1>6, <1>7, <1>8, <1>9, <1>10, <1>11, <1>12,
           <1>13, <1>14, <1>15 DEF Next, Client

LEMMA FramedStep ==
  ASSUME TypeOK, TypeOK', BufferInv, Framed(Sent), [Next]_vars
  PROVE  Framed(Sent')
<1>1. Sent \in Seq(Byte) /\ Sent' \in Seq(Byte)
  BY SeqParts DEF TypeOK, Sent
<1>2. Framed(<<>>)
  BY DEF Framed
<1>3. \/ Sent' = Sent
      \/ \E n \in 0 .. Len(Sent) : Drops(Sent, Sent', n)
      \/ \E f \in Frames : /\ Adds(Sent, Sent', f)
                           /\ f.kind = "beat" \/ (requests # <<>> /\ f.tid = requests[1][1])
      \/ Sent' = <<>>
  BY SentStep
<1>4. ASSUME NEW n \in 0 .. Len(Sent), Drops(Sent, Sent', n) PROVE Framed(Sent')
  BY <1>1, <1>4, FramedDrops
<1>5. ASSUME NEW f \in Frames, Adds(Sent, Sent', f) PROVE Framed(Sent')
  BY <1>1, <1>5, FramedAdds
<1>6. CASE Sent' = Sent
  BY <1>6
<1>7. CASE Sent' = <<>>
  BY <1>2, <1>7
<1> QED BY <1>3, <1>4, <1>5, <1>6, <1>7

LEMMA BufferStep ==
  ASSUME TypeOK, BufferInv, [Next]_vars
  PROVE  BufferInv'
<1>1. \/ buf' = <<>>
      \/ pc' = "parse"
      \/ pc' = "recv" /\ buf' = buf /\ Incomplete(buf)
  <2>1. CASE NeedMore
    BY <2>1 DEF NeedMore, Incomplete
  <2>2. CASE Recv \/ DropHeartbeat \/ SkipFrame \/ DropByte
    BY <2>2 DEF Recv, DropHeartbeat, SkipFrame, DropByte
  <2>3. CASE \/ FlushAndWrite \/ TakeReply \/ Timeout \/ LineFails \/ Abandon
             \/ \E v \in Values : SendCommand(v)
    BY <2>3 DEF FlushAndWrite, TakeReply, Timeout, LineFails, Abandon, SendCommand, Fail, BufferInv
  <2>4. CASE CarryOut \/ VehicleFault \/ PushHeartbeat \/ UNCHANGED vars
    <3>1. pc' = pc /\ buf' = buf
      BY <2>4 DEF CarryOut, VehicleFault, PushHeartbeat, vars
    <3> QED BY <3>1 DEF BufferInv, TypeOK
  <2> QED BY <2>1, <2>2, <2>3, <2>4 DEF Next, Client
<1>2. Incomplete(buf)' <=> Incomplete(buf')
  BY DEF Incomplete, StartsHeartbeat, LooksLikeFrame, AduLen, HasHeader, WordAt, At
<1> QED BY <1>1, <1>2 DEF BufferInv

LEMMA OwnStep ==
  ASSUME TypeOK, OwnIsLast, [Next]_vars
  PROVE  OwnIsLast'
<1>1. CASE FlushAndWrite
  <2>1. requests \in Seq((1 .. LastTid) \X Values) /\ <<tid, value>> \in (1 .. LastTid) \X Values
    BY DEF TypeOK
  <2>2. /\ requests' = Append(requests, <<tid, value>>) /\ tid' = tid /\ value' = value
    BY <1>1 DEF FlushAndWrite
  <2>3. Len(requests') = Len(requests) + 1 /\ requests'[Len(requests) + 1] = <<tid, value>>
    BY <2>1, <2>2, AppendProperties
  <2> QED BY <2>2, <2>3 DEF OwnIsLast
<1>2. CASE CarryOut \/ VehicleFault
  <2>1. requests # <<>> /\ requests' = Tail(requests) /\ tid' = tid /\ value' = value /\ pc' = pc
    BY <1>2 DEF CarryOut, VehicleFault, bounds
  <2>2. ASSUME requests' # <<>>
        PROVE  requests'[Len(requests')] = requests[Len(requests)]
    <3>1. requests' \in Seq((1 .. LastTid) \X Values)
      BY <2>1, HeadRequest
    <3>2. Len(requests') \in 1 .. Len(requests')
      BY <2>2, <3>1
    <3> QED BY <2>1, <3>2, HeadRequest
  <2> QED BY <2>1, <2>2 DEF OwnIsLast, Receiving
<1>3. CASE TakeReply \/ Timeout \/ LineFails \/ Abandon
  BY <1>3 DEF OwnIsLast, Receiving, TakeReply, Timeout, LineFails, Abandon, Fail
<1>4. CASE Recv \/ DropHeartbeat \/ NeedMore \/ SkipFrame \/ DropByte \/ PushHeartbeat
           \/ UNCHANGED vars
  BY <1>4 DEF OwnIsLast, Receiving, Recv, DropHeartbeat, NeedMore, SkipFrame, DropByte,
              PushHeartbeat, vars
<1>5. ASSUME NEW v \in Values, SendCommand(v) PROVE OwnIsLast'
  BY <1>5 DEF OwnIsLast, Receiving, SendCommand
<1> QED BY <1>1, <1>2, <1>3, <1>4, <1>5 DEF Next, Client

LEMMA FrameStep == FrameInv /\ [Next]_vars => FrameInv'
  BY TypeStep, WritesStep, FramedStep, BufferStep, OwnStep DEF FrameInv

LEMMA FrameInit == Init => FrameInv
<1> SUFFICES ASSUME Init PROVE FrameInv
  OBVIOUS
<1>1. TypeOK
  <2>1. buf \in Seq(Byte) /\ incoming \in Seq(Byte)
        /\ requests \in Seq((1 .. LastTid) \X Values)
    BY DEF Init
  <2>2. writes \in 0 .. MaxWrites /\ beats \in 0 .. MaxBeats
        /\ faults \in 0 .. MaxFaults /\ abandons \in 0 .. MaxAbandons
    BY BoundAssumption DEF Init
  <2>3. /\ pc = "idle" /\ sock = FALSE /\ tid \in 1 .. LastTid /\ value \in Values
        /\ result = "none" /\ register \in Values /\ cut = "no" /\ answered = FALSE
    BY FrameAssumption DEF Init
  <2> QED BY <2>1, <2>2, <2>3 DEF TypeOK, Outcomes
<1>2. Sent = <<>>
  BY ConcatEmptySeq DEF Init, Sent
<1> QED BY <1>1, <1>2 DEF Init, FrameInv, Framed, BufferInv, WritesLeft, OwnIsLast, Receiving

-----------------------------------------------------------------------------
(* What the parser meets at the head of the stream.                        *)

LEMMA Word ==
  ASSUME NEW n \in Nat
  PROVE  High(n) \in Nat /\ Low(n) \in 0 .. 255 /\ High(n) * 256 + Low(n) = n
  BY DEF High, Low

LEMMA BeatBytes ==
  ASSUME NEW f \in Frames, f.kind = "beat"
  PROVE  /\ FrameLen(f) = HeartbeatLen /\ BytesOf(f)[1] = HeartbeatHead
         /\ \A q \in 2 .. HeartbeatLen : BytesOf(f)[q] = Filler
<1>1. BytesOf(f) = [i \in 1 .. HeartbeatLen |-> IF i = 1 THEN HeartbeatHead ELSE Filler]
  BY DEF BytesOf
<1>2. HeartbeatLen \in Nat /\ HeartbeatLen >= 5
  BY FrameAssumption
<1>3. BytesOf(f)[1] = HeartbeatHead
  BY <1>1, <1>2
<1>4. \A q \in 2 .. HeartbeatLen : BytesOf(f)[q] = Filler
  BY <1>1, <1>2
<1>5. FrameLen(f) = HeartbeatLen
  BY DEF FrameLen
<1> QED BY <1>3, <1>4, <1>5

LEMMA ReplyBytes ==
  ASSUME NEW f \in Frames, f.kind # "beat"
  PROVE  /\ BytesOf(f)[1] = High(f.tid) /\ BytesOf(f)[2] = Low(f.tid)
         /\ BytesOf(f)[3] = 0 /\ BytesOf(f)[4] = 0 /\ BytesOf(f)[5] = 0
         /\ BytesOf(f)[6] = FrameLen(f) - 6 /\ BytesOf(f)[7] = UnitId
         /\ FrameLen(f) = 9 => BytesOf(f)[8] = 134 /\ BytesOf(f)[9] = 4
         /\ FrameLen(f) \in {9, 12} /\ (f.kind = "echo" <=> FrameLen(f) = 12)
<1>1. CASE f.kind = "echo"
  <2>1. BytesOf(f) = <<High(f.tid), Low(f.tid), 0, 0, 0, 6, UnitId, 6,
           High(ControlAddr), Low(ControlAddr), High(f.value), Low(f.value)>>
    BY <1>1 DEF BytesOf
  <2> QED BY <1>1, <2>1 DEF FrameLen
<1>2. CASE f.kind = "refusal"
  <2>1. BytesOf(f) = <<High(f.tid), Low(f.tid), 0, 0, 0, 3, UnitId, 134, 4>>
    BY <1>2 DEF BytesOf
  <2> QED BY <1>2, <2>1 DEF FrameLen
<1> QED BY <1>1, <1>2, FrameKinds

LEMMA EchoBytes ==
  ASSUME NEW f \in Frames, f.kind = "echo"
  PROVE  /\ BytesOf(f)[8] = 6
         /\ BytesOf(f)[9] = High(ControlAddr) /\ BytesOf(f)[10] = Low(ControlAddr)
         /\ BytesOf(f)[11] = High(f.value) /\ BytesOf(f)[12] = Low(f.value)
<1>1. BytesOf(f) = <<High(f.tid), Low(f.tid), 0, 0, 0, 6, UnitId, 6,
           High(ControlAddr), Low(ControlAddr), High(f.value), Low(f.value)>>
  BY DEF BytesOf
<1> QED BY <1>1

\* The rest of the frame at the head of the stream, and the frame behind it.
Rest(s) == FrameLen(s[1][1]) - s[1][2] + 1

LEMMA HeadOfStream ==
  ASSUME NEW s \in Seq(Byte), Framed(s), s # <<>>
  PROVE  /\ s[1][1] \in Frames /\ s[1][2] \in 1 .. FrameLen(s[1][1])
         /\ Rest(s) \in 1 .. FrameLen(s[1][1]) /\ Rest(s) <= Len(s)
         /\ \A k \in 1 .. Rest(s) : s[k] = <<s[1][1], s[1][2] + k - 1>>
         /\ Rest(s) < Len(s) => \E g \in Frames :
              /\ Rest(s) + FrameLen(g) <= Len(s)
              /\ \A q \in 1 .. FrameLen(g) : s[Rest(s) + q] = <<g, q>>
<1> DEFINE f == s[1][1]
           p == s[1][2]
           r == FrameLen(f) - p + 1
<1>1. Len(s) \in Nat /\ Len(s) >= 1 /\ s[1] \in Byte /\ 1 \in 1 .. Len(s)
  OBVIOUS
<1>2. f \in Frames /\ p \in 1 .. FrameLen(f) /\ FrameLen(f) \in Nat
  BY <1>1, ByteParts, FrameKinds
<1>3. r \in 1 .. FrameLen(f)
  BY <1>2
<1>4. /\ (1 - p) + FrameLen(f) <= Len(s)
      /\ \A q \in 1 .. FrameLen(f) : (1 - p) + q >= 1 => s[(1 - p) + q] = <<f, q>>
      /\ (1 - p) + FrameLen(f) < Len(s) => s[(1 - p) + FrameLen(f) + 1][2] = 1
  BY <1>1 DEF Framed
<1>5. ASSUME NEW k \in 1 .. r PROVE s[k] = <<f, p + k - 1>>
  <2>1. p + k - 1 \in 1 .. FrameLen(f) /\ (1 - p) + (p + k - 1) = k
    BY <1>2, <1>3
  <2>2. (1 - p) + (p + k - 1) >= 1
    BY <2>1, <1>3
  <2>3. s[(1 - p) + (p + k - 1)] = <<f, p + k - 1>>
    BY <1>4, <2>1, <2>2
  <2> QED BY <2>1, <2>3
<1>6. ASSUME r < Len(s)
      PROVE  \E g \in Frames : /\ r + FrameLen(g) <= Len(s)
                               /\ \A q \in 1 .. FrameLen(g) : s[r + q] = <<g, q>>
  <2> DEFINE g == s[r + 1][1]
  <2>1. r + 1 \in 1 .. Len(s) /\ s[r + 1] \in Byte /\ s[r + 1][2] = 1
    <3>1. r + 1 = (1 - p) + FrameLen(f) + 1 /\ r = (1 - p) + FrameLen(f)
      BY <1>2
    <3>2. r + 1 \in 1 .. Len(s)
      BY <1>1, <1>3, <1>6
    <3> QED BY <1>4, <1>6, <3>1, <3>2
  <2>2. g \in Frames /\ FrameLen(g) \in Nat
    BY <2>1, ByteParts, FrameKinds
  <2>3. (r + 1) - s[r + 1][2] = r
    BY <1>3, <2>1
  <2>4. /\ r + FrameLen(g) <= Len(s)
        /\ \A q \in 1 .. FrameLen(g) : r + q >= 1 => s[r + q] = <<g, q>>
    BY <2>1, <2>3 DEF Framed
  <2>5. \A q \in 1 .. FrameLen(g) : r + q >= 1
    BY <1>3, <2>2
  <2> QED BY <2>2, <2>4, <2>5
<1>7. r <= Len(s)
  BY <1>2, <1>4
<1>8. Rest(s) = r
  BY DEF Rest
<1> HIDE DEF r
<1> QED BY <1>2, <1>3, <1>5, <1>6, <1>7, <1>8

\* The head of the stream is the head of the buffer.
LEMMA HeadOfBuffer ==
  ASSUME FrameInv, buf # <<>>
  PROVE  /\ Sent # <<>> /\ Sent \in Seq(Byte) /\ Framed(Sent)
         /\ \A k \in 1 .. Len(buf) : At(buf, k) = At(Sent, k)
         /\ Len(buf) \in Nat /\ Len(buf) >= 1 /\ Len(buf) <= Len(Sent)
<1>1. TypeOK /\ Framed(Sent)
  BY DEF FrameInv
<1>2. Len(buf) # 0
  BY <1>1, TypeParts, EmptySeq
<1>3. Sent # <<>> /\ Len(buf) <= Len(Sent) /\ Len(buf) >= 1
  BY <1>1, <1>2, TypeParts
<1> QED BY <1>1, <1>3, TypeParts DEF At

\* A frame that begins at the head is told from the others.
LEMMA FrameAtHead ==
  ASSUME FrameInv, buf # <<>>, Sent[1][2] = 1, NEW f, f = Sent[1][1],
         f.kind # "beat" => High(f.tid) # HeartbeatHead
  PROVE  /\ f \in Frames /\ FrameLen(f) <= Len(Sent)
         /\ FrameLen(f) < Len(Sent) => Sent[FrameLen(f) + 1][2] = 1
         /\ Sent[1] = <<f, 1>>
         /\ StartsHeartbeat(buf) <=> f.kind = "beat"
         /\ f.kind # "beat" /\ Len(buf) >= 7 =>
              /\ LooksLikeFrame(buf) /\ AduLen(buf) = FrameLen(f)
              /\ Matches(buf) <=> f.tid = tid
<1>1. /\ Sent \in Seq(Byte) /\ Framed(Sent) /\ Sent # <<>>
      /\ \A k \in 1 .. Len(buf) : At(buf, k) = At(Sent, k)
      /\ Len(buf) \in Nat /\ Len(buf) >= 1 /\ Len(buf) <= Len(Sent)
  BY HeadOfBuffer
<1>2. f \in Frames /\ FrameLen(f) \in Nat /\ FrameLen(f) >= 5
  <2>1. 1 \in 1 .. Len(Sent) /\ Sent[1] \in Byte
    BY <1>1
  <2> QED BY <2>1, ByteParts, FrameKinds
<1>3. FrameLen(f) = FrameLen(f) - 1 + 1
  BY <1>2
<1>4. /\ FrameLen(f) <= Len(Sent) /\ \A k \in 1 .. FrameLen(f) : Sent[k] = <<f, 1 + k - 1>>
      /\ FrameLen(f) < Len(Sent) => \E g \in Frames :
           /\ FrameLen(f) + FrameLen(g) <= Len(Sent)
           /\ \A q \in 1 .. FrameLen(g) : Sent[FrameLen(f) + q] = <<g, q>>
  <2>1. Rest(Sent) = FrameLen(f)
    BY <1>3 DEF Rest
  <2>2. /\ Rest(Sent) <= Len(Sent)
        /\ \A k \in 1 .. Rest(Sent) : Sent[k] = <<Sent[1][1], Sent[1][2] + k - 1>>
        /\ Rest(Sent) < Len(Sent) => \E g \in Frames :
             /\ Rest(Sent) + FrameLen(g) <= Len(Sent)
             /\ \A q \in 1 .. FrameLen(g) : Sent[Rest(Sent) + q] = <<g, q>>
    BY <1>1, HeadOfStream
  <2> QED BY <2>1, <2>2
<1>5. \A k \in 1 .. FrameLen(f) : Sent[k] = <<f, k>> /\ At(Sent, k) = BytesOf(f)[k]
  BY <1>2, <1>4 DEF At
<1>6. FrameLen(f) < Len(Sent) => Sent[FrameLen(f) + 1][2] = 1
  <2> SUFFICES ASSUME FrameLen(f) < Len(Sent) PROVE Sent[FrameLen(f) + 1][2] = 1
    OBVIOUS
  <2>1. PICK g \in Frames : \A q \in 1 .. FrameLen(g) : Sent[FrameLen(f) + q] = <<g, q>>
    BY <1>4
  <2>2. 1 \in 1 .. FrameLen(g)
    BY FrameKinds
  <2> QED BY <2>1, <2>2
<1>7. Sent[1] = <<f, 1>> /\ At(buf, 1) = BytesOf(f)[1]
  <2>1. 1 \in 1 .. FrameLen(f) /\ 1 \in 1 .. Len(buf)
    BY <1>1, <1>2
  <2> QED BY <1>1, <1>5, <2>1
<1>8. StartsHeartbeat(buf) <=> f.kind = "beat"
  BY <1>1, <1>2, <1>7, BeatBytes, ReplyBytes DEF StartsHeartbeat
<1>9. ASSUME f.kind # "beat", Len(buf) >= 7
      PROVE  LooksLikeFrame(buf) /\ AduLen(buf) = FrameLen(f) /\ (Matches(buf) <=> f.tid = tid)
  <2>1. FrameLen(f) \in {9, 12}
    BY <1>2, <1>9, ReplyBytes
  <2>2. \A k \in 1 .. 7 : At(buf, k) = BytesOf(f)[k]
    BY <1>1, <1>5, <1>9, <2>1
  <2>3. /\ At(buf, 1) = High(f.tid) /\ At(buf, 2) = Low(f.tid) /\ At(buf, 3) = 0
        /\ At(buf, 4) = 0 /\ At(buf, 5) = 0 /\ At(buf, 6) = FrameLen(f) - 6
        /\ At(buf, 7) = UnitId
    BY <1>2, <1>9, <2>2, ReplyBytes
  <2>4. WordAt(buf, 1) = f.tid
    <3>1. f.tid \in Nat
      BY <1>2, FrameKinds
    <3>2. High(f.tid) * 256 + Low(f.tid) = f.tid
      BY <3>1, Word
    <3> QED BY <2>3, <3>2 DEF WordAt
  <2>5. WordAt(buf, 3) = 0 /\ WordAt(buf, 5) = FrameLen(f) - 6
    BY <2>1, <2>3 DEF WordAt
  <2>6. LooksLikeFrame(buf)
    <3>1. HasHeader(buf)
      BY <1>8, <1>9 DEF HasHeader
    <3>2. WordAt(buf, 5) \in 2 .. 260
      <4>1. WordAt(buf, 5) = 3 \/ WordAt(buf, 5) = 6
        BY <2>1, <2>5
      <4> QED BY <4>1
    <3> QED BY <2>5, <3>1, <3>2 DEF LooksLikeFrame
  <2> QED BY <2>1, <2>3, <2>4, <2>5, <2>6 DEF AduLen, Matches
<1> QED BY <1>2, <1>4, <1>6, <1>7, <1>8, <1>9

\* The rest of a heartbeat is neither.
LEMMA RestAtHead ==
  ASSUME FrameInv, buf # <<>>, Sent[1][2] # 1, NEW f, f = Sent[1][1],
         f.kind = "beat", Filler \notin {0, HeartbeatHead}
  PROVE  /\ ~StartsHeartbeat(buf) /\ ~LooksLikeFrame(buf)
         /\ 1 < Len(Sent) => Sent[2][1] = f \/ Sent[2][2] = 1
<1> DEFINE p == Sent[1][2]
           r == Rest(Sent)
<1>1. /\ Sent \in Seq(Byte) /\ Framed(Sent) /\ Sent # <<>>
      /\ \A k \in 1 .. Len(buf) : At(buf, k) = At(Sent, k)
      /\ Len(buf) \in Nat /\ Len(buf) >= 1 /\ Len(buf) <= Len(Sent)
  BY HeadOfBuffer
<1>2. /\ f \in Frames /\ p \in 1 .. FrameLen(f) /\ r \in 1 .. FrameLen(f) /\ r <= Len(Sent)
      /\ \A k \in 1 .. r : Sent[k] = <<f, p + k - 1>>
      /\ r < Len(Sent) => \E g \in Frames :
           /\ r + FrameLen(g) <= Len(Sent)
           /\ \A q \in 1 .. FrameLen(g) : Sent[r + q] = <<g, q>>
  BY <1>1, HeadOfStream
<1>3. /\ FrameLen(f) = HeartbeatLen /\ \A q \in 2 .. HeartbeatLen : BytesOf(f)[q] = Filler
      /\ HeartbeatLen \in Nat /\ Filler \in Nat /\ Filler > 0
  BY <1>2, BeatBytes, ConstantTypes
<1>4. /\ p >= 2 /\ p <= HeartbeatLen /\ p \in Nat /\ r \in Nat /\ r >= 1
      /\ r = HeartbeatLen - p + 1
  <2>1. r = HeartbeatLen - p + 1 /\ p \in 1 .. HeartbeatLen /\ p # 1
    BY <1>2, <1>3 DEF Rest
  <2> QED BY <1>3, <2>1
<1> HIDE DEF r
<1>5. \A k \in 1 .. r : At(Sent, k) = Filler
  <2> SUFFICES ASSUME NEW k \in 1 .. r PROVE At(Sent, k) = Filler
    OBVIOUS
  <2>1. Sent[k] = <<f, p + k - 1>>
    BY <1>2
  <2>2. p + k - 1 \in 2 .. HeartbeatLen
    BY <1>3, <1>4
  <2> QED BY <1>3, <2>1, <2>2 DEF At
<1>6. ~StartsHeartbeat(buf)
  BY <1>1, <1>4, <1>5 DEF StartsHeartbeat
<1>7. ASSUME 1 < Len(Sent) PROVE Sent[2][1] = f \/ Sent[2][2] = 1
  <2>1. CASE r >= 2
    BY <1>2, <1>4, <2>1
  <2>2. CASE r = 1
    <3>1. PICK g \in Frames : \A q \in 1 .. FrameLen(g) : Sent[r + q] = <<g, q>>
      BY <1>2, <1>7, <2>2
    <3>2. 1 \in 1 .. FrameLen(g)
      BY FrameKinds
    <3>3. Sent[r + 1] = <<g, 1>>
      BY <3>1, <3>2
    <3> QED BY <2>2, <3>3
  <2> QED BY <1>4, <2>1, <2>2
<1>8. ASSUME LooksLikeFrame(buf) PROVE FALSE
  <2>1. Len(buf) >= 7 /\ WordAt(buf, 3) = 0 /\ WordAt(buf, 5) >= 2
    BY <1>8, LooksLikeParts
  <2>2. CASE r >= 3
    <3>1. At(buf, 3) = Filler
      BY <1>1, <1>4, <1>5, <2>1, <2>2
    <3>2. At(buf, 4) \in Nat
      <4>1. 4 \in 1 .. Len(Sent) /\ 4 \in 1 .. Len(buf)
        BY <1>1, <2>1
      <4>2. Sent[4] \in Byte
        BY <1>1, <4>1
      <4>3. At(Sent, 4) \in Nat
        BY <4>2, ByteParts, BytesOfFrame DEF At
      <4> QED BY <1>1, <4>1, <4>3
    <3> QED BY <1>3, <2>1, <3>1, <3>2 DEF WordAt
  <2>3. CASE r < 3
    <3>1. PICK g \in Frames : /\ r + FrameLen(g) <= Len(Sent)
                              /\ \A q \in 1 .. FrameLen(g) : Sent[r + q] = <<g, q>>
      BY <1>1, <1>2, <1>4, <2>1, <2>3
    <3>2. FrameLen(g) \in Nat /\ FrameLen(g) >= 5
      BY FrameKinds
    <3>3. \A q \in 1 .. 4 : r + q <= Len(buf) /\ At(buf, r + q) = BytesOf(g)[q]
      <4> SUFFICES ASSUME NEW q \in 1 .. 4
                   PROVE  r + q <= Len(buf) /\ At(buf, r + q) = BytesOf(g)[q]
        OBVIOUS
      <4>1. q \in 1 .. FrameLen(g) /\ r + q \in 1 .. Len(buf)
        BY <1>1, <1>4, <2>1, <2>3, <3>2
      <4>2. Sent[r + q] = <<g, q>>
        BY <3>1, <4>1
      <4>3. At(buf, r + q) = At(Sent, r + q)
        BY <1>1, <4>1
      <4> QED BY <4>1, <4>2, <4>3 DEF At
    <3>4. \A i \in 1 .. 4 : BytesOf(g)[i] \in Nat
      BY <3>2, BytesOfFrame
    <3>5. CASE g.kind = "beat"
      <4>1. BytesOf(g)[1] = 187 /\ BytesOf(g)[2] = Filler /\ BytesOf(g)[3] = Filler
        BY <1>3, <3>5, BeatBytes, FrameAssumption DEF HeartbeatHead
      <4>2. CASE r = 2
        BY <1>3, <2>1, <3>3, <3>4, <4>1, <4>2 DEF WordAt
      <4>3. CASE r = 1
        BY <1>3, <2>1, <3>3, <3>4, <4>1, <4>3 DEF WordAt
      <4> QED BY <1>4, <2>3, <4>2, <4>3
    <3>6. CASE g.kind # "beat"
      <4>1. /\ BytesOf(g)[1] = High(g.tid) /\ BytesOf(g)[2] = Low(g.tid)
            /\ BytesOf(g)[3] = 0 /\ BytesOf(g)[4] = 0 /\ BytesOf(g)[5] = 0
        BY <3>6, ReplyBytes
      <4>2. High(g.tid) * 256 + Low(g.tid) = g.tid /\ g.tid >= 1 /\ g.tid \in Nat
        <5>1. g.tid \in Nat /\ g.tid >= 1
          BY <3>6, FrameKinds, LastTidIsNat
        <5> QED BY <5>1, Word
      <4>3. CASE r = 2
        <5>1. At(buf, 3) = High(g.tid) /\ At(buf, 4) = Low(g.tid)
          BY <3>3, <4>1, <4>3
        <5> QED BY <2>1, <4>2, <5>1 DEF WordAt
      <4>4. CASE r = 1
        <5>1. At(buf, 5) = 0
          BY <3>3, <4>1, <4>4
        <5>2. At(buf, 6) = 0
          <6>1. 5 \in 1 .. FrameLen(g) /\ 6 \in 1 .. Len(buf)
            BY <1>1, <2>1, <3>2
          <6>2. Sent[r + 5] = <<g, 5>> /\ r + 5 = 6
            BY <3>1, <4>4, <6>1
          <6>3. At(buf, 6) = At(Sent, 6)
            BY <1>1, <6>1
          <6> QED BY <4>1, <6>2, <6>3 DEF At
        <5>3. WordAt(buf, 5) = 0
          BY <5>1, <5>2 DEF WordAt
        <5> QED BY <2>1, <5>3
      <4> QED BY <1>4, <2>3, <4>3, <4>4
    <3> QED BY <3>5, <3>6
  <2> QED BY <1>4, <2>2, <2>3
<1> QED BY <1>6, <1>7, <1>8

-----------------------------------------------------------------------------
(* The client stays in step and finds its reply.                           *)

LEMMA RequestsStep ==
  ASSUME TypeOK, [Next]_vars
  PROVE  \/ requests' = requests
         \/ requests # <<>> /\ requests' = Tail(requests)
         \/ pc = "flush" /\ tid' = tid /\ value' = value
              /\ requests' = Append(requests, <<tid, value>>)
         \/ requests' = <<>>
  BY DEF vars, bounds, Next, Client, SendCommand, FlushAndWrite, Recv,
         DropHeartbeat, NeedMore, SkipFrame, DropByte, TakeReply, Fail, Timeout, CarryOut,
         VehicleFault, PushHeartbeat, LineFails, Abandon

\* A frame whose identifier starts like a heartbeat is never taken.
LEMMA MatchesHead ==
  ASSUME FrameInv, buf # <<>>, LooksLikeFrame(buf), Matches(buf)
  PROVE  ~HeartbeatTid
<1>1. At(buf, 1) # HeartbeatHead /\ WordAt(buf, 1) = tid /\ Len(buf) >= 7
  BY LooksLikeParts DEF Matches, StartsHeartbeat
<1>2. At(buf, 1) \in Nat /\ At(buf, 2) \in Nat /\ At(buf, 2) < 256
  <2>1. buf \in Seq(Byte) /\ 1 \in 1 .. Len(buf) /\ 2 \in 1 .. Len(buf)
    BY <1>1, TypeParts DEF FrameInv
  <2>2. buf[1] \in Byte /\ buf[2] \in Byte
    BY <2>1
  <2> QED BY <2>2, ByteParts, BytesOfFrame DEF At
<1>3. tid = At(buf, 1) * 256 + At(buf, 2)
  BY <1>1 DEF WordAt
<1>4. tid \div 256 = At(buf, 1)
  BY <1>2, <1>3
<1> QED BY <1>1, <1>4 DEF HeartbeatTid

LEMMA TidStep ==
  ASSUME FrameInv, [Next]_vars, tid' # tid
  PROVE  /\ TakeReply /\ result' = "ok" /\ ~HeartbeatTid /\ tid' = NextTid
         /\ UNCHANGED <<value, incoming, requests, register, cut, abandons>>
         /\ buf' = <<>> /\ pc' = "idle"
<1>1. TakeReply /\ ~Fail
  BY DEF vars, bounds, Next, Client, SendCommand, FlushAndWrite, Recv,
         DropHeartbeat, NeedMore, SkipFrame, DropByte, TakeReply, Fail, Timeout, CarryOut,
         VehicleFault, PushHeartbeat, LineFails, Abandon
<1>2. LooksLikeFrame(buf) /\ Matches(buf)
  BY <1>1 DEF TakeReply
<1>3. buf # <<>>
  BY <1>2, LooksLikeParts, EmptySeq
<1> QED BY <1>1, <1>2, <1>3, MatchesHead DEF TakeReply

LEMMA HeadsStep ==
  ASSUME FrameInv, HeadsDiffer, [Next]_vars
  PROVE  HeadsDiffer'
<1> SUFFICES ASSUME ~HeartbeatTid'
             PROVE  /\ \A i \in 1 .. Len(Sent') :
                         Sent'[i][1].kind # "beat" => High(Sent'[i][1].tid) # HeartbeatHead
                    /\ \A j \in 1 .. Len(requests') : High(requests'[j][1]) # HeartbeatHead
  BY DEF HeadsDiffer, Places
<1>1. ~HeartbeatTid
  BY TidStep DEF HeartbeatTid
<1>2. /\ \A i \in 1 .. Len(Sent) :
           Sent[i][1].kind # "beat" => High(Sent[i][1].tid) # HeartbeatHead
      /\ \A j \in 1 .. Len(requests) : High(requests[j][1]) # HeartbeatHead
  BY <1>1 DEF HeadsDiffer, Places
<1>3. TypeOK /\ BufferInv /\ Sent \in Seq(Byte) /\ Len(Sent) \in Nat
      /\ requests \in Seq((1 .. LastTid) \X Values)
  BY TypeParts DEF FrameInv, TypeOK
<1>4. ASSUME NEW i \in 1 .. Len(Sent'), Sent'[i][1].kind # "beat"
      PROVE  High(Sent'[i][1].tid) # HeartbeatHead
  <2>1. CASE Sent' = Sent
    BY <1>2, <1>4, <2>1
  <2>2. ASSUME NEW n \in 0 .. Len(Sent), Drops(Sent, Sent', n)
        PROVE  High(Sent'[i][1].tid) # HeartbeatHead
    <3>1. i + n \in 1 .. Len(Sent) /\ Sent'[i] = Sent[i + n]
      BY <1>3, <2>2 DEF Drops
    <3> QED BY <1>2, <1>4, <3>1
  <2>3. ASSUME NEW f \in Frames, Adds(Sent, Sent', f),
               f.kind = "beat" \/ (requests # <<>> /\ f.tid = requests[1][1])
        PROVE  High(Sent'[i][1].tid) # HeartbeatHead
    <3>1. FrameLen(f) \in Nat /\ Len(Sent') = Len(Sent) + FrameLen(f)
      BY <2>3, FrameKinds DEF Adds
    <3>2. CASE i <= Len(Sent)
      <4>1. i \in 1 .. Len(Sent) /\ Sent'[i] = Sent[i]
        BY <1>3, <2>3, <3>1, <3>2 DEF Adds
      <4> QED BY <1>2, <1>4, <4>1
    <3>3. CASE i > Len(Sent)
      <4>1. i - Len(Sent) \in 1 .. FrameLen(f) /\ Len(Sent) + (i - Len(Sent)) = i
        BY <1>3, <3>1, <3>3
      <4>2. Sent'[i] = <<f, i - Len(Sent)>>
        BY <2>3, <4>1 DEF Adds
      <4>3. requests # <<>> /\ f.tid = requests[1][1]
        BY <1>4, <2>3, <4>2
      <4>4. 1 \in 1 .. Len(requests)
        BY <1>3, <4>3
      <4> QED BY <1>2, <4>2, <4>3, <4>4
    <3> QED BY <1>3, <3>2, <3>3
  <2>4. CASE Sent' = <<>>
    BY <2>4
  <2>5. \/ Sent' = Sent
        \/ \E n \in 0 .. Len(Sent) : Drops(Sent, Sent', n)
        \/ \E f \in Frames : /\ Adds(Sent, Sent', f)
                             /\ f.kind = "beat" \/ (requests # <<>> /\ f.tid = requests[1][1])
        \/ Sent' = <<>>
    BY <1>3, SentStep
  <2> QED BY <2>1, <2>2, <2>3, <2>4, <2>5
<1>5. ASSUME NEW j \in 1 .. Len(requests')
      PROVE  High(requests'[j][1]) # HeartbeatHead
  <2>1. CASE requests' = requests
    BY <1>2, <2>1
  <2>2. CASE requests # <<>> /\ requests' = Tail(requests)
    <3>1. j + 1 \in 1 .. Len(requests) /\ requests'[j] = requests[j + 1]
      BY <1>3, <2>2, HeadRequest
    <3> QED BY <1>2, <3>1
  <2>3. CASE tid' = tid /\ value' = value /\ requests' = Append(requests, <<tid, value>>)
    <3>1. <<tid, value>> \in (1 .. LastTid) \X Values
      BY <1>3 DEF TypeOK
    <3>2. j \in 1 .. Len(requests) \/ j = Len(requests) + 1
      BY <1>3, <2>3, <3>1, AppendProperties
    <3>3. CASE j \in 1 .. Len(requests)
      BY <1>2, <1>3, <2>3, <3>1, <3>3, AppendProperties
    <3>4. CASE j = Len(requests) + 1
      <4>1. requests'[j] = <<tid, value>>
        BY <1>3, <2>3, <3>1, <3>4, AppendProperties
      <4> QED BY <1>1, <4>1 DEF HeartbeatTid, High
    <3> QED BY <3>2, <3>3, <3>4
  <2>4. CASE requests' = <<>>
    BY <2>4
  <2> QED BY <1>3, <2>1, <2>2, <2>3, <2>4, RequestsStep
<1> QED BY <1>4, <1>5

\* Where the parser stands while it is in step.
Aligned == Receiving /\ ~HeartbeatTid /\ (cut = "no" \/ BeatIsSkipped)

LEMMA AlignedHead ==
  ASSUME FrameInv, HeadsDiffer, InStep, Aligned, Sent # <<>>
  PROVE  /\ Sent \in Seq(Byte) /\ 1 \in 1 .. Len(Sent) /\ Sent[1][1] \in Frames
         /\ Sent[1][1].kind # "beat" => High(Sent[1][1].tid) # HeartbeatHead
         /\ Sent[1][2] = 1 \/ (BeatIsSkipped /\ Sent[1][1].kind = "beat")
<1>1. Sent \in Seq(Byte)
  BY TypeParts DEF FrameInv
<1>2. 1 \in 1 .. Len(Sent) /\ Sent[1] \in Byte
  BY <1>1
<1>3. Sent[1][1] \in Frames
  BY <1>2, ByteParts
<1> QED BY <1>1, <1>2, <1>3 DEF Aligned, HeadsDiffer, InStep, Places

\* The parser deals with the frame at the head as what it is.
LEMMA AlignedParse ==
  ASSUME FrameInv, HeadsDiffer, InStep, Aligned, buf # <<>>
  PROVE  LET f == Sent[1][1]
         IN  /\ StartsHeartbeat(buf) => f.kind = "beat" /\ Sent[1] = <<f, 1>>
             /\ LooksLikeFrame(buf) => /\ f.kind # "beat" /\ Sent[1] = <<f, 1>>
                                       /\ AduLen(buf) = FrameLen(f)
                                       /\ Matches(buf) <=> f.tid = tid
             /\ HasHeader(buf) /\ ~LooksLikeFrame(buf) =>
                  BeatIsSkipped /\ f.kind = "beat" /\ (1 < Len(Sent) => Sent[2][1] = f \/ Sent[2][2] = 1)
             /\ Sent[1][2] = 1 => /\ FrameLen(f) <= Len(Sent)
                                  /\ FrameLen(f) < Len(Sent) => Sent[FrameLen(f) + 1][2] = 1
<1> DEFINE f == Sent[1][1]
<1>1. Sent # <<>>
  BY HeadOfBuffer
<1>2. /\ f.kind # "beat" => High(f.tid) # HeartbeatHead
      /\ Sent[1][2] = 1 \/ (BeatIsSkipped /\ f.kind = "beat")
  BY <1>1, AlignedHead
<1>3. CASE Sent[1][2] = 1
  <2>1. /\ FrameLen(f) <= Len(Sent)
        /\ FrameLen(f) < Len(Sent) => Sent[FrameLen(f) + 1][2] = 1
        /\ Sent[1] = <<f, 1>>
        /\ StartsHeartbeat(buf) <=> f.kind = "beat"
        /\ f.kind # "beat" /\ Len(buf) >= 7 =>
             LooksLikeFrame(buf) /\ AduLen(buf) = FrameLen(f) /\ (Matches(buf) <=> f.tid = tid)
    BY <1>2, <1>3, FrameAtHead
  <2>2. LooksLikeFrame(buf) => Len(buf) >= 7 /\ ~StartsHeartbeat(buf)
    BY LooksLikeParts
  <2>3. HasHeader(buf) => Len(buf) >= 7 /\ ~StartsHeartbeat(buf)
    BY DEF HasHeader
  <2> QED BY <1>3, <2>1, <2>2, <2>3
<1>4. CASE Sent[1][2] # 1
  <2>1. f.kind = "beat" /\ Filler \notin {0, HeartbeatHead}
    BY <1>2, <1>4 DEF BeatIsSkipped
  <2>2. /\ ~StartsHeartbeat(buf) /\ ~LooksLikeFrame(buf)
        /\ 1 < Len(Sent) => Sent[2][1] = f \/ Sent[2][2] = 1
    BY <1>4, <2>1, RestAtHead
  <2> QED BY <1>2, <1>4, <2>1, <2>2
<1> QED BY <1>3, <1>4

LEMMA ParsedBuffer ==
  ASSUME DropHeartbeat \/ SkipFrame \/ DropByte
  PROVE  buf # <<>>
<1>1. Len(buf) # 0
  BY LooksLikeParts DEF DropHeartbeat, SkipFrame, DropByte, HasHeader, StartsHeartbeat
<1> QED BY <1>1, EmptySeq

LEMMA InStepStep ==
  ASSUME FrameInv, FrameInv', HeadsDiffer, InStep, [Next]_vars
  PROVE  InStep'
<1> SUFFICES ASSUME Aligned', Sent' # <<>>
             PROVE  Sent'[1][2] = 1 \/ (cut' = "beat" /\ Sent'[1][1].kind = "beat")
  BY DEF InStep, Aligned, BeatIsSkipped
<1>1. Sent' \in Seq(Byte) /\ 1 \in 1 .. Len(Sent')
  <2>1. Sent' \in Seq(Byte)
    BY SeqParts DEF FrameInv, TypeOK, Sent
  <2> QED BY <2>1
<1>2. CASE tid' = tid /\ cut' = cut /\ Receiving /\ Sent' = Sent
  BY <1>2 DEF InStep, Aligned, BeatIsSkipped, HeartbeatTid
<1>3. ASSUME NEW f \in Frames, Adds(Sent, Sent', f), tid' = tid, cut' = cut, Receiving
      PROVE  Sent'[1][2] = 1 \/ (cut' = "beat" /\ Sent'[1][1].kind = "beat")
  <2>1. CASE Sent = <<>>
    <3>1. Sent'[0 + 1] = <<f, 1>>
      BY <1>3, <2>1, FrameKinds DEF Adds
    <3> QED BY <3>1
  <2>2. CASE Sent # <<>>
    <3>1. Sent'[1] = Sent[1]
      <4>1. 1 \in 1 .. Len(Sent)
        BY <2>2, TypeParts DEF FrameInv
      <4> QED BY <1>3, <4>1 DEF Adds
    <3> QED BY <1>3, <2>2, <3>1 DEF InStep, Aligned, BeatIsSkipped, HeartbeatTid
  <2> QED BY <2>1, <2>2
<1>4. CASE FlushAndWrite
  <2>1. buf' = <<>> /\ cut' = IF incoming' = <<>> \/ incoming'[1][2] = 1
                             THEN "no" ELSE incoming'[1][1].kind
    BY <1>4 DEF FlushAndWrite
  <2>2. Sent' = incoming'
    <3>1. incoming' \in Seq(Byte)
      BY DEF FrameInv, TypeOK
    <3> QED BY <2>1, <3>1, ConcatEmptySeq DEF Sent
  <2>3. Sent'[1][1].kind # "no"
    BY <1>1, ByteParts, FrameKinds
  <2> QED BY <2>1, <2>2, <2>3 DEF Aligned, BeatIsSkipped
<1>5. CASE DropHeartbeat \/ SkipFrame \/ DropByte
  <2>1. /\ Aligned /\ buf # <<>> /\ cut' = cut
    <3>1. buf # <<>>
      BY <1>5, ParsedBuffer
    <3> QED BY <1>5, <3>1 DEF DropHeartbeat, SkipFrame, DropByte, Aligned, Receiving,
                              BeatIsSkipped, HeartbeatTid
  <2> DEFINE f == Sent[1][1]
  <2>2. /\ StartsHeartbeat(buf) => f.kind = "beat" /\ Sent[1] = <<f, 1>>
        /\ LooksLikeFrame(buf) => f.kind # "beat" /\ Sent[1] = <<f, 1>> /\ AduLen(buf) = FrameLen(f)
        /\ HasHeader(buf) /\ ~LooksLikeFrame(buf) =>
             BeatIsSkipped /\ f.kind = "beat" /\ (1 < Len(Sent) => Sent[2][1] = f \/ Sent[2][2] = 1)
        /\ Sent[1][2] = 1 => (FrameLen(f) < Len(Sent) => Sent[FrameLen(f) + 1][2] = 1)
    BY <2>1, AlignedParse
  <2>3. f \in Frames /\ FrameLen(f) \in Nat
    BY <2>1, HeadOfBuffer, AlignedHead, FrameKinds
  <2>4. ASSUME NEW n \in 0 .. Len(Sent), Drops(Sent, Sent', n)
        PROVE  Sent'[1] = Sent[n + 1] /\ n < Len(Sent)
    BY <1>1, <2>4, TypeParts DEF Drops, FrameInv
  <2>5. CASE DropHeartbeat
    <3>1. StartsHeartbeat(buf) /\ HeartbeatLen \in 0 .. Len(buf)
      BY <2>5, ConstantTypes, TypeParts DEF DropHeartbeat, FrameInv
    <3>2. Drops(Sent, Sent', HeartbeatLen) /\ HeartbeatLen \in 0 .. Len(Sent)
      BY <2>5, <3>1, ParseDrops DEF DropHeartbeat, FrameInv
    <3>3. FrameLen(f) = HeartbeatLen
      BY <2>2, <2>3, <3>1, BeatBytes
    <3>4. Sent[1][2] = 1
      BY <2>2, <3>1
    <3> QED BY <2>2, <2>4, <3>2, <3>3, <3>4
  <2>6. CASE SkipFrame
    <3>1. LooksLikeFrame(buf) /\ AduLen(buf) \in 0 .. Len(buf)
      BY <2>6, AduLenIsNat, TypeParts DEF SkipFrame, FrameInv
    <3>2. Drops(Sent, Sent', AduLen(buf)) /\ AduLen(buf) \in 0 .. Len(Sent)
      BY <2>6, <3>1, ParseDrops DEF SkipFrame, FrameInv
    <3>4. Sent[1][2] = 1 /\ FrameLen(f) = AduLen(buf)
      BY <2>2, <3>1
    <3> QED BY <2>2, <2>4, <3>2, <3>4
  <2>7. CASE DropByte
    <3>1. buf' = From(buf, 1 + 1) /\ 1 \in 0 .. Len(buf) /\ incoming' = incoming
      BY <2>7, TailDrops DEF FrameInv
    <3>2. Drops(Sent, Sent', 1) /\ 1 \in 0 .. Len(Sent)
      BY <3>1, ParseDrops DEF FrameInv
    <3>3. Sent'[1] = Sent[1 + 1] /\ 1 < Len(Sent)
      BY <2>4, <3>2
    <3>4. BeatIsSkipped /\ f.kind = "beat" /\ (Sent[2][1] = f \/ Sent[2][2] = 1)
      BY <2>2, <2>7, <3>3 DEF DropByte
    <3> QED BY <2>1, <3>3, <3>4 DEF BeatIsSkipped
  <2> QED BY <1>5, <2>5, <2>6, <2>7
<1>6. CASE Recv \/ NeedMore \/ UNCHANGED vars
  <2>1. Sent' = Sent /\ tid' = tid /\ cut' = cut /\ Receiving
    BY <1>6, RecvKeeps DEF FrameInv, Recv, NeedMore, vars, Sent, Receiving, Aligned
  <2> QED BY <1>2, <2>1
<1>7. CASE CarryOut \/ VehicleFault \/ PushHeartbeat
  <2>1. tid' = tid /\ cut' = cut /\ Receiving
    BY <1>7 DEF CarryOut, VehicleFault, PushHeartbeat, Receiving, Aligned, bounds
  <2>2. Sent' = Sent \/ \E f \in Frames : Adds(Sent, Sent', f)
    BY <1>7, HeadRequest, BeatIsFrame, FrameAdds
       DEF CarryOut, VehicleFault, PushHeartbeat, Sent, FrameInv
  <2> QED BY <1>2, <1>3, <2>1, <2>2
<1>8. CASE TakeReply \/ Timeout \/ LineFails \/ Abandon \/ \E v \in Values : SendCommand(v)
  BY <1>8 DEF TakeReply, Timeout, LineFails, Abandon, SendCommand, Fail, Aligned, Receiving
<1> QED BY <1>4, <1>5, <1>6, <1>7, <1>8 DEF Next, Client

LEMMA BehindHead ==
  ASSUME FrameInv, NEW f \in Frames, NEW i \in Places, Sent[1] = <<f, 1>>, Sent[i][1] # f
  PROVE  i > FrameLen(f)
<1> SUFFICES ASSUME ~(i > FrameLen(f)) PROVE FALSE
  OBVIOUS
<1>1. Sent \in Seq(Byte) /\ Framed(Sent) /\ Sent # <<>>
  BY TypeParts DEF FrameInv, Places
<1>2. FrameLen(f) \in Nat /\ FrameLen(f) >= 5
  BY FrameKinds
<1>3. Rest(Sent) = FrameLen(f)
  BY <1>2 DEF Rest
<1>4. \A k \in 1 .. Rest(Sent) : Sent[k] = <<Sent[1][1], Sent[1][2] + k - 1>>
  BY <1>1, HeadOfStream
<1>5. i \in 1 .. Rest(Sent)
  BY <1>2, <1>3 DEF Places
<1>6. Sent[i][1] = Sent[1][1]
  BY <1>4, <1>5
<1> QED BY <1>6

LEMMA ReplyStep ==
  ASSUME FrameInv, FrameInv', HeadsDiffer, InStep, ReplyIsThere, [Next]_vars
  PROVE  ReplyIsThere'
<1> DEFINE Reply == Echo(tid, value)
<1> SUFFICES ASSUME Aligned', answered'
             PROVE  \E i \in 1 .. Len(Sent') : Sent'[i] = <<Echo(tid', value'), 1>>
  BY DEF ReplyIsThere, Aligned, BeatIsSkipped, Places
<1>1. Sent \in Seq(Byte) /\ Len(Sent) \in Nat /\ Sent' \in Seq(Byte) /\ Len(Sent') \in Nat
  BY SeqParts DEF FrameInv, TypeOK, Sent
<1>2. CASE /\ UNCHANGED <<tid, value, cut, answered>> /\ Receiving
           /\ (Sent' = Sent \/ \E f \in Frames : Adds(Sent, Sent', f))
  <2>1. PICK i \in 1 .. Len(Sent) : Sent[i] = <<Reply, 1>>
    BY <1>2 DEF ReplyIsThere, Places, BeatIsSkipped, Aligned, HeartbeatTid
  <2>2. i \in 1 .. Len(Sent') /\ Sent'[i] = Sent[i]
    <3>1. CASE Sent' = Sent
      BY <3>1
    <3>2. ASSUME NEW f \in Frames, Adds(Sent, Sent', f)
          PROVE  i \in 1 .. Len(Sent') /\ Sent'[i] = Sent[i]
      BY <1>1, <3>2, FrameKinds DEF Adds
    <3> QED BY <1>2, <3>1, <3>2
  <2> QED BY <1>2, <2>1, <2>2
<1>3. CASE CarryOut
  <2>1. requests # <<>> /\ (answered \/ Current) /\ UNCHANGED <<tid, value, cut, pc>>
        /\ buf' = buf /\ incoming' = incoming \o Stream(Echo(requests[1][1], requests[1][2]))
    BY <1>3, HeadRequest DEF CarryOut, FrameInv
  <2> DEFINE f == Echo(requests[1][1], requests[1][2])
  <2>2. f \in Frames /\ FrameLen(f) >= 5 /\ FrameLen(f) \in Nat
    BY <2>1, HeadRequest, FrameKinds DEF FrameInv
  <2>3. Adds(Sent, Sent', f)
    BY <2>1, <2>2, FrameAdds DEF FrameInv
  <2>4. CASE answered
    <3>1. UNCHANGED <<tid, value, cut, answered>> /\ Receiving
      BY <2>1, <2>4, <1>3 DEF CarryOut, Receiving, Aligned
    <3> QED BY <1>2, <2>2, <2>3, <3>1
  <2>5. CASE Current
    <3>1. requests[1] = <<tid, value>>
      BY <2>1, <2>5 DEF Current, OwnIsLast, Receiving, FrameInv
    <3>2. f = Reply
      BY <3>1
    <3>3. Sent'[Len(Sent) + 1] = <<f, 1>> /\ Len(Sent) + 1 \in 1 .. Len(Sent')
      BY <1>1, <2>2, <2>3 DEF Adds
    <3> QED BY <2>1, <3>2, <3>3
  <2> QED BY <2>1, <2>4, <2>5
<1>4. CASE DropHeartbeat \/ SkipFrame \/ DropByte
  <2>1. /\ Aligned /\ buf # <<>> /\ UNCHANGED <<cut, answered, tid, value>>
    <3>1. buf # <<>>
      BY <1>4, ParsedBuffer
    <3> QED BY <1>4, <3>1 DEF DropHeartbeat, SkipFrame, DropByte, Aligned, Receiving,
                              BeatIsSkipped, HeartbeatTid
  <2>2. PICK i \in Places : Sent[i] = <<Reply, 1>>
    BY <2>1 DEF ReplyIsThere, Aligned
  <2> DEFINE f == Sent[1][1]
  <2>3. /\ StartsHeartbeat(buf) => f.kind = "beat" /\ Sent[1] = <<f, 1>>
        /\ LooksLikeFrame(buf) => /\ f.kind # "beat" /\ Sent[1] = <<f, 1>>
                                  /\ AduLen(buf) = FrameLen(f)
                                  /\ Matches(buf) <=> f.tid = tid
        /\ HasHeader(buf) /\ ~LooksLikeFrame(buf) => f.kind = "beat"
    BY <2>1, AlignedParse
  <2>4. f \in Frames /\ FrameLen(f) \in Nat
    BY <2>1, HeadOfBuffer, AlignedHead, FrameKinds
  <2>5. Reply.kind = "echo" /\ Reply.tid = tid
    BY DEF Echo
  <2> HIDE DEF Reply
  <2>6. ASSUME NEW n \in 0 .. Len(Sent), Drops(Sent, Sent', n), i > n
        PROVE  \E j \in 1 .. Len(Sent') : Sent'[j] = <<Echo(tid', value'), 1>>
    <3>1. i - n \in 1 .. Len(Sent') /\ (i - n) + n = i
      BY <1>1, <2>6 DEF Drops, Places
    <3>2. Sent'[i - n] = Sent[i]
      BY <2>6, <3>1 DEF Drops
    <3> QED BY <2>1, <2>2, <3>1, <3>2 DEF Reply
  <2>7. CASE DropHeartbeat
    <3>1. StartsHeartbeat(buf) /\ HeartbeatLen \in 0 .. Len(buf)
      BY <2>7, ConstantTypes, TypeParts DEF DropHeartbeat, FrameInv
    <3>2. Drops(Sent, Sent', HeartbeatLen) /\ HeartbeatLen \in 0 .. Len(Sent)
      BY <2>7, <3>1, ParseDrops DEF DropHeartbeat, FrameInv
    <3>3. FrameLen(f) = HeartbeatLen /\ Sent[1] = <<f, 1>> /\ Sent[i][1] # f
      BY <2>2, <2>3, <2>4, <2>5, <3>1, BeatBytes
    <3>4. i > HeartbeatLen
      BY <2>4, <3>3, BehindHead
    <3> QED BY <2>6, <3>2, <3>4
  <2>8. CASE SkipFrame
    <3>1. LooksLikeFrame(buf) /\ ~Matches(buf) /\ AduLen(buf) \in 0 .. Len(buf)
      BY <2>8, AduLenIsNat, TypeParts DEF SkipFrame, FrameInv
    <3>2. Drops(Sent, Sent', AduLen(buf)) /\ AduLen(buf) \in 0 .. Len(Sent)
      BY <2>8, <3>1, ParseDrops DEF SkipFrame, FrameInv
    <3>3. FrameLen(f) = AduLen(buf) /\ Sent[1] = <<f, 1>> /\ Sent[i][1] # f
      BY <2>2, <2>3, <2>5, <3>1
    <3>4. i > AduLen(buf)
      BY <2>4, <3>3, BehindHead
    <3> QED BY <2>6, <3>2, <3>4
  <2>9. CASE DropByte
    <3>1. buf' = From(buf, 1 + 1) /\ 1 \in 0 .. Len(buf) /\ incoming' = incoming
      BY <2>9, TailDrops DEF FrameInv
    <3>2. Drops(Sent, Sent', 1) /\ 1 \in 0 .. Len(Sent)
      BY <3>1, ParseDrops DEF FrameInv
    <3>3. f.kind = "beat"
      BY <2>3, <2>9 DEF DropByte
    <3>4. i # 1
      BY <2>2, <2>5, <3>3
    <3>5. i > 1
      BY <3>4 DEF Places
    <3> QED BY <2>6, <3>2, <3>5
  <2> QED BY <1>4, <2>7, <2>8, <2>9
<1>5. CASE Recv \/ NeedMore \/ UNCHANGED vars
  <2>1. Sent' = Sent /\ UNCHANGED <<tid, value, cut, answered>> /\ Receiving
    BY <1>5, RecvKeeps DEF FrameInv, Recv, NeedMore, vars, Sent, Receiving, Aligned
  <2> QED BY <1>2, <2>1
<1>6. CASE VehicleFault \/ PushHeartbeat
  <2>1. UNCHANGED <<tid, value, cut, answered>> /\ Receiving
    BY <1>6 DEF VehicleFault, PushHeartbeat, Receiving, Aligned
  <2>2. Sent' = Sent \/ \E f \in Frames : Adds(Sent, Sent', f)
    BY <1>6, HeadRequest, BeatIsFrame, FrameAdds DEF VehicleFault, PushHeartbeat, Sent, FrameInv
  <2> QED BY <1>2, <2>1, <2>2
<1>7. CASE \/ FlushAndWrite \/ TakeReply \/ Timeout \/ LineFails \/ Abandon
           \/ \E v \in Values : SendCommand(v)
  BY <1>7 DEF FlushAndWrite, TakeReply, Timeout, LineFails, Abandon, SendCommand, Fail, Aligned,
              Receiving
<1> QED BY <1>3, <1>4, <1>5, <1>6, <1>7 DEF Next, Client

-----------------------------------------------------------------------------
\* The invariant of the two theorems below is inductive.
LEMMA StepInvHolds == Spec => []StepInv
<1>1. Init => StepInv
  <2> SUFFICES ASSUME Init PROVE StepInv
    OBVIOUS
  <2>1. FrameInv
    BY FrameInit
  <2>2. Sent = <<>> /\ requests = <<>> /\ pc = "idle"
    BY ConcatEmptySeq DEF Init, Sent
  <2> QED BY <2>1, <2>2 DEF StepInv, HeadsDiffer, InStep, ReplyIsThere, Receiving, Places
<1>2. StepInv /\ [Next]_vars => StepInv'
  BY FrameStep, HeadsStep, InStepStep, ReplyStep DEF StepInv
<1> QED BY <1>1, <1>2, PTL DEF Spec

\* The variables keep their types.
THEOREM TypeCorrect == Spec => []TypeOK
<1>1. StepInv => TypeOK
  BY DEF StepInv, FrameInv
<1> QED BY <1>1, StepInvHolds, PTL

\* The client waits for more bytes only at the start of a frame, however the
\* stream is cut into pieces, unless the flush split a frame
\* (_try_extract_matching_modbus_frame, _write_single_register).
THEOREM ClientStaysInStep == Spec => []StaysInStep
<1>1. StepInv => StaysInStep
  <2> SUFFICES ASSUME StepInv, pc = "recv", cut = "no", ~HeartbeatTid, buf # <<>>
               PROVE  buf[1][2] = 1
    BY DEF StaysInStep
  <2>1. Sent # <<>> /\ Len(buf) \in Nat /\ Len(buf) >= 1
    BY HeadOfBuffer DEF StepInv
  <2>2. Sent[1][2] = 1
    BY <2>1 DEF StepInv, InStep, Receiving
  <2>3. Sent[1] = buf[1]
    BY <2>1, TypeParts DEF StepInv, FrameInv
  <2> QED BY <2>2, <2>3
<1> QED BY <1>1, StepInvHolds, PTL

\* The client never waits with the reply to its request in the buffer, unless
\* the flush split a reply, or a heartbeat whose bytes are 0 or 0xBB.
THEOREM ClientFindsReply == Spec => []ReplyIsFound
<1>1. StepInv => ReplyIsFound
  <2> SUFFICES ASSUME StepInv, pc = "recv", ~HeartbeatTid, answered, incoming = <<>>,
                      cut = "no" \/ BeatIsSkipped
               PROVE  FALSE
    <3>1. StepInv => cut \in {"no", "beat", "echo", "refusal"}
      BY DEF StepInv, FrameInv, TypeOK
    <3> QED BY <3>1 DEF ReplyIsFound, BeatIsSkipped
  <2>1. FrameInv /\ HeadsDiffer /\ InStep /\ Aligned
    BY DEF StepInv, Aligned, Receiving
  <2>2. Sent = buf /\ Len(buf) \in Nat
    BY <2>1, TypeParts, ConcatEmptySeq DEF FrameInv, Sent
  <2>3. PICK i \in Places : Sent[i] = <<Echo(tid, value), 1>>
    BY DEF StepInv, ReplyIsThere, Receiving
  <2>4. i + 11 <= Len(buf)
    <3>1. Sent \in Seq(Byte) /\ i \in 1 .. Len(Sent) /\ Framed(Sent)
      BY <2>1, TypeParts DEF FrameInv, Places
    <3>2. Sent[i][1].kind = "echo" /\ Sent[i][2] = 1
      BY <2>3 DEF Echo
    <3>3. i - 1 + FrameLen(Sent[i][1]) <= Len(Sent)
      BY <3>1, <3>2 DEF Framed
    <3> QED BY <2>2, <3>1, <3>2, <3>3 DEF FrameLen
  <2>5. buf # <<>> /\ Len(buf) >= 12
    BY <2>2, <2>3, <2>4 DEF Places
  <2>6. Incomplete(buf)
    BY <2>1, <2>5 DEF FrameInv, BufferInv
  <2> DEFINE f == Sent[1][1]
  <2>7. /\ StartsHeartbeat(buf) => f.kind = "beat" /\ Sent[1] = <<f, 1>>
        /\ LooksLikeFrame(buf) => f.kind # "beat" /\ Sent[1] = <<f, 1>> /\ AduLen(buf) = FrameLen(f)
        /\ Sent[1][2] = 1 => FrameLen(f) <= Len(Sent)
    BY <2>1, <2>5, AlignedParse
  <2>8. f \in Frames
    BY <2>1, <2>5, HeadOfBuffer, AlignedHead
  <2>9. StartsHeartbeat(buf) => Len(buf) >= HeartbeatLen
    BY <2>2, <2>7, <2>8, BeatBytes
  <2>10. LooksLikeFrame(buf) => Len(buf) >= AduLen(buf)
    BY <2>2, <2>7
  <2> QED BY <2>5, <2>6, <2>9, <2>10, ConstantTypes, AduLenIsNat DEF Incomplete
<1> QED BY <1>1, StepInvHolds, PTL

-----------------------------------------------------------------------------
(* A write that succeeds has been carried out.                             *)

LEMMA LengthWord ==
  ASSUME NEW a \in Nat, NEW b \in Nat, b < 256
  PROVE  /\ a * 256 + b = 0 => a = 0 /\ b = 0
         /\ a * 256 + b >= 6 /\ a * 256 + b <= 260 =>
              (a = 0 /\ b >= 6) \/ (a = 1 /\ b <= 4)
  OBVIOUS

\* What the bytes of a frame that is accepted are.
LEMMA AcceptedBytes ==
  ASSUME FrameInv, LooksLikeFrame(buf), Len(buf) >= AduLen(buf), Matches(buf), Accepted(buf)
  PROVE  /\ Len(buf) >= 12 /\ buf # <<>>
         /\ \A k \in 1 .. 12 : At(buf, k) \in Nat /\ At(buf, k) < 256
         /\ At(buf, 1) * 256 + At(buf, 2) = tid /\ At(buf, 1) # HeartbeatHead
         /\ At(buf, 3) = 0 /\ At(buf, 4) = 0
         /\ (At(buf, 5) = 0 /\ At(buf, 6) >= 6) \/ (At(buf, 5) = 1 /\ At(buf, 6) <= 4)
         /\ At(buf, 7) = UnitId /\ At(buf, 8) = 6
         /\ At(buf, 9) = High(ControlAddr) /\ At(buf, 10) = Low(ControlAddr)
         /\ At(buf, 11) * 256 + At(buf, 12) = value
<1>1. /\ Len(buf) >= 7 /\ ~StartsHeartbeat(buf) /\ WordAt(buf, 3) = 0
      /\ WordAt(buf, 5) \in Nat /\ WordAt(buf, 5) <= 260
  BY LooksLikeParts
<1>2. AduLen(buf) >= 12 /\ AduLen(buf) = 6 + WordAt(buf, 5)
  BY DEF Accepted, AduLen
<1>3. buf \in Seq(Byte) /\ Len(buf) \in Nat
  BY TypeParts DEF FrameInv
<1>4. Len(buf) >= 12 /\ buf # <<>> /\ WordAt(buf, 5) >= 6
  BY <1>1, <1>2, <1>3
<1>5. \A k \in 1 .. 12 : At(buf, k) \in Nat /\ At(buf, k) < 256
  <2> SUFFICES ASSUME NEW k \in 1 .. 12 PROVE At(buf, k) \in Nat /\ At(buf, k) < 256
    OBVIOUS
  <2>1. buf[k] \in Byte
    BY <1>3, <1>4
  <2> QED BY <2>1, ByteParts, BytesOfFrame DEF At
<1>6. At(buf, 3) = 0 /\ At(buf, 4) = 0
  <2>1. At(buf, 3) * 256 + At(buf, 4) = 0
    BY <1>1 DEF WordAt
  <2>2. At(buf, 3) \in Nat /\ At(buf, 4) \in Nat /\ At(buf, 4) < 256
    BY <1>5
  <2> QED BY <2>1, <2>2, LengthWord
<1>7. (At(buf, 5) = 0 /\ At(buf, 6) >= 6) \/ (At(buf, 5) = 1 /\ At(buf, 6) <= 4)
  <2>1. At(buf, 5) * 256 + At(buf, 6) >= 6 /\ At(buf, 5) * 256 + At(buf, 6) <= 260
    BY <1>1, <1>4 DEF WordAt
  <2>2. At(buf, 5) \in Nat /\ At(buf, 6) \in Nat /\ At(buf, 6) < 256
    BY <1>5
  <2> QED BY <2>1, <2>2, LengthWord
<1>8. At(buf, 9) = High(ControlAddr) /\ At(buf, 10) = Low(ControlAddr)
  <2>1. At(buf, 9) * 256 + At(buf, 10) = ControlAddr
    BY DEF Accepted, WordAt
  <2>2. At(buf, 9) \in Nat /\ At(buf, 10) \in Nat /\ At(buf, 10) < 256
    BY <1>5
  <2>3. ControlAddr \in Nat
    BY ConstantTypes
  <2> DEFINE a == At(buf, 9)
             b == At(buf, 10)
  <2> HIDE DEF a, b
  <2>4. a \in Nat /\ b \in Nat /\ b < 256 /\ a * 256 + b = ControlAddr
    BY <2>1, <2>2 DEF a, b
  <2>5. a = High(ControlAddr) /\ b = Low(ControlAddr)
    BY <2>3, <2>4 DEF High, Low
  <2> QED BY <2>5 DEF a, b
<1>9. At(buf, 1) # HeartbeatHead
  BY <1>1, <1>3 DEF StartsHeartbeat
<1>10. At(buf, 1) * 256 + At(buf, 2) = tid /\ At(buf, 7) = UnitId
  BY DEF Matches, WordAt
<1>11. At(buf, 8) = 6 /\ At(buf, 11) * 256 + At(buf, 12) = value
  BY DEF Accepted, WordAt
<1> QED BY <1>4, <1>5, <1>6, <1>7, <1>8, <1>9, <1>10, <1>11

LEMMA FirstBytes ==
  ASSUME NEW g \in Frames
  PROVE  \/ /\ BytesOf(g)[1] = 187 /\ BytesOf(g)[2] = Filler /\ BytesOf(g)[3] = Filler
            /\ BytesOf(g)[4] = Filler /\ BytesOf(g)[5] = Filler
         \/ /\ ~(BytesOf(g)[1] = 0 /\ BytesOf(g)[2] = 0)
            /\ BytesOf(g)[3] = 0 /\ BytesOf(g)[4] = 0 /\ BytesOf(g)[5] = 0
<1>1. CASE g.kind = "beat"
  BY <1>1, BeatBytes, ConstantTypes DEF HeartbeatHead
<1>2. CASE g.kind # "beat"
  <2>1. g.tid \in Nat /\ g.tid >= 1
    BY <1>2, FrameKinds, LastTidIsNat
  <2>2. High(g.tid) * 256 + Low(g.tid) = g.tid
    BY <2>1, Word
  <2>3. ~(High(g.tid) = 0 /\ Low(g.tid) = 0)
    BY <2>1, <2>2
  <2> QED BY <1>2, <2>3, ReplyBytes
<1> QED BY <1>1, <1>2

\* What is accepted is a whole echo of this write and no bytes from the middle
\* of other frames.
LEMMA AcceptedIsEcho ==
  ASSUME ControlAddr # 0, FrameInv, LooksLikeFrame(buf), Len(buf) >= AduLen(buf),
         Matches(buf), Accepted(buf)
  PROVE  Sent[1] = <<Echo(tid, value), 1>> /\ 1 \in Places
<1> DEFINE f == Sent[1][1]
           p == Sent[1][2]
           r == Rest(Sent)
           A(k) == At(buf, k)
<1>1. Len(buf) >= 12 /\ buf # <<>>
  BY AcceptedBytes
<1>2. /\ Sent # <<>> /\ Sent \in Seq(Byte) /\ Framed(Sent)
      /\ \A k \in 1 .. Len(buf) : A(k) = At(Sent, k)
      /\ Len(buf) \in Nat /\ Len(buf) <= Len(Sent)
  BY <1>1, HeadOfBuffer
<1>3. /\ f \in Frames /\ p \in 1 .. FrameLen(f) /\ r \in 1 .. FrameLen(f)
      /\ \A k \in 1 .. r : Sent[k] = <<f, p + k - 1>>
      /\ r < Len(Sent) => \E g \in Frames :
           /\ r + FrameLen(g) <= Len(Sent)
           /\ \A q \in 1 .. FrameLen(g) : Sent[r + q] = <<g, q>>
  BY <1>2, HeadOfStream
<1>4. /\ FrameLen(f) \in Nat /\ p \in Nat /\ r \in Nat /\ r >= 1 /\ p >= 1
      /\ r = FrameLen(f) - p + 1 /\ p <= FrameLen(f)
  <2>1. FrameLen(f) \in Nat
    BY <1>3, FrameKinds
  <2> QED BY <1>3, <2>1 DEF Rest
<1>31. f \in Frames
  BY <1>3
<1> HIDE DEF r, p, f
<1>5. \A k \in 1 .. 12 : k <= r => A(k) = BytesOf(f)[p + k - 1]
  <2> SUFFICES ASSUME NEW k \in 1 .. 12, k <= r PROVE A(k) = BytesOf(f)[p + k - 1]
    OBVIOUS
  <2>1. k \in 1 .. r /\ k \in 1 .. Len(buf)
    BY <1>1, <1>2, <1>4
  <2>2. Sent[k] = <<f, p + k - 1>>
    BY <1>3, <2>1
  <2>3. A(k) = At(Sent, k)
    BY <1>2, <2>1
  <2> QED BY <2>2, <2>3 DEF At
<1>6. ASSUME r < 12
      PROVE  \E g \in Frames : \A q \in 1 .. 5 : r + q <= 12 => A(r + q) = BytesOf(g)[q]
  <2>0. r < Len(Sent)
    BY <1>1, <1>2, <1>4, <1>6
  <2>1. PICK g \in Frames : \A q \in 1 .. FrameLen(g) : Sent[r + q] = <<g, q>>
    BY <1>3, <2>0
  <2>2. ASSUME NEW q \in 1 .. 5, r + q <= 12 PROVE A(r + q) = BytesOf(g)[q]
    <3>1. q \in 1 .. FrameLen(g)
      BY FrameKinds
    <3>2. r + q \in 1 .. Len(buf)
      BY <1>1, <1>2, <1>4, <2>2
    <3>3. Sent[r + q] = <<g, q>>
      BY <2>1, <3>1
    <3>4. A(r + q) = At(Sent, r + q)
      BY <1>2, <3>2
    <3> QED BY <3>3, <3>4 DEF At
  <2> QED BY <2>2
<1>7. /\ A(3) = 0 /\ A(4) = 0 /\ A(8) = 6
      /\ (A(5) = 0 /\ A(6) >= 6) \/ (A(5) = 1 /\ A(6) <= 4)
      /\ A(10) = Low(ControlAddr)
  BY AcceptedBytes
<1>8. /\ A(1) * 256 + A(2) = tid /\ A(1) # HeartbeatHead
      /\ A(11) * 256 + A(12) = value
  BY AcceptedBytes
<1>9. /\ A(1) \in Nat /\ A(2) \in Nat /\ A(2) < 256
      /\ A(11) \in Nat /\ A(12) \in Nat /\ A(12) < 256
  BY AcceptedBytes
<1> HIDE DEF A
<1>12. r # 1
  <2> SUFFICES ASSUME r = 1 PROVE FALSE
    OBVIOUS
  <2>1. PICK g \in Frames : \A q \in 1 .. 5 : 1 + q <= 12 => A(1 + q) = BytesOf(g)[q]
    BY <1>6
  <2>2. A(3) = BytesOf(g)[2] /\ A(4) = BytesOf(g)[3] /\ A(5) = BytesOf(g)[4] /\ A(6) = BytesOf(g)[5]
    <3>1. \A q \in 1 .. 5 : A(1 + q) = BytesOf(g)[q]
      BY <2>1
    <3> QED BY <3>1
  <2>3. CASE /\ BytesOf(g)[2] = Filler /\ BytesOf(g)[4] = Filler /\ BytesOf(g)[5] = Filler
    BY <1>7, <2>2, <2>3
  <2>4. CASE BytesOf(g)[4] = 0 /\ BytesOf(g)[5] = 0
    BY <1>7, <2>2, <2>4
  <2> QED BY <2>3, <2>4, FirstBytes
<1>13. r # 2
  <2> SUFFICES ASSUME r = 2 PROVE FALSE
    OBVIOUS
  <2>1. PICK g \in Frames : \A q \in 1 .. 5 : 2 + q <= 12 => A(2 + q) = BytesOf(g)[q]
    BY <1>6
  <2>2. A(3) = BytesOf(g)[1] /\ A(4) = BytesOf(g)[2]
    <3>1. \A q \in 1 .. 5 : A(2 + q) = BytesOf(g)[q]
      BY <2>1
    <3> QED BY <3>1
  <2>3. CASE BytesOf(g)[1] = 187
    BY <1>7, <2>2, <2>3
  <2>4. CASE ~(BytesOf(g)[1] = 0 /\ BytesOf(g)[2] = 0)
    BY <1>7, <2>2, <2>4
  <2> QED BY <2>3, <2>4, FirstBytes
<1>14. r >= 3
  BY <1>4, <1>12, <1>13
<1>15. CASE f.kind = "beat"
  <2>1. FrameLen(f) = HeartbeatLen /\ BytesOf(f)[1] = HeartbeatHead
        /\ \A q \in 2 .. HeartbeatLen : BytesOf(f)[q] = Filler
    BY <1>31, <1>15, BeatBytes
  <2>2. A(1) = BytesOf(f)[p] /\ A(2) = BytesOf(f)[p + 1] /\ A(3) = BytesOf(f)[p + 2]
    <3>1. p + 1 - 1 = p /\ p + 2 - 1 = p + 1 /\ p + 3 - 1 = p + 2
      BY <1>4
    <3> QED BY <1>4, <1>5, <1>14, <3>1
  <2>3. p # 1
    BY <1>8, <2>1, <2>2
  <2>4. p \in 2 .. HeartbeatLen /\ p + 1 \in 2 .. HeartbeatLen /\ p + 2 \in 2 .. HeartbeatLen
    BY <1>4, <1>14, <2>1, <2>3, ConstantTypes
  <2>5. A(1) = Filler /\ A(2) = Filler /\ A(3) = Filler
    BY <2>1, <2>2, <2>4
  <2>6. tid \in Nat /\ tid >= 1
    BY TypeParts DEF FrameInv
  <2>7. A(1) = 0 /\ A(2) = 0
    BY <1>7, <2>5
  <2> QED BY <1>8, <2>6, <2>7
<1>16. CASE f.kind = "refusal"
  <2>1. /\ FrameLen(f) = 9 /\ BytesOf(f)[5] = 0 /\ BytesOf(f)[6] = 3 /\ BytesOf(f)[8] = 134
        /\ BytesOf(f)[9] = 4
    BY <1>31, <1>16, ReplyBytes
  <2>2. p \in 1 .. 7 /\ r = 10 - p
    BY <1>4, <1>14, <2>1
  <2>3. p = 1 => A(5) = BytesOf(f)[5] /\ A(6) = BytesOf(f)[6]
    BY <1>5, <2>2
  <2>4. p = 2 => A(5) = BytesOf(f)[6]
    BY <1>5, <2>2
  <2>5. p = 3 => A(4) = BytesOf(f)[6]
    BY <1>5, <2>2
  <2>6. p = 4 => A(3) = BytesOf(f)[6]
    BY <1>5, <2>2
  <2>7. p = 5 => A(4) = BytesOf(f)[8]
    BY <1>5, <2>2
  <2>8. p = 6 => A(3) = BytesOf(f)[8]
    BY <1>5, <2>2
  <2>9. p = 7 => A(3) = BytesOf(f)[9]
    BY <1>5, <2>2
  <2>10. p = 1 \/ p = 2 \/ p = 3 \/ p = 4 \/ p = 5 \/ p = 6 \/ p = 7
    BY <2>2
  <2> QED BY <1>7, <2>1, <2>3, <2>4, <2>5, <2>6, <2>7, <2>8, <2>9, <2>10
<1>17. CASE f.kind = "echo"
  <2>1. /\ FrameLen(f) = 12 /\ BytesOf(f)[1] = High(f.tid) /\ BytesOf(f)[2] = Low(f.tid)
        /\ BytesOf(f)[6] = 6 /\ BytesOf(f)[8] = 6
        /\ BytesOf(f)[9] = High(ControlAddr) /\ BytesOf(f)[10] = Low(ControlAddr)
        /\ BytesOf(f)[11] = High(f.value) /\ BytesOf(f)[12] = Low(f.value)
    BY <1>31, <1>17, ReplyBytes, EchoBytes
  <2>2. p \in 1 .. 10 /\ r = 13 - p
    BY <1>4, <1>14, <2>1
  <2>3. p = 2 => A(5) = BytesOf(f)[6]
    BY <1>5, <2>2
  <2>4. p = 3 => A(4) = BytesOf(f)[6]
    BY <1>5, <2>2
  <2>5. p = 4 => A(3) = BytesOf(f)[6]
    BY <1>5, <2>2
  <2>6. p = 5 => A(4) = BytesOf(f)[8]
    BY <1>5, <2>2
  <2>7. p = 6 => A(3) = BytesOf(f)[8]
    BY <1>5, <2>2
  <2>8. p # 7
    <3> SUFFICES ASSUME p = 7 PROVE FALSE
      OBVIOUS
    <3>1. A(3) = BytesOf(f)[9] /\ A(4) = BytesOf(f)[10]
      BY <1>5, <2>2
    <3>2. High(ControlAddr) * 256 + Low(ControlAddr) = ControlAddr
      BY ConstantTypes, Word
    <3>3. High(ControlAddr) = 0 /\ Low(ControlAddr) = 0
      BY <1>7, <2>1, <3>1
    <3> QED BY <3>2, <3>3
  <2>9. p # 8
    <3> SUFFICES ASSUME p = 8 PROVE FALSE
      OBVIOUS
    <3>1. r = 5 /\ A(3) = BytesOf(f)[10]
      BY <1>5, <2>2
    <3>2. PICK g \in Frames : \A q \in 1 .. 5 : 5 + q <= 12 => A(5 + q) = BytesOf(g)[q]
      BY <1>6, <3>1
    <3>3. A(8) = BytesOf(g)[3] /\ A(10) = BytesOf(g)[5]
      <4>1. \A q \in 1 .. 5 : A(5 + q) = BytesOf(g)[q]
        BY <3>2
      <4> QED BY <4>1
    <3>4. CASE BytesOf(g)[3] = Filler /\ BytesOf(g)[5] = Filler
      BY <1>7, <2>1, <3>1, <3>3, <3>4
    <3>5. CASE BytesOf(g)[3] = 0
      BY <1>7, <3>3, <3>5
    <3> QED BY <3>4, <3>5, FirstBytes
  <2>10. p # 9
    <3> SUFFICES ASSUME p = 9 PROVE FALSE
      OBVIOUS
    <3>1. r = 4
      BY <2>2
    <3>2. PICK g \in Frames : \A q \in 1 .. 5 : 4 + q <= 12 => A(4 + q) = BytesOf(g)[q]
      BY <1>6, <3>1
    <3>3. A(5) = BytesOf(g)[1] /\ A(8) = BytesOf(g)[4]
      <4>1. \A q \in 1 .. 5 : A(4 + q) = BytesOf(g)[q]
        BY <3>2
      <4> QED BY <4>1
    <3>4. CASE BytesOf(g)[1] = 187
      BY <1>7, <3>3, <3>4
    <3>5. CASE BytesOf(g)[4] = 0
      BY <1>7, <3>3, <3>5
    <3> QED BY <3>4, <3>5, FirstBytes
  <2>11. p # 10
    <3> SUFFICES ASSUME p = 10 PROVE FALSE
      OBVIOUS
    <3>1. r = 3
      BY <2>2
    <3>2. PICK g \in Frames : \A q \in 1 .. 5 : 3 + q <= 12 => A(3 + q) = BytesOf(g)[q]
      BY <1>6, <3>1
    <3>3. A(4) = BytesOf(g)[1] /\ A(8) = BytesOf(g)[5]
      <4>1. \A q \in 1 .. 5 : A(3 + q) = BytesOf(g)[q]
        BY <3>2
      <4> QED BY <4>1
    <3>4. CASE BytesOf(g)[1] = 187
      BY <1>7, <3>3, <3>4
    <3>5. CASE BytesOf(g)[5] = 0
      BY <1>7, <3>3, <3>5
    <3> QED BY <3>4, <3>5, FirstBytes
  <2>12. p \in 1 .. 10 => \/ p = 1 \/ p = 2 \/ p = 3 \/ p = 4 \/ p = 5
                         \/ p = 6 \/ p = 7 \/ p = 8 \/ p = 9 \/ p = 10
    BY <1>4
  <2>13. p = 1
    BY <1>7, <2>1, <2>2, <2>3, <2>4, <2>5, <2>6, <2>7, <2>8, <2>9, <2>10, <2>11, <2>12
  <2>14. A(1) = BytesOf(f)[1] /\ A(2) = BytesOf(f)[2] /\ A(11) = BytesOf(f)[11] /\ A(12) = BytesOf(f)[12]
    BY <1>5, <2>2, <2>13
  <2>15. f.tid \in Nat /\ f.value \in Nat /\ f = Echo(f.tid, f.value)
    BY <1>31, <1>17, FrameKinds
  <2>16. High(f.tid) * 256 + Low(f.tid) = f.tid /\ High(f.value) * 256 + Low(f.value) = f.value
    BY <2>15, Word
  <2>17. f.tid = tid /\ f.value = value
    BY <1>8, <2>1, <2>14, <2>16
  <2>18. 1 \in 1 .. Len(Sent) /\ Sent[1] \in Byte
    BY <1>2
  <2>19. Sent[1] = <<f, 1>>
    BY <2>13, <2>18, ByteParts DEF p, f
  <2> QED BY <2>15, <2>17, <2>18, <2>19 DEF Places
<1> QED BY <1>31, <1>15, <1>16, <1>17, FrameKinds

\* The replies in t are those of s, without the ones at the head.
Keeps(s, t) ==
  \E n \in Nat : \A i \in 1 .. Len(t) : t[i][1].kind # "beat" =>
    i + n \in 1 .. Len(s) /\ t[i] = s[i + n]

\* In t frame f follows s.
Gets(s, t, f) ==
  \A i \in 1 .. Len(t) : \/ i \in 1 .. Len(s) /\ t[i] = s[i]
                         \/ i > Len(s) /\ t[i][1] = f

LEMMA DropsKeeps ==
  ASSUME NEW s \in Seq(Byte), NEW t \in Seq(Byte), NEW n \in 0 .. Len(s), Drops(s, t, n)
  PROVE  Keeps(s, t)
<1>1. n \in Nat /\ Len(t) = Len(s) - n /\ Len(s) \in Nat
  BY DEF Drops
<1>2. ASSUME NEW i \in 1 .. Len(t) PROVE i + n \in 1 .. Len(s) /\ t[i] = s[i + n]
  BY <1>1 DEF Drops
<1> QED BY <1>1, <1>2 DEF Keeps

LEMMA SameKeeps ==
  ASSUME NEW s \in Seq(Byte)
  PROVE  Keeps(s, s)
<1>1. \A i \in 1 .. Len(s) : i + 0 \in 1 .. Len(s) /\ s[i] = s[i + 0]
  OBVIOUS
<1> QED BY <1>1 DEF Keeps

LEMMA AddsGets ==
  ASSUME NEW s \in Seq(Byte), NEW t \in Seq(Byte), NEW f \in Frames, Adds(s, t, f)
  PROVE  Gets(s, t, f)
<1>1. FrameLen(f) \in Nat /\ Len(t) = Len(s) + FrameLen(f) /\ Len(s) \in Nat
  BY FrameKinds DEF Adds
<1> SUFFICES ASSUME NEW i \in 1 .. Len(t)
             PROVE  \/ i \in 1 .. Len(s) /\ t[i] = s[i]
                    \/ i > Len(s) /\ t[i][1] = f
  BY DEF Gets
<1>2. CASE i <= Len(s)
  BY <1>1, <1>2 DEF Adds
<1>3. CASE i > Len(s)
  <2>1. i - Len(s) \in 1 .. FrameLen(f) /\ Len(s) + (i - Len(s)) = i
    BY <1>1, <1>3
  <2>2. t[Len(s) + (i - Len(s))] = <<f, i - Len(s)>>
    BY <2>1 DEF Adds
  <2> QED BY <1>3, <2>1, <2>2
<1> QED BY <1>1, <1>2, <1>3

LEMMA BeatKeeps ==
  ASSUME NEW s \in Seq(Byte), NEW t \in Seq(Byte), Gets(s, t, Beat)
  PROVE  Keeps(s, t)
<1>1. ASSUME NEW i \in 1 .. Len(t), t[i][1].kind # "beat"
      PROVE  i + 0 \in 1 .. Len(s) /\ t[i] = s[i + 0]
  BY <1>1 DEF Gets, Beat
<1> QED BY <1>1 DEF Keeps

\* The kinds of steps, as far as the invariants below can tell them apart.
Between == pc \in {"idle", "flush"}
Quiet ==
  /\ UNCHANGED <<tid, value, requests, register, abandons, result>>
  /\ Keeps(Sent, Sent')
  /\ Between' = Between /\ Receiving' = Receiving /\ (pc = "idle" => pc' = "idle")
Answers(f, r) ==
  /\ requests # <<>> /\ requests' = Tail(requests)
  /\ UNCHANGED <<pc, tid, value, abandons, result>>
  /\ Gets(Sent, Sent', f) /\ register' = r
  /\ \/ f = Echo(requests[1][1], requests[1][2]) /\ r = requests[1][2]
     \/ f = Refusal(requests[1][1]) /\ r = register
     \/ f = Beat /\ r \in {register, requests[1][2]}
Starts ==
  /\ pc = "idle" /\ pc' = "flush" /\ result' = "none"
  /\ UNCHANGED <<tid, requests, register, abandons>> /\ Sent' = Sent
Writes ==
  /\ pc = "flush" /\ pc' = "recv" /\ Keeps(Sent, Sent')
  /\ requests' = Append(requests, <<tid, value>>)
  /\ UNCHANGED <<tid, value, result, register, abandons>>
Fails ==
  /\ pc' = "idle" /\ result' = "failed" /\ tid' = tid
  /\ Sent' = <<>> /\ requests' = <<>>
Interrupted ==
  /\ abandons = 0 /\ abandons' = 1 /\ pc' = "idle" /\ result' = "failed"
  /\ Keeps(Sent, Sent') /\ UNCHANGED <<tid, requests, register>>
Accepts ==
  /\ pc = "parse" /\ pc' = "idle" /\ result' = "ok" /\ tid' = NextTid
  /\ Sent[1] = <<Echo(tid, value), 1>> /\ 1 \in Places
  /\ Keeps(Sent, Sent') /\ UNCHANGED <<value, requests, register, abandons>>

LEMMA KindsOfSteps ==
  ASSUME ControlAddr # 0, FrameInv, TypeOK', [Next]_vars
  PROVE  \/ Quiet \/ Starts \/ Writes \/ Fails \/ Interrupted \/ Accepts
         \/ \E f \in Frames, r \in Values : Answers(f, r)
<1>1. TypeOK /\ BufferInv /\ Sent \in Seq(Byte) /\ Sent' \in Seq(Byte)
  BY SeqParts DEF FrameInv, TypeOK, Sent
<1>2. CASE FlushAndWrite
  <2>1. Keeps(Sent, Sent')
    BY <1>1, <1>2, FlushDrops, DropsKeeps DEF FlushAndWrite, BufferInv
  <2> QED BY <1>2, <2>1 DEF FlushAndWrite, Writes, bounds
<1>3. ASSUME NEW v \in Values, SendCommand(v) PROVE Starts
  BY <1>3 DEF SendCommand, Starts, bounds, Sent
<1>4. CASE Recv \/ NeedMore \/ UNCHANGED vars
  <2>1. Sent' = Sent
    BY <1>1, <1>4, RecvKeeps DEF NeedMore, vars, Sent
  <2>2. Keeps(Sent, Sent')
    BY <1>1, <2>1, SameKeeps
  <2> QED BY <1>4, <2>2 DEF Recv, NeedMore, vars, bounds, Quiet, Between, Receiving
<1>5. CASE DropHeartbeat \/ SkipFrame \/ DropByte
  <2>1. Keeps(Sent, Sent')
    <3>1. CASE DropHeartbeat
      <4>1. HeartbeatLen \in 0 .. Len(buf)
        BY <1>1, <3>1, ConstantTypes, TypeParts DEF DropHeartbeat
      <4> QED BY <1>1, <3>1, <4>1, ParseDrops, DropsKeeps DEF DropHeartbeat
    <3>2. CASE SkipFrame
      <4>1. AduLen(buf) \in 0 .. Len(buf)
        BY <1>1, <3>2, AduLenIsNat, TypeParts DEF SkipFrame
      <4> QED BY <1>1, <3>2, <4>1, ParseDrops, DropsKeeps DEF SkipFrame
    <3>3. CASE DropByte
      <4>1. buf' = From(buf, 1 + 1) /\ 1 \in 0 .. Len(buf) /\ incoming' = incoming
        BY <1>1, <3>3, TailDrops
      <4> QED BY <1>1, <4>1, ParseDrops, DropsKeeps
    <3> QED BY <1>5, <3>1, <3>2, <3>3
  <2> QED BY <1>5, <2>1 DEF DropHeartbeat, SkipFrame, DropByte, bounds, Quiet, Between, Receiving
<1>6. CASE PushHeartbeat
  <2>1. Gets(Sent, Sent', Beat)
    BY <1>1, <1>6, BeatIsFrame, FrameAdds, AddsGets DEF PushHeartbeat
  <2>2. Keeps(Sent, Sent')
    BY <1>1, <2>1, BeatKeeps
  <2> QED BY <1>6, <2>2 DEF PushHeartbeat, Quiet, Between, Receiving
<1>7. CASE Fail /\ Next
  BY <1>1, <1>7, FailDrops DEF Fail, Fails
<1>8. CASE Timeout \/ LineFails
  BY <1>7, <1>8 DEF Timeout, LineFails, Next, Client
<1>9. CASE TakeReply
  <2>1. CASE Fail
    BY <1>7, <1>9, <2>1 DEF Next, Client
  <2>2. CASE Accepted(buf) /\ result' = "ok" /\ tid' = NextTid /\ buf' = <<>> /\ pc' = "idle"
             /\ UNCHANGED <<value, incoming, requests, abandons>>
    <3>1. /\ pc = "parse" /\ LooksLikeFrame(buf) /\ Len(buf) >= AduLen(buf) /\ Matches(buf)
          /\ register' = register
      BY <1>9 DEF TakeReply
    <3>2. Sent[1] = <<Echo(tid, value), 1>> /\ 1 \in Places
      BY <2>2, <3>1, AcceptedIsEcho
    <3>3. Keeps(Sent, Sent')
      BY <1>1, <2>2, ReplyDrops, DropsKeeps
    <3> QED BY <2>2, <3>1, <3>2, <3>3 DEF Accepts
  <2> QED BY <1>9, <2>1, <2>2 DEF TakeReply
<1>10. CASE Abandon
  <2>1. Keeps(Sent, Sent')
    BY <1>1, <1>10, ReplyDrops, DropsKeeps DEF Abandon
  <2>2. abandons = 0 /\ abandons' = 1
    BY <1>1, <1>10, BoundAssumption DEF Abandon, TypeOK
  <2> QED BY <1>10, <2>1, <2>2 DEF Abandon, Interrupted
<1>11. CASE CarryOut
  <2> DEFINE f == Echo(requests[1][1], requests[1][2])
             r == requests[1][2]
  <2>1. /\ requests # <<>> /\ f \in Frames /\ r \in Values /\ requests' = Tail(requests)
        /\ register' = r /\ incoming' = incoming \o Stream(f) /\ buf' = buf
        /\ UNCHANGED <<pc, tid, value, abandons, result>>
    BY <1>1, <1>11, HeadRequest DEF CarryOut, bounds
  <2>2. Gets(Sent, Sent', f)
    BY <1>1, <2>1, FrameAdds, AddsGets
  <2>3. Answers(f, r)
    BY <2>1, <2>2 DEF Answers
  <2> QED BY <2>1, <2>3
<1>12. CASE VehicleFault
  <2> DEFINE f == Refusal(requests[1][1])
             r == requests[1][2]
  <2>1. /\ requests # <<>> /\ f \in Frames /\ r \in Values /\ requests' = Tail(requests)
        /\ register \in Values /\ buf' = buf /\ UNCHANGED <<pc, tid, value, abandons, result>>
        /\ \/ incoming' = incoming \o Stream(f) /\ register' = register
           \/ incoming' = incoming /\ register' \in {register, r}
    BY <1>1, <1>12, HeadRequest DEF VehicleFault, TypeOK
  <2>2. CASE incoming' = incoming \o Stream(f) /\ register' = register
    <3>1. Gets(Sent, Sent', f)
      BY <1>1, <2>1, <2>2, FrameAdds, AddsGets
    <3>2. Answers(f, register)
      BY <2>1, <2>2, <3>1 DEF Answers
    <3> QED BY <2>1, <3>2
  <2>3. CASE incoming' = incoming /\ register' \in {register, r}
    <3>1. Sent' = Sent
      BY <2>1, <2>3 DEF Sent
    <3>2. Gets(Sent, Sent', Beat)
      BY <1>1, <3>1 DEF Gets
    <3>3. Answers(Beat, register') /\ register' \in Values
      BY <2>1, <2>3, <3>2 DEF Answers
    <3> QED BY <3>3, BeatIsFrame
  <2> QED BY <2>1, <2>2, <2>3
<1> QED BY <1>2, <1>3, <1>4, <1>5, <1>6, <1>8, <1>9, <1>10, <1>11, <1>12 DEF Next, Client

\* The facts of a step that the lemmas below start from.
LEMMA StepTypes ==
  ASSUME FrameInv, TypeOK'
  PROVE  /\ Sent \in Seq(Byte) /\ Len(Sent) \in Nat /\ Sent' \in Seq(Byte) /\ Len(Sent') \in Nat
         /\ requests \in Seq((1 .. LastTid) \X Values) /\ Len(requests) \in Nat
         /\ tid \in Nat /\ tid \in 1 .. LastTid /\ value \in Values
         /\ <<tid, value>> \in (1 .. LastTid) \X Values
         /\ NextTid # tid
<1>1. Sent \in Seq(Byte) /\ Sent' \in Seq(Byte)
  BY SeqParts DEF FrameInv, TypeOK, Sent
<1>2. requests \in Seq((1 .. LastTid) \X Values) /\ tid \in 1 .. LastTid /\ value \in Values
  BY DEF FrameInv, TypeOK
<1>3. tid \in Nat
  BY TypeParts DEF FrameInv
<1>4. NextTid # tid
  BY <1>3, LastTidIsNat DEF NextTid
<1> QED BY <1>1, <1>2, <1>3, <1>4

LEMMA Appended ==
  ASSUME FrameInv, requests' = Append(requests, <<tid, value>>)
  PROVE  /\ Len(requests') = Len(requests) + 1 /\ Len(requests) \in Nat
         /\ \A j \in 1 .. Len(requests') :
              \/ j \in 1 .. Len(requests) /\ requests'[j] = requests[j]
              \/ j = Len(requests) + 1 /\ requests'[j] = <<tid, value>>
<1>1. requests \in Seq((1 .. LastTid) \X Values) /\ <<tid, value>> \in (1 .. LastTid) \X Values
  BY DEF FrameInv, TypeOK
<1>2. Len(requests) \in Nat /\ Len(requests') = Len(requests) + 1
  BY <1>1, AppendProperties
<1>3. ASSUME NEW j \in 1 .. Len(requests')
      PROVE  \/ j \in 1 .. Len(requests) /\ requests'[j] = requests[j]
             \/ j = Len(requests) + 1 /\ requests'[j] = <<tid, value>>
  <2>1. CASE j \in 1 .. Len(requests)
    BY <1>1, <2>1, AppendProperties
  <2>2. CASE j = Len(requests) + 1
    BY <1>1, <2>2, AppendProperties
  <2> QED BY <1>2, <2>1, <2>2
<1> QED BY <1>2, <1>3

LEMMA Tailed ==
  ASSUME FrameInv, requests # <<>>, requests' = Tail(requests)
  PROVE  /\ Len(requests') = Len(requests) - 1 /\ Len(requests) \in Nat /\ Len(requests) >= 1
         /\ 1 \in 1 .. Len(requests)
         /\ \A j \in 1 .. Len(requests') : /\ j + 1 \in 1 .. Len(requests)
                                           /\ requests'[j] = requests[j + 1]
<1>1. /\ Len(requests) \in Nat /\ Len(requests) >= 1 /\ Len(requests') = Len(requests) - 1
      /\ \A j \in 1 .. Len(requests') : requests'[j] = requests[j + 1]
  BY HeadRequest DEF FrameInv
<1>2. \A j \in 1 .. Len(requests') : j + 1 \in 1 .. Len(requests)
  BY <1>1
<1>3. 1 \in 1 .. Len(requests)
  BY <1>1
<1> QED BY <1>1, <1>2, <1>3

\* When the reply is accepted, all that is left on the line belongs to the
\* transaction that ends.
LEMMA AcceptedIsOld ==
  ASSUME FrameInv, TypeOK', CurrentIsLast, Accepts
  PROVE  /\ \A i \in 1 .. Len(Sent') : Sent'[i][1].kind # "beat" => Sent'[i][1].tid # tid'
         /\ \A j \in 1 .. Len(requests') : requests'[j][1] # tid'
<1>1. Sent[1][1].kind # "beat" /\ Sent[1][1].tid = tid /\ 1 \in Places
  BY DEF Accepts, Echo
<1>2. /\ \A k \in 1 .. Len(Sent) : Sent[k][1].kind # "beat" => Sent[k][1].tid = tid
      /\ \A j \in 1 .. Len(requests) : requests[j][1] = tid
  BY <1>1 DEF CurrentIsLast
<1>3. tid' # tid /\ requests' = requests
  BY StepTypes DEF Accepts
<1>4. PICK n \in Nat : \A i \in 1 .. Len(Sent') : Sent'[i][1].kind # "beat" =>
        i + n \in 1 .. Len(Sent) /\ Sent'[i] = Sent[i + n]
  BY DEF Accepts, Keeps
<1> QED BY <1>2, <1>3, <1>4

LEMMA CurrentStep ==
  ASSUME FrameInv, TypeOK', CurrentIsLast, ControlAddr # 0, [Next]_vars
  PROVE  CurrentIsLast'
<1> USE StepTypes
<1>1. CASE Accepts
  BY <1>1, AcceptedIsOld DEF CurrentIsLast, Places
<1>2. CASE Fails
  <2>1. Len(Sent') = 0 /\ Len(requests') = 0
    BY <1>2 DEF Fails
  <2> QED BY <2>1 DEF CurrentIsLast, Places
<1>3. CASE tid' = tid /\ Keeps(Sent, Sent') /\ requests' = requests
  <2>1. PICK n \in Nat : \A i \in 1 .. Len(Sent') : Sent'[i][1].kind # "beat" =>
          i + n \in 1 .. Len(Sent) /\ Sent'[i] = Sent[i + n]
    BY <1>3 DEF Keeps
  <2>2. ASSUME NEW i \in 1 .. Len(Sent'), Sent'[i][1].kind # "beat", Sent'[i][1].tid = tid
        PROVE  /\ \A k \in i .. Len(Sent') : Sent'[k][1].kind # "beat" => Sent'[k][1].tid = tid
               /\ \A j \in 1 .. Len(requests) : requests[j][1] = tid
    <3>1. i + n \in Places /\ Sent'[i] = Sent[i + n]
      BY <2>1, <2>2 DEF Places
    <3>2. /\ \A k \in i + n .. Len(Sent) : Sent[k][1].kind # "beat" => Sent[k][1].tid = tid
          /\ \A j \in 1 .. Len(requests) : requests[j][1] = tid
      BY <2>2, <3>1 DEF CurrentIsLast
    <3>3. ASSUME NEW k \in i .. Len(Sent'), Sent'[k][1].kind # "beat" PROVE Sent'[k][1].tid = tid
      <4>1. k \in 1 .. Len(Sent')
        OBVIOUS
      <4>2. k + n \in 1 .. Len(Sent) /\ Sent'[k] = Sent[k + n]
        BY <2>1, <3>3, <4>1
      <4>3. k + n \in i + n .. Len(Sent)
        BY <4>2
      <4> QED BY <3>2, <3>3, <4>2, <4>3
    <3> QED BY <3>2, <3>3
  <2> QED BY <1>3, <2>2 DEF CurrentIsLast, Places
<1>4. CASE Writes
  <2>1. PICK n \in Nat : \A i \in 1 .. Len(Sent') : Sent'[i][1].kind # "beat" =>
          i + n \in 1 .. Len(Sent) /\ Sent'[i] = Sent[i + n]
    BY <1>4 DEF Writes, Keeps
  <2>2. /\ tid' = tid /\ Len(requests') = Len(requests) + 1
        /\ \A j \in 1 .. Len(requests') :
              \/ j \in 1 .. Len(requests) /\ requests'[j] = requests[j]
              \/ j = Len(requests) + 1 /\ requests'[j] = <<tid, value>>
    BY <1>4, Appended DEF Writes
  <2>3. ASSUME NEW i \in 1 .. Len(Sent'), Sent'[i][1].kind # "beat", Sent'[i][1].tid = tid
        PROVE  /\ \A k \in i .. Len(Sent') : Sent'[k][1].kind # "beat" => Sent'[k][1].tid = tid
               /\ \A j \in 1 .. Len(requests') : requests'[j][1] = tid
    <3>1. i + n \in Places /\ Sent'[i] = Sent[i + n]
      BY <2>1, <2>3 DEF Places
    <3>2. /\ \A k \in i + n .. Len(Sent) : Sent[k][1].kind # "beat" => Sent[k][1].tid = tid
          /\ \A j \in 1 .. Len(requests) : requests[j][1] = tid
      BY <2>3, <3>1 DEF CurrentIsLast
    <3>3. ASSUME NEW k \in i .. Len(Sent'), Sent'[k][1].kind # "beat" PROVE Sent'[k][1].tid = tid
      <4>1. k \in 1 .. Len(Sent')
        OBVIOUS
      <4>2. k + n \in 1 .. Len(Sent) /\ Sent'[k] = Sent[k + n]
        BY <2>1, <3>3, <4>1
      <4>3. k + n \in i + n .. Len(Sent)
        BY <4>2
      <4> QED BY <3>2, <3>3, <4>2, <4>3
    <3> QED BY <2>2, <3>2, <3>3
  <2>4. ASSUME NEW j \in 1 .. Len(requests'), requests'[j][1] = tid,
               NEW k \in j .. Len(requests')
        PROVE  requests'[k][1] = tid
    <3>1. k \in 1 .. Len(requests')
      OBVIOUS
    <3>2. CASE k \in 1 .. Len(requests) /\ requests'[k] = requests[k]
      <4>1. j \in 1 .. Len(requests) /\ j # Len(requests) + 1 /\ k \in j .. Len(requests)
        BY <3>2
      <4>2. requests[j][1] = tid
        BY <2>2, <2>4, <4>1
      <4> QED BY <3>2, <4>1, <4>2 DEF CurrentIsLast
    <3> QED BY <2>2, <3>1, <3>2
  <2> QED BY <2>2, <2>3, <2>4 DEF CurrentIsLast, Places
<1>5. ASSUME NEW f \in Frames, NEW r \in Values, Answers(f, r)
      PROVE  CurrentIsLast'
  <2>1. /\ tid' = tid /\ Len(requests') = Len(requests) - 1 /\ 1 \in 1 .. Len(requests)
        /\ \A j \in 1 .. Len(requests') : /\ j + 1 \in 1 .. Len(requests)
                                          /\ requests'[j] = requests[j + 1]
    BY <1>5, Tailed DEF Answers
  <2>2. \A i \in 1 .. Len(Sent') : \/ i \in 1 .. Len(Sent) /\ Sent'[i] = Sent[i]
                                   \/ i > Len(Sent) /\ Sent'[i][1] = f
    BY <1>5 DEF Answers, Gets
  <2>3. f.kind # "beat" => f.tid = requests[1][1]
    BY <1>5 DEF Answers, Echo, Refusal, Beat
  <2>4. ASSUME NEW i \in 1 .. Len(Sent'), Sent'[i][1].kind # "beat", Sent'[i][1].tid = tid
        PROVE  \A j \in 1 .. Len(requests) : requests[j][1] = tid
    <3>1. CASE i \in 1 .. Len(Sent) /\ Sent'[i] = Sent[i]
      BY <2>4, <3>1 DEF CurrentIsLast, Places
    <3>2. CASE Sent'[i][1] = f
      <4>1. requests[1][1] = tid
        BY <2>3, <2>4, <3>2
      <4> QED BY <2>1, <4>1 DEF CurrentIsLast
    <3> QED BY <2>2, <3>1, <3>2
  <2>5. ASSUME NEW i \in 1 .. Len(Sent'), Sent'[i][1].kind # "beat", Sent'[i][1].tid = tid,
               NEW k \in i .. Len(Sent'), Sent'[k][1].kind # "beat"
        PROVE  Sent'[k][1].tid = tid
    <3>1. k \in 1 .. Len(Sent')
      OBVIOUS
    <3>2. CASE Sent'[k][1] = f
      BY <2>1, <2>3, <2>4, <2>5, <3>2
    <3>3. CASE k \in 1 .. Len(Sent) /\ Sent'[k] = Sent[k]
      <4>1. i \in 1 .. Len(Sent) /\ k \in i .. Len(Sent) /\ ~(i > Len(Sent))
        BY <3>3
      <4>2. Sent'[i] = Sent[i]
        BY <2>2, <4>1
      <4> QED BY <2>5, <3>3, <4>1, <4>2 DEF CurrentIsLast, Places
    <3> QED BY <2>2, <3>1, <3>2, <3>3
  <2>6. ASSUME NEW j \in 1 .. Len(requests'), requests'[j][1] = tid,
               NEW k \in j .. Len(requests')
        PROVE  requests'[k][1] = tid
    <3>1. k \in 1 .. Len(requests')
      BY <2>1
    <3>2. /\ j + 1 \in 1 .. Len(requests) /\ requests'[j] = requests[j + 1]
          /\ k + 1 \in 1 .. Len(requests) /\ requests'[k] = requests[k + 1]
      BY <2>1, <3>1
    <3>3. k + 1 \in j + 1 .. Len(requests)
      BY <2>1, <3>2
    <3> QED BY <2>6, <3>2, <3>3 DEF CurrentIsLast
  <2>7. \A i \in 1 .. Len(Sent') : Sent'[i][1].kind # "beat" /\ Sent'[i][1].tid = tid =>
          \A j \in 1 .. Len(requests') : requests'[j][1] = tid
    BY <2>1, <2>4
  <2> QED BY <2>1, <2>5, <2>6, <2>7 DEF CurrentIsLast, Places
<1>6. CASE Quiet \/ Interrupted
  BY <1>3, <1>6 DEF Quiet, Interrupted
<1>7. CASE Starts
  BY <1>3, <1>7, SameKeeps DEF Starts
<1> QED BY <1>1, <1>2, <1>4, <1>5, <1>6, <1>7, KindsOfSteps

LEMMA EchoStep ==
  ASSUME FrameInv, TypeOK', EchoIsTrue, OneOnItsWay, ControlAddr # 0, [Next]_vars
  PROVE  EchoIsTrue'
<1> USE StepTypes
<1>1. CASE Starts \/ Fails \/ Interrupted \/ Accepts
  BY <1>1 DEF Starts, Fails, Interrupted, Accepts, EchoIsTrue, Receiving
<1> SUFFICES ASSUME Receiving',
                    ~(Starts \/ Fails \/ Interrupted \/ Accepts)
             PROVE  /\ \A i \in 1 .. Len(Sent') : Sent'[i][1] = Echo(tid', value') =>
                         register' = value' /\ \A j \in 1 .. Len(requests') : requests'[j][2] = value'
                    /\ \A j \in 1 .. Len(requests') : requests'[j] = <<tid', value'>> =>
                         \A k \in j .. Len(requests') : requests'[k][2] = value'
  BY <1>1 DEF EchoIsTrue, Places
<1>2. CASE Quiet
  <2>1. PICK n \in Nat : \A i \in 1 .. Len(Sent') : Sent'[i][1].kind # "beat" =>
          i + n \in 1 .. Len(Sent) /\ Sent'[i] = Sent[i + n]
    BY <1>2 DEF Quiet, Keeps
  <2>2. UNCHANGED <<tid, value, requests, register>> /\ Receiving
    BY <1>2 DEF Quiet
  <2>3. ASSUME NEW i \in 1 .. Len(Sent'), Sent'[i][1] = Echo(tid, value)
        PROVE  register = value /\ \A j \in 1 .. Len(requests) : requests[j][2] = value
    <3>1. Sent'[i][1].kind # "beat"
      BY <2>3 DEF Echo
    <3>2. i + n \in Places /\ Sent[i + n][1] = Echo(tid, value)
      BY <2>1, <2>3, <3>1 DEF Places
    <3> QED BY <2>2, <3>2 DEF EchoIsTrue
  <2> QED BY <2>2, <2>3 DEF EchoIsTrue
<1>3. CASE Writes
  <2>1. PICK n \in Nat : \A i \in 1 .. Len(Sent') : Sent'[i][1].kind # "beat" =>
          i + n \in 1 .. Len(Sent) /\ Sent'[i] = Sent[i + n]
    BY <1>3 DEF Writes, Keeps
  <2>2. /\ UNCHANGED <<tid, value, register>> /\ Len(requests') = Len(requests) + 1
        /\ pc \in {"idle", "flush"}
        /\ \A j \in 1 .. Len(requests') :
              \/ j \in 1 .. Len(requests) /\ requests'[j] = requests[j]
              \/ j = Len(requests) + 1 /\ requests'[j] = <<tid, value>>
    BY <1>3, Appended DEF Writes
  <2>3. ASSUME NEW i \in 1 .. Len(Sent'), Sent'[i][1] = Echo(tid, value)
        PROVE  register = value /\ \A j \in 1 .. Len(requests') : requests'[j][2] = value
    <3>1. Sent'[i][1].kind = "echo" /\ Sent'[i][1].tid = tid /\ Sent'[i][1].value = value
      BY <2>3 DEF Echo
    <3>2. i + n \in Places /\ Sent[i + n] = Sent'[i]
      BY <2>1, <3>1 DEF Places
    <3>3. register = value /\ requests = <<>>
      BY <2>2, <3>1, <3>2 DEF OneOnItsWay
    <3>4. Len(requests) = 0
      BY <3>3
    <3> QED BY <2>2, <3>3, <3>4
  <2>4. ASSUME NEW j \in 1 .. Len(requests'), requests'[j] = <<tid, value>>,
               NEW k \in j .. Len(requests')
        PROVE  requests'[k][2] = value
    <3>1. k \in 1 .. Len(requests')
      BY <2>2
    <3>2. CASE k \in 1 .. Len(requests) /\ requests'[k] = requests[k]
      <4>1. j \in 1 .. Len(requests) /\ j # Len(requests) + 1
        BY <3>2
      <4>2. requests[j][1] = tid /\ requests[j][2] = value
        BY <2>2, <2>4, <4>1
      <4>3. j = Len(requests)
        BY <2>2, <4>1, <4>2 DEF OneOnItsWay
      <4>4. k = j
        BY <3>2, <4>3
      <4> QED BY <3>2, <4>2, <4>4
    <3> QED BY <2>2, <3>1, <3>2
  <2> QED BY <2>2, <2>3, <2>4
<1>4. ASSUME NEW f \in Frames, NEW r \in Values, Answers(f, r)
      PROVE  /\ \A i \in 1 .. Len(Sent') : Sent'[i][1] = Echo(tid', value') =>
                  register' = value' /\ \A j \in 1 .. Len(requests') : requests'[j][2] = value'
             /\ \A j \in 1 .. Len(requests') : requests'[j] = <<tid', value'>> =>
                  \A k \in j .. Len(requests') : requests'[k][2] = value'
  <2>1. /\ UNCHANGED <<tid, value>> /\ Receiving /\ 1 \in 1 .. Len(requests)
        /\ Len(requests') = Len(requests) - 1
        /\ \A j \in 1 .. Len(requests') : /\ j + 1 \in 1 .. Len(requests)
                                          /\ requests'[j] = requests[j + 1]
    BY <1>4, Tailed DEF Answers, Receiving
  <2>2. \A i \in 1 .. Len(Sent') : \/ i \in 1 .. Len(Sent) /\ Sent'[i] = Sent[i]
                                   \/ i > Len(Sent) /\ Sent'[i][1] = f
    BY <1>4 DEF Answers, Gets
  <2>3. register' = r /\ r \in {register, requests[1][2]}
    BY <1>4 DEF Answers
  <2>4. ASSUME NEW i \in 1 .. Len(Sent'), Sent'[i][1] = Echo(tid, value)
        PROVE  register' = value /\ \A j \in 1 .. Len(requests) : requests[j][2] = value
    <3>1. CASE i \in 1 .. Len(Sent) /\ Sent'[i] = Sent[i]
      <4>1. register = value /\ \A j \in 1 .. Len(requests) : requests[j][2] = value
        BY <2>1, <2>4, <3>1 DEF EchoIsTrue, Places
      <4> QED BY <2>1, <2>3, <4>1
    <3>2. CASE Sent'[i][1] = f
      <4>1. f.kind = "echo" /\ f.tid = tid /\ f.value = value
        BY <2>4, <3>2 DEF Echo
      <4>2. f = Echo(requests[1][1], requests[1][2]) /\ r = requests[1][2]
        BY <1>4, <4>1 DEF Answers, Refusal, Beat
      <4>3. requests[1][1] = tid /\ requests[1][2] = value
        BY <4>1, <4>2 DEF Echo
      <4>4. requests[1] = <<tid, value>>
        BY <2>1, <4>3
      <4>5. \A k \in 1 .. Len(requests) : requests[k][2] = value
        BY <2>1, <4>4 DEF EchoIsTrue
      <4> QED BY <2>3, <4>2, <4>3, <4>5
    <3> QED BY <2>2, <3>1, <3>2
  <2>5. ASSUME NEW j \in 1 .. Len(requests'), requests'[j] = <<tid, value>>,
               NEW k \in j .. Len(requests')
        PROVE  requests'[k][2] = value
    <3>1. k \in 1 .. Len(requests')
      BY <2>1
    <3>2. /\ j + 1 \in 1 .. Len(requests) /\ requests'[j] = requests[j + 1]
          /\ k + 1 \in 1 .. Len(requests) /\ requests'[k] = requests[k + 1]
      BY <2>1, <3>1
    <3>3. k + 1 \in j + 1 .. Len(requests)
      BY <2>1, <3>2
    <3> QED BY <2>1, <2>5, <3>2, <3>3 DEF EchoIsTrue
  <2> QED BY <2>1, <2>4, <2>5
<1> QED BY <1>2, <1>3, <1>4, KindsOfSteps

LEMMA OneStep ==
  ASSUME FrameInv, TypeOK', CurrentIsLast, OneOnItsWay, Fresh, ControlAddr # 0, [Next]_vars
  PROVE  OneOnItsWay'
<1> USE StepTypes
<1> SUFFICES ASSUME pc' \in {"idle", "flush"} \/ abandons' = 0
             PROVE  /\ \A i \in 1 .. Len(Sent') : Sent'[i][1].kind = "echo" /\ Sent'[i][1].tid = tid' =>
                         register' = Sent'[i][1].value /\ requests' = <<>>
                    /\ \A j \in 1 .. Len(requests') : requests'[j][1] = tid' => j = Len(requests')
  BY DEF OneOnItsWay, Places
<1>1. CASE Accepts
  BY <1>1, AcceptedIsOld
<1>2. CASE Fails
  <2>1. Len(Sent') = 0 /\ Len(requests') = 0
    BY <1>2 DEF Fails
  <2> QED BY <2>1
<1>3. CASE Keeps(Sent, Sent') /\ UNCHANGED <<tid, requests, register>>
           /\ (pc \in {"idle", "flush"} \/ abandons = 0)
  <2>1. PICK n \in Nat : \A i \in 1 .. Len(Sent') : Sent'[i][1].kind # "beat" =>
          i + n \in 1 .. Len(Sent) /\ Sent'[i] = Sent[i + n]
    BY <1>3 DEF Keeps
  <2> QED BY <1>3, <2>1 DEF OneOnItsWay, Places
<1>4. CASE Writes
  <2>1. PICK n \in Nat : \A i \in 1 .. Len(Sent') : Sent'[i][1].kind # "beat" =>
          i + n \in 1 .. Len(Sent) /\ Sent'[i] = Sent[i + n]
    BY <1>4 DEF Writes, Keeps
  <2>2. /\ tid' = tid /\ Len(requests') = Len(requests) + 1
        /\ pc \in {"idle", "flush"} /\ abandons = 0
        /\ \A j \in 1 .. Len(requests') :
              \/ j \in 1 .. Len(requests) /\ requests'[j] = requests[j]
              \/ j = Len(requests) + 1 /\ requests'[j] = <<tid, value>>
    BY <1>4, Appended DEF Writes
  <2> QED BY <2>1, <2>2 DEF Fresh, Places
<1>5. ASSUME NEW f \in Frames, NEW r \in Values, Answers(f, r)
      PROVE  /\ \A i \in 1 .. Len(Sent') : Sent'[i][1].kind = "echo" /\ Sent'[i][1].tid = tid' =>
                  register' = Sent'[i][1].value /\ requests' = <<>>
             /\ \A j \in 1 .. Len(requests') : requests'[j][1] = tid' => j = Len(requests')
  <2>1. /\ UNCHANGED <<pc, tid, abandons>> /\ 1 \in 1 .. Len(requests)
        /\ requests # <<>> /\ requests' = Tail(requests) /\ Len(requests') = Len(requests) - 1
        /\ \A j \in 1 .. Len(requests') : /\ j + 1 \in 1 .. Len(requests)
                                          /\ requests'[j] = requests[j + 1]
    BY <1>5, Tailed DEF Answers
  <2>2. \A i \in 1 .. Len(Sent') : \/ i \in 1 .. Len(Sent) /\ Sent'[i] = Sent[i]
                                   \/ i > Len(Sent) /\ Sent'[i][1] = f
    BY <1>5 DEF Answers, Gets
  <2>3. /\ \A i \in 1 .. Len(Sent) : ~(Sent[i][1].kind = "echo" /\ Sent[i][1].tid = tid)
        /\ \A j \in 1 .. Len(requests) : requests[j][1] = tid => j = Len(requests)
    BY <2>1 DEF OneOnItsWay, Places
  <2>4. ASSUME NEW i \in 1 .. Len(Sent'), Sent'[i][1].kind = "echo", Sent'[i][1].tid = tid
        PROVE  register' = Sent'[i][1].value /\ requests' = <<>>
    <3>1. Sent'[i][1] = f
      BY <2>2, <2>3, <2>4
    <3>2. f = Echo(requests[1][1], requests[1][2]) /\ register' = requests[1][2]
      BY <1>5, <2>4, <3>1 DEF Answers, Refusal, Beat
    <3>3. requests[1][1] = tid /\ f.value = requests[1][2]
      BY <2>4, <3>1, <3>2 DEF Echo
    <3>4. Len(requests) = 1
      BY <2>1, <2>3, <3>3
    <3>5. requests' = <<>>
      <4>1. Len(requests') = 0 /\ requests' \in Seq((1 .. LastTid) \X Values)
        BY <2>1, <3>4 DEF TypeOK
      <4> QED BY <4>1, EmptySeq
    <3> QED BY <3>1, <3>2, <3>3, <3>5
  <2>5. ASSUME NEW j \in 1 .. Len(requests'), requests'[j][1] = tid
        PROVE  j = Len(requests')
    <3>1. j + 1 \in 1 .. Len(requests) /\ requests[j + 1][1] = tid
      BY <2>1, <2>5
    <3>2. j + 1 = Len(requests)
      BY <2>3, <3>1
    <3>3. Len(requests) \in Nat /\ j \in Nat /\ Len(requests') = Len(requests) - 1
      BY <2>1, StepTypes
    <3> QED BY <3>2, <3>3
  <2> QED BY <2>1, <2>4, <2>5
<1>6. CASE Quiet \/ Interrupted \/ Starts
  <2>1. Keeps(Sent, Sent') /\ UNCHANGED <<tid, requests, register>>
    BY <1>6, SameKeeps DEF Quiet, Interrupted, Starts
  <2>2. pc \in {"idle", "flush"} \/ abandons = 0
    BY <1>6 DEF Quiet, Interrupted, Starts, Between
  <2> QED BY <1>3, <2>1, <2>2
<1> QED BY <1>1, <1>2, <1>4, <1>5, <1>6, KindsOfSteps

LEMMA FreshStep ==
  ASSUME FrameInv, TypeOK', CurrentIsLast, Fresh, ControlAddr # 0, [Next]_vars
  PROVE  Fresh'
<1> USE StepTypes
<1> SUFFICES ASSUME pc' \in {"idle", "flush"}, abandons' = 0
             PROVE  /\ \A i \in 1 .. Len(Sent') : Sent'[i][1].kind # "beat" => Sent'[i][1].tid # tid'
                    /\ \A j \in 1 .. Len(requests') : requests'[j][1] # tid'
  BY DEF Fresh, Places
<1>1. CASE Accepts
  BY <1>1, AcceptedIsOld
<1>2. CASE Fails
  <2>1. Len(Sent') = 0 /\ Len(requests') = 0
    BY <1>2 DEF Fails
  <2> QED BY <2>1
<1>3. CASE Quiet \/ Starts
  <2>1. Keeps(Sent, Sent') /\ UNCHANGED <<tid, requests, abandons>> /\ pc \in {"idle", "flush"}
    BY <1>3, SameKeeps DEF Quiet, Starts, Between
  <2>2. PICK n \in Nat : \A i \in 1 .. Len(Sent') : Sent'[i][1].kind # "beat" =>
          i + n \in 1 .. Len(Sent) /\ Sent'[i] = Sent[i + n]
    BY <2>1 DEF Keeps
  <2> QED BY <2>1, <2>2 DEF Fresh, Places
<1>4. ASSUME NEW f \in Frames, NEW r \in Values, Answers(f, r)
      PROVE  /\ \A i \in 1 .. Len(Sent') : Sent'[i][1].kind # "beat" => Sent'[i][1].tid # tid'
             /\ \A j \in 1 .. Len(requests') : requests'[j][1] # tid'
  <2>1. /\ UNCHANGED <<pc, tid, abandons>> /\ 1 \in 1 .. Len(requests)
        /\ \A j \in 1 .. Len(requests') : /\ j + 1 \in 1 .. Len(requests)
                                          /\ requests'[j] = requests[j + 1]
    BY <1>4, Tailed DEF Answers
  <2>2. \A i \in 1 .. Len(Sent') : \/ i \in 1 .. Len(Sent) /\ Sent'[i] = Sent[i]
                                   \/ i > Len(Sent) /\ Sent'[i][1] = f
    BY <1>4 DEF Answers, Gets
  <2>3. f.kind # "beat" => f.tid = requests[1][1]
    BY <1>4 DEF Answers, Echo, Refusal, Beat
  <2>4. /\ \A i \in 1 .. Len(Sent) : Sent[i][1].kind # "beat" => Sent[i][1].tid # tid
        /\ \A j \in 1 .. Len(requests) : requests[j][1] # tid
    BY <2>1 DEF Fresh, Places
  <2> QED BY <2>1, <2>2, <2>3, <2>4
<1>5. CASE Writes \/ Interrupted
  BY <1>5 DEF Writes, Interrupted
<1> QED BY <1>1, <1>2, <1>3, <1>4, <1>5, KindsOfSteps

LEMMA DoneStep ==
  ASSUME FrameInv, TypeOK', EchoIsTrue, DoneStaysDone, ControlAddr # 0, [Next]_vars
  PROVE  DoneStaysDone'
<1>1. CASE Accepts
  <2>1. Sent[1][1] = Echo(tid, value) /\ 1 \in Places /\ Receiving
    BY <1>1 DEF Accepts, Receiving
  <2>2. register = value /\ \A j \in 1 .. Len(requests) : requests[j][2] = value
    BY <2>1 DEF EchoIsTrue
  <2> QED BY <1>1, <2>2 DEF Accepts, DoneStaysDone
<1>2. CASE Starts \/ Fails \/ Interrupted
  BY <1>2 DEF Starts, Fails, Interrupted, DoneStaysDone
<1>3. CASE Quiet \/ Writes
  BY <1>3 DEF Quiet, Writes, DoneStaysDone
<1>4. ASSUME NEW f \in Frames, NEW r \in Values, Answers(f, r)
      PROVE  DoneStaysDone'
  <2>1. /\ UNCHANGED <<pc, value, result>> /\ 1 \in 1 .. Len(requests)
        /\ \A j \in 1 .. Len(requests') : /\ j + 1 \in 1 .. Len(requests)
                                          /\ requests'[j] = requests[j + 1]
    BY <1>4, Tailed DEF Answers
  <2>2. register' \in {register, requests[1][2]}
    BY <1>4 DEF Answers
  <2> QED BY <2>1, <2>2 DEF DoneStaysDone
<1> QED BY <1>1, <1>2, <1>3, <1>4, KindsOfSteps

\* A write that is reported as done has been carried out, also when an
\* abandoned write left a request, or its reply, with the same identifier on
\* the line: the vehicle answers in order, so that the reply that is accepted
\* is the last word on the register (_write_single_register).  The register
\* the commands go to is not register 0: there the last byte of the length of
\* a reply could be read as a value.
THEOREM SuccessIsTrue ==
  ASSUME ControlAddr # 0
  PROVE  Spec => []SuccessIsDone
<1>1. Init => WriteInv
  <2> SUFFICES ASSUME Init PROVE WriteInv
    OBVIOUS
  <2>1. FrameInv
    BY FrameInit
  <2>2. Sent = <<>> /\ requests = <<>> /\ pc = "idle" /\ result = "none"
    BY ConcatEmptySeq DEF Init, Sent
  <2> QED BY <2>1, <2>2 DEF WriteInv, CurrentIsLast, EchoIsTrue, OneOnItsWay, Fresh,
                            DoneStaysDone, Receiving, Places
<1>2. WriteInv /\ [Next]_vars => WriteInv'
  <2> SUFFICES ASSUME WriteInv, [Next]_vars PROVE WriteInv'
    OBVIOUS
  <2>1. FrameInv' /\ TypeOK'
    BY FrameStep DEF WriteInv, FrameInv
  <2> QED BY <2>1, CurrentStep, EchoStep, OneStep, FreshStep, DoneStep DEF WriteInv
<1>3. WriteInv => SuccessIsDone
  BY DEF WriteInv, DoneStaysDone, SuccessIsDone
<1> QED BY <1>1, <1>2, <1>3, PTL DEF Spec
=============================================================================
