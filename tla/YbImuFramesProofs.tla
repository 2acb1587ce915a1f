-------------------------- MODULE YbImuFramesProofs --------------------------
(***************************************************************************)
(* The byte parser of the IMU library, for every alphabet, every set of    *)
(* reports and any number of damages: it stays within its types, leaves    *)
(* every frame it has begun, and is back in step with the frames a bounded *)
(* number of sound bytes after the last damage.                            *)
(***************************************************************************)
EXTENDS YbImuFrames, SequenceTheorems, TLAPS

Bytes == 0..(BYTES - 1)

LEMMA Constants ==
  /\ BYTES \in Nat /\ RX_MAX_LEN \in Nat /\ 0 \in Bytes
  /\ \A r \in Reports : FrameOf[r] \in Seq(Bytes)
  /\ Stray \subseteq Bytes
BY FrameConstants, LineBytes DEF Bytes

(* A piece of a frame, and a frame without one of its bytes, are bytes.     *)
LEMMA PieceOfFrame ==
  ASSUME NEW s \in Seq(Bytes), NEW m \in Nat, NEW n \in Nat, m >= 1, n <= Len(s)
  PROVE  SubSeq(s, m, n) \in Seq(Bytes)
<1>1. \A i \in m..n : s[i] \in Bytes
  BY ElementOfSeq, LenProperties
<1> QED
  BY <1>1, SubSeqProperties

LEMMA FrameWithout ==
  ASSUME NEW s \in Seq(Bytes), NEW i \in 1..Len(s)
  PROVE  RemoveAt(s, i) \in Seq(Bytes)
<1>1. Len(s) \in Nat
  BY LenProperties
<1>2. SubSeq(s, 1, i - 1) \in Seq(Bytes) /\ SubSeq(s, i + 1, Len(s)) \in Seq(Bytes)
  BY <1>1, PieceOfFrame
<1> QED
  BY <1>2, ConcatProperties DEF RemoveAt

LEMMA Concatenated ==
  ASSUME NEW S, NEW s \in Seq(S), NEW t \in Seq(S)
  PROVE  /\ s \o t \in Seq(S) /\ Len(s) \in Nat /\ Len(t) \in Nat
         /\ Len(s \o t) = Len(s) + Len(t)
         /\ \A k \in 1..Len(s) : (s \o t)[k] = s[k]
         /\ \A k \in 1..Len(t) : (s \o t)[Len(s) + k] = t[k]
BY ConcatProperties, LenProperties

LEMMA Appended ==
  ASSUME NEW S, NEW s \in Seq(S), NEW e
  PROVE  /\ Len(s) \in Nat /\ Len(Append(s, e)) = Len(s) + 1
         /\ Append(s, e)[Len(s) + 1] = e
         /\ \A k \in 1..Len(s) : Append(s, e)[k] = s[k]
<1> DEFINE R == S \cup {e}
<1>1. s \in Seq(R) /\ e \in R
  BY SeqMonotonic
<1> HIDE DEF R
<1> QED
  BY <1>1, AppendProperties, LenProperties

LEMMA LastAppended ==
  ASSUME NEW S, NEW s \in Seq(S), NEW e
  PROVE  Append(s, e) # <<>> /\ Last(Append(s, e)) = e
<1>1. Len(s) \in Nat /\ Len(Append(s, e)) = Len(s) + 1 /\ Append(s, e)[Len(s) + 1] = e
  BY Appended
<1>2. Len(<<>>) = 0
  OBVIOUS
<1>3. Append(s, e) # <<>>
  BY <1>1, <1>2
<1> QED BY <1>1, <1>3 DEF Last

LEMMA InitTypeOK == Init => TypeOK
<1> SUFFICES ASSUME Init PROVE TypeOK
  OBVIOUS
<1> USE Constants DEF Bytes
<1>1. PICK r \in Reports :
        /\ \E n \in 2..(Len(FrameOf[r]) + 1) :
             line = SubSeq(FrameOf[r], n, Len(FrameOf[r]))
        /\ spoiled = ~Plain[r]
        /\ since = IF Plain[r] THEN RX_MAX_LEN ELSE 0
  BY DEF Init
<1>2. line \in Seq(Bytes)
  <2>1. Len(FrameOf[r]) \in Nat
    BY LenProperties
  <2>2. PICK n \in 2..(Len(FrameOf[r]) + 1) :
          line = SubSeq(FrameOf[r], n, Len(FrameOf[r]))
    BY <1>1
  <2>3. FrameOf[r] \in Seq(Bytes) /\ n \in Nat /\ n >= 1
    BY Constants
  <2>4. SubSeq(FrameOf[r], n, Len(FrameOf[r])) \in Seq(Bytes)
    <3>1. Len(FrameOf[r]) <= Len(FrameOf[r])
      BY <2>1
    <3> QED
      BY ONLY <2>1, <2>3, <3>1, PieceOfFrame
  <2> QED
    BY <2>2, <2>4, Zenon
<1>3. since \in Nat
  BY <1>1
<1>4. spoiled \in BOOLEAN
  BY <1>1, Zenon
<1>5. rx_data \in Seq(Bytes) /\ data_len \in 0..RX_MAX_LEN /\ data_func \in Bytes
  BY EmptySeq DEF Init
<1>6. running \in BOOLEAN /\ due \in BOOLEAN
  BY Zenon DEF Init
<1>7. rx_flag \in 0..5 /\ damage \in 0..MaxDamage
  BY LineBytes DEF Init
<1>8. sent \in Seq(Reports) /\ decoded \in Seq([func : Bytes, data : Seq(Bytes)])
  BY EmptySeq DEF Init
<1> QED
  BY <1>2, <1>3, <1>4, <1>5, <1>6, <1>7, <1>8 DEF TypeOK

(* What the line does to itself.                                            *)
LEMMA DamageTypeOK ==
  ASSUME TypeOK, NEW bytes \in Seq(Bytes), NEW undetectable, Damage(bytes, undetectable)
  PROVE  TypeOK'
<1>1. line' \in Seq(Bytes)
  BY ConcatProperties DEF TypeOK, Damage, Bytes
<1>2. damage' \in 0..MaxDamage /\ since' \in Nat
  BY LineBytes DEF TypeOK, Damage
<1>3. spoiled' \in BOOLEAN /\ due' \in BOOLEAN
  BY Zenon DEF Damage
<1>4. UNCHANGED <<running, parser, sent, decoded>>
  BY DEF Damage
<1> QED
  BY <1>1, <1>2, <1>3, <1>4 DEF TypeOK, Bytes, parser

LEMMA ReportTypeOK ==
  ASSUME TypeOK, NEW r \in Reports, Report(r)
  PROVE  TypeOK'
<1>1. line' \in Seq(Bytes)
  <2>1. line \in Seq(Bytes)
    BY Zenon DEF TypeOK, Bytes
  <2>2. FrameOf[r] \in Seq(Bytes)
    BY Constants
  <2>3. line \o FrameOf[r] \in Seq(Bytes)
    BY ONLY <2>1, <2>2, Concatenated
  <2> QED BY <2>3 DEF Report
<1>2. since' \in Nat
  <2>1. Len(FrameOf[r]) \in Nat
    BY Constants, LenProperties
  <2> QED
    BY <2>1 DEF TypeOK, Report
<1>3. spoiled' \in BOOLEAN /\ due' \in BOOLEAN
  <2>1. InSync \in BOOLEAN
    BY DEF InSync
  <2> QED
    BY <2>1, Zenon DEF Report
<1>4. UNCHANGED <<running, parser, damage, decoded>>
  BY DEF Report
<1>5. sent' \in Seq(Reports)
  BY AppendProperties DEF TypeOK, Report
<1> QED
  BY <1>1, <1>2, <1>3, <1>4, <1>5 DEF TypeOK, Bytes, parser

LEMMA LineTypeOK ==
  ASSUME TypeOK,
         (\E r \in Reports : Report(r) \/ WrongByte(r) \/ LostByte(r)) \/ StrayByte
  PROVE  TypeOK'
<1>1. ASSUME NEW r \in Reports, WrongByte(r)
      PROVE  TypeOK'
  <2>1. PICK i \in 1..Len(FrameOf[r]), b \in Stray :
          Damage([FrameOf[r] EXCEPT ![i] = b], i = 3 \/ ~Plain[r])
    BY <1>1 DEF WrongByte
  <2>2. [FrameOf[r] EXCEPT ![i] = b] \in Seq(Bytes)
    BY Constants, ExceptSeq
  <2> QED
    BY <2>1, <2>2, DamageTypeOK
<1>2. ASSUME NEW r \in Reports, LostByte(r)
      PROVE  TypeOK'
  <2>1. PICK i \in 1..Len(FrameOf[r]) : Damage(RemoveAt(FrameOf[r], i), TRUE)
    BY <1>2 DEF LostByte
  <2>2. RemoveAt(FrameOf[r], i) \in Seq(Bytes)
    BY Constants, FrameWithout
  <2> QED
    BY <2>1, <2>2, DamageTypeOK
<1>3. ASSUME StrayByte
      PROVE  TypeOK'
  <2>1. PICK b \in Stray : Damage(<<b>>, FALSE)
    BY <1>3 DEF StrayByte
  <2>2. <<b>> \in Seq(Bytes)
    BY Constants
  <2> QED
    BY <2>1, <2>2, DamageTypeOK
<1> QED
  BY <1>1, <1>2, <1>3, ReportTypeOK

(* What the parser does with one byte.                                      *)
LEMMA ReceiveTypeOK ==
  ASSUME TypeOK, NEW b \in Bytes, ReceiveData(b)
  PROVE  /\ rx_flag' \in 0..5 /\ data_len' \in 0..RX_MAX_LEN /\ data_func' \in Bytes
         /\ rx_data' \in Seq(Bytes) /\ running' \in BOOLEAN
         /\ decoded' \in Seq([func : Bytes, data : Seq(Bytes)])
<1> USE Constants DEF Bytes
<1>1. CASE AwaitHead1(b) \/ AwaitHead2(b)
  BY <1>1 DEF TypeOK, AwaitHead1, AwaitHead2
<1>2. CASE ReadLength(b)
  BY <1>2 DEF TypeOK, ReadLength
<1>3. CASE ReadFunc(b)
  BY <1>3, EmptySeq DEF TypeOK, ReadFunc
<1>4. CASE ReadData(b)
  BY <1>4, AppendProperties DEF TypeOK, ReadData
<1>5. CASE ReadCheckSum(b)
  <2>1. running' \in BOOLEAN
    BY <1>5, Zenon DEF ReadCheckSum
  <2>2. [func |-> data_func, data |-> rx_data] \in [func : Bytes, data : Seq(Bytes)]
    BY DEF TypeOK
  <2>3. decoded' \in Seq([func : Bytes, data : Seq(Bytes)])
    <3>1. decoded \in Seq([func : Bytes, data : Seq(Bytes)])
      BY DEF TypeOK
    <3>2. Append(decoded, [func |-> data_func, data |-> rx_data])
            \in Seq([func : Bytes, data : Seq(Bytes)])
      BY <2>2, <3>1, AppendProperties
    <3> QED
      BY <1>5, <3>1, <3>2, Zenon DEF ReadCheckSum
  <2> QED
    BY <1>5, <2>1, <2>3 DEF TypeOK, ReadCheckSum
<1> QED
  BY <1>1, <1>2, <1>3, <1>4, <1>5 DEF ReceiveData

LEMMA NextTypeOK ==
  ASSUME TypeOK, [Next]_vars
  PROVE  TypeOK'
<1>1. CASE DataHandle
  <2>1. Head(line) \in Bytes /\ line' \in Seq(Bytes)
    BY <1>1, HeadTailProperties DEF TypeOK, DataHandle, Bytes
  <2>2. ReceiveData(Head(line))
    BY <1>1 DEF DataHandle
  <2>3. /\ rx_flag' \in 0..5 /\ data_len' \in 0..RX_MAX_LEN /\ data_func' \in Bytes
        /\ rx_data' \in Seq(Bytes) /\ running' \in BOOLEAN
        /\ decoded' \in Seq([func : Bytes, data : Seq(Bytes)])
    BY <2>1, <2>2, ReceiveTypeOK
  <2> QED
    BY <1>1, <2>1, <2>3 DEF TypeOK, DataHandle, history, Bytes
<1>2. CASE UNCHANGED vars
  BY <1>2 DEF TypeOK, vars, parser, history
<1> QED
  BY <1>1, <1>2, LineTypeOK DEF Next

(* The parser and the line keep their types.                                *)
THEOREM TypeCorrect == Spec => []TypeOK
<1> QED
  BY InitTypeOK, NextTypeOK, PTL DEF Spec

-----------------------------------------------------------------------------
LEMMA NextFrameEnds ==
  ASSUME TypeOK, FrameEnds, [Next]_vars
  PROVE  FrameEnds'
<1>1. CASE DataHandle
  <2>1. PICK b \in Bytes : ReceiveData(b)
    BY <1>1, HeadTailProperties DEF TypeOK, DataHandle, Bytes
  <2>2. CASE AwaitHead1(b) \/ AwaitHead2(b) \/ ReadLength(b) \/ ReadCheckSum(b)
    BY <2>2 DEF FrameEnds, AwaitHead1, AwaitHead2, ReadLength, ReadCheckSum
  <2>3. CASE ReadFunc(b)
    BY <2>3 DEF FrameEnds, ReadFunc
  <2>4. CASE ReadData(b)
    <3>1. Len(rx_data') = Len(rx_data) + 1 /\ Len(rx_data) \in Nat
      BY <2>1, <2>4, AppendProperties, LenProperties DEF TypeOK, ReadData, Bytes
    <3>2. rx_data = <<>> => Len(rx_data) = 0
      BY EmptySeq
    <3> QED
      BY <2>4, <3>1, <3>2 DEF FrameEnds, TypeOK, ReadData, DataComplete
  <2> QED
    BY <2>1, <2>2, <2>3, <2>4 DEF ReceiveData
<1>2. CASE ~DataHandle
  <2>1. UNCHANGED parser
    BY <1>2
    DEF Next, Report, WrongByte, LostByte, StrayByte, Damage, vars
  <2> QED
    BY <2>1 DEF FrameEnds, parser
<1> QED
  BY <1>1, <1>2

(* Whatever the line carries, a frame the parser has begun comes to its end *)
(* after at most the announced number of bytes.                             *)
THEOREM FrameEndsHolds == Spec => []FrameEnds
<1>1. Init => FrameEnds
  BY DEF Init, FrameEnds
<1> QED
  BY <1>1, TypeCorrect, NextFrameEnds, PTL DEF Spec
-----------------------------------------------------------------------------
(* Back in step.                                                           *)

\* How many bytes the parser may take before it looks for a header again.
BytesLeft ==
  CASE rx_flag = 0 -> 0
    [] rx_flag = 1 -> RX_MAX_LEN - 1
    [] rx_flag = 2 -> RX_MAX_LEN - 2
    [] rx_flag = 3 -> IF data_len > 5 THEN data_len - 3 ELSE 3
    [] rx_flag = 4 -> IF data_len > Len(rx_data) + 5 THEN data_len - 4 - Len(rx_data) ELSE 2
    [] rx_flag = 5 -> 1

\* The last bytes of the line are what is left of whole frames: every byte is
\* marked with its report and its place in the frame.
MarkAt(bytes, m, j) ==
  /\ m[j][2] \in 1..Len(FrameOf[m[j][1]])
  /\ bytes[Len(bytes) - Len(m) + j] = FrameOf[m[j][1]][m[j][2]]
  /\ j < Len(m) => \/ m[j + 1] = <<m[j][1], m[j][2] + 1>>
                   \/ m[j][2] = Len(FrameOf[m[j][1]]) /\ m[j + 1][2] = 1
  /\ j = Len(m) => m[j][2] = Len(FrameOf[m[j][1]])

Marked(m) ==
  /\ m \in Seq(Reports \X Nat) /\ Len(m) <= Len(line)
  /\ \A j \in 1..Len(m) : MarkAt(line, m, j)

\* The parser stands at byte i of the frame of r, and has the bytes before it.
InFrame(r, i) ==
  /\ i >= 2
  /\ rx_flag = IF i <= 4 THEN i - 1 ELSE IF i < Len(FrameOf[r]) THEN 4 ELSE 5
  /\ i >= 4 => data_len = Len(r.data) + 5
  /\ i >= 5 => data_func = r.func /\ rx_data = SubSeq(r.data, 1, i - 5)

\* Behind n sound bytes the parser is in step with the frames, passes over the
\* rest of one without a header in it, or will do so soon enough.
AtStart(m) == rx_flag = 0 /\ (m # <<>> => m[1][2] = 1)
PassesOver(m, n) == rx_flag = 0 /\ m # <<>> /\ m[1][2] > 1 /\ n + 1 < RX_MAX_LEN + m[1][2]
Reads(m) == m # <<>> /\ InFrame(m[1][1], m[1][2])
OutOfStep(n) == rx_flag # 0 /\ BytesLeft + n < RX_MAX_LEN

Noise(m) == Len(line) - Len(m)

\* Sound bytes are counted from the last noise on, to RX_MAX_LEN and further.
Counts(m, n) ==
  /\ Noise(m) > 0 => n = 0 /\ (m # <<>> => m[1][2] = 1)
  /\ IF since < RX_MAX_LEN THEN since = n + Len(m) ELSE n + Len(m) >= RX_MAX_LEN

\* Only behind RX_MAX_LEN sound bytes may a frame begin that is not plain.
PlainUntil(m, n) == \A j \in 1..Len(m) : n + j < RX_MAX_LEN + m[j][2] => Plain[m[j][1]]

Place(m, n) ==
  running /\ Noise(m) = 0 => AtStart(m) \/ PassesOver(m, n) \/ Reads(m) \/ OutOfStep(n)

\* The last frame, when it is due: it begins behind RX_MAX_LEN sound bytes, and
\* was decoded when no byte of it waits.
LastFrame(m, n) ==
  due => IF m # <<>>
         THEN /\ m[Len(m)][1] = Last(sent)
              /\ n + Len(m) >= RX_MAX_LEN + Len(FrameOf[Last(sent)])
         ELSE Noise(m) = 0 /\ (running => decoded # <<>> /\ Last(decoded) = Last(sent))

Follows(m, n) ==
  /\ Marked(m) /\ n \in Nat
  /\ Counts(m, n) /\ PlainUntil(m, n) /\ Place(m, n) /\ LastFrame(m, n)

StepInv == TypeOK /\ FrameEnds /\ RX_MAX_LEN >= 6 /\ \E m, n : Follows(m, n)

LEMMA FrameBytes ==
  ASSUME NEW r \in Reports
  PROVE  /\ r = [func |-> r.func, data |-> r.data]
         /\ r.data \in Seq(Bytes) /\ Len(r.data) \in Nat /\ Len(r.data) >= 1
         /\ RX_MAX_LEN \in Nat /\ Len(r.data) + 5 <= RX_MAX_LEN
         /\ FrameOf[r] \in Seq(Bytes) /\ Len(FrameOf[r]) = Len(r.data) + 5
         /\ FrameOf[r][1] = HEAD1 /\ FrameOf[r][2] = HEAD2
         /\ FrameOf[r][3] = Len(r.data) + 5 /\ FrameOf[r][4] = r.func
         /\ \A k \in 1..Len(r.data) : FrameOf[r][k + 4] = r.data[k]
         /\ FrameOf[r][Len(r.data) + 5]
              = CheckSum(<<HEAD1, HEAD2, Len(r.data) + 5, r.func>> \o r.data)
<1> DEFINE head == <<HEAD1, HEAD2, Len(r.data) + 5, r.func>>
           cmd == head \o r.data
           sum == CheckSum(cmd)
<1>1. r \in [func : Bytes, data : Seq(Bytes)] /\ Len(r.data) \in 1..(RX_MAX_LEN - 5)
  BY ReportFrames DEF Bytes
<1>2. r = [func |-> r.func, data |-> r.data] /\ r.data \in Seq(Bytes) /\ Len(r.data) \in Nat
  BY <1>1
<1>3. RX_MAX_LEN \in Nat /\ Len(r.data) >= 1 /\ Len(r.data) + 5 <= RX_MAX_LEN
  BY <1>1, <1>2, Constants
<1>4. FrameOf[r] = Append(cmd, sum)
  BY DEF FrameOf, Encode
<1>5. head \in Seq({HEAD1, HEAD2, Len(r.data) + 5, r.func}) /\ Len(head) = 4
  OBVIOUS
<1> DEFINE S == {HEAD1, HEAD2, Len(r.data) + 5, r.func} \cup Bytes
<1>6. head \in Seq(S) /\ r.data \in Seq(S)
  BY <1>2, <1>5, SeqMonotonic
<1>7. head[1] = HEAD1 /\ head[2] = HEAD2 /\ head[3] = Len(r.data) + 5 /\ head[4] = r.func
  OBVIOUS
<1> HIDE DEF head, S
<1>8. /\ cmd \in Seq(S) /\ Len(cmd) = Len(r.data) + 4
      /\ \A k \in 1..4 : cmd[k] = head[k]
      /\ \A k \in 1..Len(r.data) : cmd[k + 4] = r.data[k]
  <2>1. /\ cmd \in Seq(S) /\ Len(cmd) = Len(head) + Len(r.data)
        /\ \A k \in 1..Len(head) : cmd[k] = head[k]
        /\ \A k \in 1..Len(r.data) : cmd[Len(head) + k] = r.data[k]
    BY ONLY <1>6, Concatenated
  <2> HIDE DEF cmd
  <2>2. Len(head) = 4 /\ Len(r.data) \in Nat
    BY <1>2, <1>5
  <2>3. ASSUME NEW k \in 1..Len(r.data) PROVE cmd[k + 4] = r.data[k]
    <3>1. cmd[Len(head) + k] = r.data[k]
      BY <2>1
    <3>2. Len(head) + k = k + 4
      BY <2>2
    <3> QED BY <3>1, <3>2
  <2>4. \A k \in 1..4 : cmd[k] = head[k]
    BY <2>1, <2>2
  <2> QED BY <2>1, <2>2, <2>3, <2>4
<1> HIDE DEF cmd, sum
<1>9. /\ Len(FrameOf[r]) = Len(r.data) + 5 /\ FrameOf[r][Len(r.data) + 5] = sum
      /\ \A k \in 1..(Len(r.data) + 4) : FrameOf[r][k] = cmd[k]
  <2>1. /\ Len(FrameOf[r]) = Len(cmd) + 1 /\ FrameOf[r][Len(cmd) + 1] = sum
        /\ \A k \in 1..Len(cmd) : FrameOf[r][k] = cmd[k]
    BY <1>4, <1>8, Appended
  <2> QED BY <1>2, <1>8, <2>1
<1>10. ASSUME NEW k \in 1..Len(r.data) PROVE FrameOf[r][k + 4] = r.data[k]
  <2>1. k + 4 \in 1..(Len(r.data) + 4)
    BY <1>2
  <2> QED BY <1>8, <1>9, <2>1
<1>11. /\ FrameOf[r][1] = HEAD1 /\ FrameOf[r][2] = HEAD2
       /\ FrameOf[r][3] = Len(r.data) + 5 /\ FrameOf[r][4] = r.func
  <2>1. \A k \in 1..4 : k \in 1..(Len(r.data) + 4)
    BY <1>2
  <2>2. \A k \in 1..4 : FrameOf[r][k] = head[k]
    BY <1>8, <1>9, <2>1
  <2> QED BY <1>7, <2>2
<1>12. FrameOf[r] \in Seq(Bytes)
  BY Constants
<1> QED BY <1>2, <1>3, <1>9, <1>10, <1>11, <1>12 DEF cmd, head, sum

LEMMA ParserTypes ==
  ASSUME TypeOK
  PROVE  /\ rx_flag \in 0..5 /\ data_len \in Nat /\ data_len <= RX_MAX_LEN /\ RX_MAX_LEN \in Nat
         /\ Len(rx_data) \in Nat /\ line \in Seq(Bytes) /\ Len(line) \in Nat /\ since \in Nat
BY Constants, LenProperties DEF TypeOK, Bytes

\* Every byte brings the end of a frame nearer that was begun.
LEMMA FewerBytesLeft ==
  ASSUME TypeOK, FrameEnds, RX_MAX_LEN >= 6, NEW b \in Bytes, ReceiveData(b)
  PROVE  /\ rx_flag # 0 => BytesLeft \in Nat /\ BytesLeft >= 1
         /\ rx_flag # 0 /\ rx_flag' # 0 => BytesLeft' \in Nat /\ BytesLeft' < BytesLeft
         /\ rx_flag' # 0 => BytesLeft' \in Nat /\ BytesLeft' < RX_MAX_LEN
<1>1. /\ rx_flag \in 0..5 /\ data_len \in Nat /\ data_len <= RX_MAX_LEN /\ RX_MAX_LEN \in Nat
      /\ Len(rx_data) \in Nat /\ b \in Nat
  BY ParserTypes, Constants DEF Bytes
<1>2. CASE AwaitHead1(b)
  BY <1>1, <1>2 DEF AwaitHead1, BytesLeft
<1>3. CASE AwaitHead2(b)
  BY <1>1, <1>3 DEF AwaitHead2, BytesLeft
<1>4. CASE ReadLength(b)
  BY <1>1, <1>4 DEF ReadLength, BytesLeft
<1>5. CASE ReadFunc(b)
  <2>1. rx_flag = 3 /\ rx_flag' = 4 /\ data_len' = data_len /\ Len(rx_data') = 0
    BY <1>5 DEF ReadFunc
  <2> QED BY <1>1, <2>1 DEF BytesLeft
<1>6. CASE ReadData(b)
  <2>1. rx_flag = 4 /\ data_len' = data_len /\ Len(rx_data') = Len(rx_data) + 1
    BY <1>6, AppendProperties DEF ReadData, TypeOK
  <2>2. rx_flag' = IF 4 + Len(rx_data') + 1 >= data_len THEN 5 ELSE 4
    BY <1>6 DEF ReadData, DataComplete
  <2> QED BY <1>1, <2>1, <2>2 DEF BytesLeft
<1>7. CASE ReadCheckSum(b)
  BY <1>1, <1>7 DEF ReadCheckSum, BytesLeft
<1> QED BY <1>2, <1>3, <1>4, <1>5, <1>6, <1>7 DEF ReceiveData

LEMMA MarkTypes ==
  ASSUME TypeOK, NEW m, Marked(m)
  PROVE  /\ m \in Seq(Reports \X Nat) /\ Len(m) \in Nat /\ Len(m) <= Len(line)
         /\ Noise(m) \in Nat /\ (m = <<>> <=> Len(m) = 0)
         /\ \A j \in 1..Len(m) :
              /\ m[j] = <<m[j][1], m[j][2]>> /\ m[j][1] \in Reports
              /\ m[j][2] \in Nat /\ m[j][2] >= 1 /\ m[j][2] <= Len(FrameOf[m[j][1]])
<1>1. m \in Seq(Reports \X Nat) /\ Len(m) <= Len(line)
  BY DEF Marked
<1>2. Len(m) \in Nat /\ (m = <<>> <=> Len(m) = 0)
  BY <1>1, LenProperties, EmptySeq
<1>3. Noise(m) \in Nat
  BY <1>1, <1>2, ParserTypes DEF Noise
<1>4. ASSUME NEW j \in 1..Len(m)
      PROVE  /\ m[j] = <<m[j][1], m[j][2]>> /\ m[j][1] \in Reports
             /\ m[j][2] \in Nat /\ m[j][2] >= 1 /\ m[j][2] <= Len(FrameOf[m[j][1]])
  <2>1. m[j] \in Reports \X Nat
    BY <1>1, ElementOfSeq
  <2>2. m[j][2] \in 1..Len(FrameOf[m[j][1]])
    BY DEF Marked, MarkAt
  <2>3. m[j][1] \in Reports /\ m[j][2] \in Nat /\ m[j] = <<m[j][1], m[j][2]>>
    BY <2>1
  <2>4. Len(FrameOf[m[j][1]]) \in Nat
    BY <2>3, FrameBytes, LenProperties
  <2> QED BY <2>2, <2>3, <2>4
<1> QED BY <1>1, <1>2, <1>3, <1>4

LEMMA Tailed ==
  ASSUME NEW S, NEW s \in Seq(S), s # <<>>
  PROVE  /\ Tail(s) \in Seq(S) /\ Len(s) \in Nat /\ Len(s) >= 1 /\ Len(Tail(s)) = Len(s) - 1
         /\ Head(s) = s[1] /\ \A k \in 1..(Len(s) - 1) : Tail(s)[k] = s[k + 1]
BY HeadTailProperties, LenProperties, EmptySeq

\* The marks when a byte is taken from a line of nothing but whole frames.
Shifted(s, t, N) == Len(s) = N + 1 /\ Len(t) = N /\ \A k \in 1..N : t[k] = s[k + 1]

LEMMA MarksOfTail ==
  ASSUME NEW s, NEW t, NEW m, NEW w, NEW N \in Nat, Shifted(s, t, N), Shifted(m, w, N),
         \A j \in 1..Len(m) : MarkAt(s, m, j)
  PROVE  \A j \in 1..Len(w) : MarkAt(t, w, j)
<1> SUFFICES ASSUME NEW j \in 1..N PROVE MarkAt(t, w, j)
  BY DEF Shifted
<1>1. /\ j \in Nat /\ j + 1 \in 1..(N + 1) /\ t[j] = s[j + 1] /\ w[j] = m[j + 1]
      /\ Len(s) = N + 1 /\ Len(m) = N + 1 /\ Len(t) = N /\ Len(w) = N
  BY DEF Shifted
<1>2. Len(t) - Len(w) + j = j /\ Len(s) - Len(m) + (j + 1) = j + 1
  BY <1>1
<1>3. j < N => w[j + 1] = m[(j + 1) + 1]
  <2> SUFFICES ASSUME j < N PROVE w[j + 1] = m[(j + 1) + 1]
    OBVIOUS
  <2>1. j + 1 \in 1..N
    BY <1>1
  <2> QED BY <2>1 DEF Shifted
<1>4. MarkAt(s, m, j + 1)
  BY <1>1
<1>5. (j < N <=> j + 1 < N + 1) /\ (j = N <=> j + 1 = N + 1)
  BY <1>1
<1> QED BY <1>1, <1>2, <1>3, <1>4, <1>5 DEF MarkAt

LEMMA MarkedTail ==
  ASSUME TypeOK, line # <<>>, line' = Tail(line), NEW m, Marked(m), Noise(m) = 0
  PROVE  /\ m # <<>> /\ Len(Tail(m)) = Len(m) - 1
         /\ \A j \in 1..(Len(m) - 1) : Tail(m)[j] = m[j + 1]
         /\ Marked(Tail(m))' /\ Noise(Tail(m))' = 0
         /\ Head(line) = FrameOf[m[1][1]][m[1][2]]
<1>1. /\ line \in Seq(Bytes) /\ Len(line) \in Nat /\ Len(line) >= 1
      /\ Len(line') = Len(line) - 1 /\ Head(line) = line[1]
      /\ \A k \in 1..(Len(line) - 1) : line'[k] = line[k + 1]
  BY ParserTypes, Tailed
<1>2. m \in Seq(Reports \X Nat) /\ Len(m) = Len(line) /\ m # <<>>
  BY <1>1, MarkTypes DEF Noise
<1>3. /\ Tail(m) \in Seq(Reports \X Nat) /\ Len(Tail(m)) = Len(m) - 1
      /\ \A j \in 1..(Len(m) - 1) : Tail(m)[j] = m[j + 1]
  BY <1>2, Tailed
<1>4. \A j \in 1..Len(m) : MarkAt(line, m, j)
  BY DEF Marked
<1>5. Head(line) = FrameOf[m[1][1]][m[1][2]]
  <2>1. 1 \in 1..Len(m) /\ Len(line) - Len(m) + 1 = 1
    BY <1>1, <1>2
  <2> QED BY <1>1, <1>4, <2>1 DEF MarkAt
<1>6. PICK N \in Nat : Len(line) = N + 1 /\ Len(line') = N /\ Len(m) = N + 1 /\ Len(Tail(m)) = N
  <2>1. /\ Len(line) - 1 \in Nat /\ Len(line) = (Len(line) - 1) + 1
    BY <1>1
  <2> QED BY <1>1, <1>2, <1>3, <2>1
<1>7. \A j \in 1..Len(Tail(m)) : MarkAt(line', Tail(m), j)
  <2>1. Len(line) - 1 = N /\ Len(m) - 1 = N
    BY <1>6
  <2>2. Shifted(line, line', N)
    BY <1>1, <1>6, <2>1 DEF Shifted
  <2>3. Shifted(m, Tail(m), N)
    BY <1>3, <1>6, <2>1 DEF Shifted
  <2> QED BY <1>4, <2>2, <2>3, MarksOfTail
<1>8. Marked(Tail(m))'
  BY <1>3, <1>6, <1>7 DEF Marked
<1> QED BY <1>2, <1>3, <1>5, <1>6, <1>8 DEF Noise

\* The marks when a byte of noise is taken.
LEMMA MarkedNoise ==
  ASSUME TypeOK, line # <<>>, line' = Tail(line), NEW m, Marked(m), Noise(m) > 0
  PROVE  Marked(m)' /\ Noise(m)' = Noise(m) - 1
<1>1. line \in Seq(Bytes) /\ Len(line) \in Nat /\ Len(m) \in Nat /\ Len(m) < Len(line)
  BY ParserTypes, MarkTypes DEF Noise
<1>2. Len(line') = Len(line) - 1 /\ \A k \in 1..(Len(line) - 1) : line'[k] = line[k + 1]
  BY <1>1, Tailed
<1>3. ASSUME NEW j \in 1..Len(m)
      PROVE  line'[Len(line') - Len(m) + j] = line[Len(line) - Len(m) + j]
  <2>1. Len(line') - Len(m) + j \in 1..(Len(line) - 1)
    BY <1>1, <1>2
  <2>2. (Len(line') - Len(m) + j) + 1 = Len(line) - Len(m) + j
    BY <1>1, <1>2
  <2> QED BY <1>2, <2>1, <2>2
<1>4. Len(m) <= Len(line')
  BY <1>1, <1>2
<1> QED BY <1>1, <1>2, <1>3, <1>4 DEF Marked, MarkAt, Noise

\* The marks when a whole frame arrives.
Labels(r, q) ==
  /\ q \in Seq(Reports \X Nat) /\ Len(q) = Len(FrameOf[r])
  /\ \A k \in 1..Len(FrameOf[r]) : q[k] = <<r, k>>

Extended(s, t, e, N, L) ==
  /\ Len(s) = N /\ Len(t) = N + L
  /\ \A k \in 1..N : t[k] = s[k]
  /\ \A k \in 1..L : t[N + k] = e[k]

LEMMA MarksOfAppend ==
  ASSUME NEW s, NEW t, NEW m, NEW w, NEW q, NEW r \in Reports,
         NEW M \in Nat, NEW N \in Nat, NEW L \in Nat, L >= 1, L = Len(FrameOf[r]), M <= N,
         Labels(r, q), Extended(s, t, FrameOf[r], N, L), Extended(m, w, q, M, L),
         \A j \in 1..Len(m) : MarkAt(s, m, j)
  PROVE  \A j \in 1..Len(w) : MarkAt(t, w, j)
<1> SUFFICES ASSUME NEW j \in 1..(M + L) PROVE MarkAt(t, w, j)
  BY DEF Extended
<1> /\ Len(s) = N /\ Len(t) = N + L /\ Len(m) = M /\ Len(w) = M + L
    /\ \A k \in 1..N : t[k] = s[k]
    /\ \A k \in 1..L : t[N + k] = FrameOf[r][k]
    /\ \A k \in 1..M : w[k] = m[k]
    /\ \A k \in 1..L : w[M + k] = <<r, k>>
    /\ \A k \in 1..M : MarkAt(s, m, k)
  BY DEF Extended, Labels
<1>0. M \in Nat /\ N \in Nat /\ L \in Nat /\ L >= 1 /\ M <= N /\ j \in 1..(M + L)
  OBVIOUS
<1>1. CASE j <= M
  <2>1. j \in 1..M /\ j < M + L
    BY ONLY <1>0, <1>1
  <2> w[j] = m[j] /\ MarkAt(s, m, j)
    BY <2>1
  <2>2. t[Len(t) - Len(w) + j] = s[Len(s) - Len(m) + j]
    <3>1. N - M + j \in 1..N /\ (N + L) - (M + L) + j = N - M + j
      BY ONLY <1>0, <2>1
    <3> QED BY <3>1
  <2>3. \/ w[j + 1] = <<w[j][1], w[j][2] + 1>>
        \/ w[j][2] = Len(FrameOf[w[j][1]]) /\ w[j + 1][2] = 1
    <3>1. CASE j < M
      <4>1. j + 1 \in 1..M
        BY <2>1, <3>1
      <4>2. w[j + 1] = m[j + 1]
        BY <4>1
      <4> QED BY <2>1, <3>1, <4>2 DEF MarkAt
    <3>2. CASE j = M
      <4>1. 1 \in 1..L
        OBVIOUS
      <4>2. w[M + 1] = <<r, 1>>
        BY <4>1
      <4>3. m[j][2] = Len(FrameOf[m[j][1]])
        BY <2>1, <3>2 DEF MarkAt
      <4> QED BY <2>1, <3>2, <4>2, <4>3
    <3>3. j < M \/ j = M
      BY <2>1, <1>1
    <3> QED BY <3>1, <3>2, <3>3
  <2>4. j # Len(w)
    BY <2>1
  <2>5. /\ m[j][2] \in 1..Len(FrameOf[m[j][1]])
        /\ s[Len(s) - Len(m) + j] = FrameOf[m[j][1]][m[j][2]]
    BY <2>1 DEF MarkAt
  <2> QED BY <2>1, <2>2, <2>3, <2>4, <2>5 DEF MarkAt
<1>2. CASE j > M
  <2>1. PICK k \in 1..L : j = M + k
    <3>1. j - M \in 1..L /\ j = M + (j - M)
      BY <1>2
    <3> QED BY ONLY <3>1
  <2>2. w[j] = <<r, k>> /\ w[j][1] = r /\ w[j][2] = k
    BY <2>1
  <2>3. t[Len(t) - Len(w) + j] = FrameOf[r][k]
    <3>1. (N + L) - (M + L) + j = N + k
      BY ONLY <1>0, <2>1
    <3> QED BY <3>1
  <2>4. j < M + L => w[j + 1] = <<r, k + 1>>
    <3> SUFFICES ASSUME j < M + L PROVE w[j + 1] = <<r, k + 1>>
      OBVIOUS
    <3>1. k + 1 \in 1..L /\ j + 1 = M + (k + 1)
      BY <2>1
    <3> QED BY <3>1
  <2>5. j = M + L => k = L
    BY <2>1
  <2> QED BY <2>2, <2>3, <2>4, <2>5 DEF MarkAt
<1>3. j <= M \/ j > M
  BY ONLY <1>0
<1> QED BY <1>1, <1>2, <1>3

LEMMA MarkedAppend ==
  ASSUME TypeOK, NEW r \in Reports, line' = line \o FrameOf[r], NEW m, Marked(m),
         NEW q, Labels(r, q)
  PROVE  /\ Marked(m \o q)' /\ Noise(m \o q)' = Noise(m)
         /\ Len(m \o q) = Len(m) + Len(FrameOf[r])
         /\ \A j \in 1..Len(m) : (m \o q)[j] = m[j]
         /\ \A k \in 1..Len(FrameOf[r]) : (m \o q)[Len(m) + k] = <<r, k>>
<1> DEFINE w == m \o q
<1>1. FrameOf[r] \in Seq(Bytes) /\ Len(FrameOf[r]) \in Nat /\ Len(FrameOf[r]) >= 1
  <2>1. Len(FrameOf[r]) = Len(r.data) + 5 /\ Len(r.data) \in Nat /\ FrameOf[r] \in Seq(Bytes)
    BY FrameBytes
  <2> QED BY <2>1
<1>2. PICK L \in Nat : L = Len(FrameOf[r]) /\ L >= 1
  BY <1>1
<1>3. line \in Seq(Bytes) /\ Len(line) \in Nat
  BY ParserTypes
<1>4. /\ Len(line') = Len(line) + Len(FrameOf[r])
      /\ \A k \in 1..Len(line) : line'[k] = line[k]
      /\ \A k \in 1..Len(FrameOf[r]) : line'[Len(line) + k] = FrameOf[r][k]
  BY <1>1, <1>3, Concatenated
<1>6. m \in Seq(Reports \X Nat) /\ Len(m) \in Nat /\ Len(m) <= Len(line)
  BY MarkTypes
<1>8. /\ w \in Seq(Reports \X Nat) /\ Len(w) = Len(m) + L
      /\ \A j \in 1..Len(m) : w[j] = m[j]
      /\ \A k \in 1..L : w[Len(m) + k] = <<r, k>>
  <2>1. m \in Seq(Reports \X Nat) /\ q \in Seq(Reports \X Nat)
    BY <1>6 DEF Labels
  <2>2. /\ m \o q \in Seq(Reports \X Nat) /\ Len(m \o q) = Len(m) + Len(q)
        /\ \A j \in 1..Len(m) : (m \o q)[j] = m[j]
        /\ \A k \in 1..Len(q) : (m \o q)[Len(m) + k] = q[k]
    BY ONLY <2>1, Concatenated
  <2>3. /\ w \in Seq(Reports \X Nat) /\ Len(w) = Len(m) + Len(q)
        /\ \A j \in 1..Len(m) : w[j] = m[j]
        /\ \A k \in 1..Len(q) : w[Len(m) + k] = q[k]
    BY <2>2, Zenon
  <2>4. Len(q) = L /\ \A k \in 1..L : q[k] = <<r, k>>
    BY <1>2 DEF Labels
  <2> QED BY <2>3, <2>4
<1> HIDE DEF w
<1>9. PICK N \in Nat, M \in Nat : N = Len(line) /\ M = Len(m) /\ M <= N
  BY <1>3, <1>6
<1>10. Len(line') = N + L /\ Len(w) = M + L
  BY <1>2, <1>4, <1>8, <1>9
<1>11. \A j \in 1..Len(w) : MarkAt(line', w, j)
  <2>1. Extended(line, line', FrameOf[r], N, L)
    BY <1>2, <1>4, <1>9, <1>10 DEF Extended
  <2>2. Extended(m, w, q, M, L)
    BY <1>2, <1>8, <1>9, <1>10 DEF Extended, Labels
  <2>3. \A j \in 1..Len(m) : MarkAt(line, m, j)
    BY DEF Marked
  <2> QED BY <1>2, <1>9, <2>1, <2>2, <2>3, MarksOfAppend
<1>12. N - M = (N + L) - (M + L) /\ M + L <= N + L
  BY <1>9
<1>13. Len(w) <= Len(line') /\ Len(line') - Len(w) = Len(line) - Len(m)
  BY <1>9, <1>10, <1>12
<1>14. Marked(w)'
  BY <1>8, <1>10, <1>11, <1>13 DEF Marked
<1>15. /\ Marked(w)' /\ Noise(w)' = Noise(m) /\ Len(w) = Len(m) + Len(FrameOf[r])
       /\ \A j \in 1..Len(m) : w[j] = m[j]
       /\ \A k \in 1..Len(FrameOf[r]) : w[Len(m) + k] = <<r, k>>
  BY <1>2, <1>8, <1>13, <1>14 DEF Noise
<1> QED BY <1>15, Zenon DEF w

LEMMA MaxLenInNat == RX_MAX_LEN \in Nat
BY Constants

\* Nothing is known of the line behind noise.
LEMMA FollowsNoise ==
  ASSUME RX_MAX_LEN >= 6, Len(line') \in Nat, Len(line') >= 1, since' = 0, due' = FALSE
  PROVE  Follows(<<>>, 0)'
<1>1. Len(<<>>) = 0 /\ <<>> \in Seq(Reports \X Nat)
  OBVIOUS
<1>2. Marked(<<>>)' /\ Noise(<<>>)' > 0
  BY <1>1 DEF Marked, Noise
<1>3. Counts(<<>>, 0)'
  BY <1>1, MaxLenInNat DEF Counts
<1>4. PlainUntil(<<>>, 0)'
  BY <1>1 DEF PlainUntil
<1>5. Place(<<>>, 0)' /\ LastFrame(<<>>, 0)'
  BY <1>2 DEF Place, LastFrame
<1> QED BY <1>2, <1>3, <1>4, <1>5 DEF Follows

LEMMA FollowsDamage ==
  ASSUME StepInv, NEW bytes \in Seq(Bytes), Len(bytes) >= 1, NEW undetectable,
         Damage(bytes, undetectable)
  PROVE  \E m, n : Follows(m, n)'
<1>1. line' = line \o bytes /\ since' = 0 /\ due' = FALSE
  BY DEF Damage
<1>2. line \in Seq(Bytes)
  BY ParserTypes DEF StepInv
<1>3. Len(line \o bytes) = Len(line) + Len(bytes) /\ Len(line) \in Nat /\ Len(bytes) \in Nat
  BY <1>2, Concatenated
<1>4. Len(line') \in Nat /\ Len(line') >= 1
  BY <1>1, <1>3
<1>5. Follows(<<>>, 0)'
  BY <1>1, <1>4, FollowsNoise DEF StepInv
<1> QED BY <1>5

\* A frame arrives whole.
LEMMA FollowsReport ==
  ASSUME StepInv, NEW m, NEW n, Follows(m, n), NEW r \in Reports, Report(r)
  PROVE  \E w, k : Follows(w, k)'
<1> DEFINE L == Len(FrameOf[r])
<1>1. L \in Nat /\ L >= 1 /\ FrameOf[r] \in Seq(Bytes)
  <2>1. L = Len(r.data) + 5 /\ Len(r.data) \in Nat /\ FrameOf[r] \in Seq(Bytes)
    BY FrameBytes
  <2> QED BY <2>1
<1>2. TypeOK /\ RX_MAX_LEN >= 6 /\ RX_MAX_LEN \in Nat /\ since \in Nat /\ line \in Seq(Bytes)
  BY ParserTypes DEF StepInv
<1>3. /\ line' = line \o FrameOf[r] /\ sent' = Append(sent, r) /\ due' = InSync
      /\ since' = IF InSync THEN since ELSE IF Plain[r] THEN since + L ELSE 0
      /\ running' = running /\ parser' = parser /\ decoded' = decoded
  BY DEF Report
<1>4. CASE ~InSync /\ ~Plain[r]
  <2>1. Len(line \o FrameOf[r]) = Len(line) + L /\ Len(line) \in Nat
    BY <1>1, <1>2, Concatenated
  <2>2. Len(line') \in Nat /\ Len(line') >= 1
    BY <1>1, <1>3, <2>1
  <2>3. since' = 0 /\ due' = FALSE
    <3>1. since' = 0
      BY <1>3, <1>4, Zenon
    <3>2. InSync \in BOOLEAN
      BY DEF InSync
    <3>3. due' = FALSE
      BY <1>3, <1>4, <3>2, Zenon
    <3> QED BY <3>1, <3>3
  <2>4. Follows(<<>>, 0)'
    BY <1>2, <2>2, <2>3, FollowsNoise
  <2> QED BY <2>4
<1>5. CASE InSync \/ Plain[r]
  <2>1. Labels(r, [i \in 1..L |-> <<r, i>>])
    BY <1>1 DEF Labels
  <2>2. PICK q : Labels(r, q)
    BY <2>1
  <2>3. /\ m \in Seq(Reports \X Nat) /\ Len(m) \in Nat /\ (m = <<>> <=> Len(m) = 0)
        /\ Marked(m) /\ n \in Nat
    BY <1>2, MarkTypes DEF Follows
  <2> DEFINE w == m \o q
  <2>4. /\ Marked(w)' /\ Noise(w)' = Noise(m) /\ Len(w) = Len(m) + L
        /\ \A j \in 1..Len(m) : w[j] = m[j]
        /\ \A i \in 1..L : w[Len(m) + i] = <<r, i>>
    <3>1. TypeOK /\ line' = line \o FrameOf[r] /\ Marked(m)
      BY <1>2, <1>3, <2>3
    <3> QED BY ONLY r \in Reports, <2>2, <3>1, MarkedAppend
  <2> HIDE DEF w
  <2>5. w # <<>> /\ Len(w) \in Nat
    BY <1>1, <2>3, <2>4
  <2>6. IF m # <<>> THEN w[1] = m[1] ELSE w[1] = <<r, 1>>
    <3>1. CASE m # <<>>
      BY <2>3, <2>4, <3>1
    <3>2. CASE m = <<>>
      BY <1>1, <2>3, <2>4, <3>2
    <3> QED BY <3>1, <3>2
  <2>7. InSync => n + Len(m) >= RX_MAX_LEN
    BY <1>2 DEF InSync, Follows, Counts
  <2>8. ~InSync => since = n + Len(m) /\ n + Len(m) < RX_MAX_LEN
    BY <1>2 DEF InSync, Follows, Counts
  <2>9. Counts(w, n)'
    <3>1. Noise(w)' > 0 => n = 0 /\ w[1][2] = 1
      BY <2>4, <2>6 DEF Follows, Counts
    <3>2. IF since' < RX_MAX_LEN THEN since' = n + Len(w) ELSE n + Len(w) >= RX_MAX_LEN
      <4>1. Len(w) = Len(m) + L /\ L \in Nat /\ Len(m) \in Nat /\ n \in Nat
        BY <1>1, <2>3, <2>4
      <4>2. CASE InSync
        <5>1. since' = since /\ n + Len(w) >= RX_MAX_LEN
          BY <1>2, <1>3, <2>7, <4>1, <4>2
        <5>2. ~(since' < RX_MAX_LEN)
          BY <1>2, <4>2, <5>1 DEF InSync
        <5> QED BY <5>1, <5>2
      <4>3. CASE ~InSync
        <5>1. since' = n + Len(w)
          BY <1>2, <1>3, <1>5, <2>8, <4>1, <4>3
        <5> QED BY <1>2, <4>1, <5>1
      <4> QED BY <4>2, <4>3
    <3> QED BY <3>1, <3>2 DEF Counts
  <2>10. PlainUntil(w, n)'
    <3> SUFFICES ASSUME NEW j \in 1..Len(w), n + j < RX_MAX_LEN + w[j][2]
                 PROVE  Plain[w[j][1]]
      BY DEF PlainUntil
    <3>1. CASE j <= Len(m)
      <4>1. j \in 1..Len(m) /\ w[j] = m[j]
        BY <2>3, <2>4, <3>1
      <4> QED BY <4>1 DEF Follows, PlainUntil
    <3>2. CASE j > Len(m)
      <4>1. j - Len(m) \in 1..L /\ j = Len(m) + (j - Len(m))
        BY <1>1, <2>3, <2>4, <3>2
      <4>2. w[j] = <<r, j - Len(m)>>
        BY <2>4, <4>1
      <4>3. n + j < RX_MAX_LEN + (j - Len(m))
        BY <4>2
      <4>4. n + Len(m) < RX_MAX_LEN
        BY <1>2, <2>3, <4>1, <4>3
      <4> QED BY <1>2, <1>5, <2>3, <2>7, <4>2, <4>4
    <3>3. j <= Len(m) \/ j > Len(m)
      BY <2>3, <2>5
    <3> QED BY <3>1, <3>2, <3>3
  <2>11. Place(w, n)'
    <3> SUFFICES ASSUME running, Noise(m) = 0
                 PROVE  (AtStart(w) \/ PassesOver(w, n) \/ Reads(w) \/ OutOfStep(n))'
      BY <1>3, <2>4 DEF Place
    <3>1. /\ rx_flag' = rx_flag /\ data_len' = data_len /\ data_func' = data_func
          /\ rx_data' = rx_data
      BY <1>3 DEF parser
    <3>2. CASE AtStart(m)
      <4>1. w[1][2] = 1
        BY <2>6, <3>2 DEF AtStart
      <4> QED BY <3>1, <3>2, <4>1 DEF AtStart
    <3>3. CASE PassesOver(m, n)
      BY <2>5, <2>6, <3>1, <3>3 DEF PassesOver
    <3>4. CASE Reads(m)
      BY <2>5, <2>6, <3>1, <3>4 DEF Reads, InFrame
    <3>5. CASE OutOfStep(n)
      BY <3>1, <3>5 DEF OutOfStep, BytesLeft
    <3> QED BY <3>2, <3>3, <3>4, <3>5 DEF Follows, Place
  <2>12. LastFrame(w, n)'
    <3> SUFFICES ASSUME InSync
                 PROVE  /\ w[Len(w)][1] = Last(sent')
                        /\ n + Len(w) >= RX_MAX_LEN + Len(FrameOf[Last(sent')])
      BY <1>3, <2>5 DEF LastFrame
    <3>1. Last(sent') = r
      BY <1>3, LastAppended DEF StepInv, TypeOK
    <3>2. w[Len(w)] = <<r, L>>
      BY <1>1, <2>4
    <3>3. n + Len(w) >= RX_MAX_LEN + L
      BY <1>1, <1>2, <2>3, <2>4, <2>7
    <3> QED BY <3>1, <3>2, <3>3
  <2>13. Follows(w, n)'
    BY <2>3, <2>4, <2>9, <2>10, <2>11, <2>12 DEF Follows
  <2> QED BY <2>13
<1> QED BY <1>4, <1>5

LEMMA LongerPiece ==
  ASSUME NEW S, NEW s \in Seq(S), NEW k \in Nat, k + 1 <= Len(s)
  PROVE  Append(SubSeq(s, 1, k), s[k + 1]) = SubSeq(s, 1, k + 1)
<1>1. Len(s) \in Nat /\ \A j \in 1..Len(s) : s[j] \in S
  BY LenProperties, ElementOfSeq
<1>2. /\ SubSeq(s, 1, k) \in Seq(S) /\ Len(SubSeq(s, 1, k)) = k
      /\ \A j \in 1..k : SubSeq(s, 1, k)[j] = s[j]
  <2>1. \A j \in 1..k : s[j] \in S
    BY <1>1
  <2> QED BY <1>1, <2>1, SubSeqProperties
<1>3. /\ SubSeq(s, 1, k + 1) \in Seq(S) /\ Len(SubSeq(s, 1, k + 1)) = k + 1
      /\ \A j \in 1..(k + 1) : SubSeq(s, 1, k + 1)[j] = s[j]
  <2>1. \A j \in 1..(k + 1) : s[j] \in S
    BY <1>1
  <2> QED BY <1>1, <2>1, SubSeqProperties
<1>4. s[k + 1] \in S
  BY <1>1
<1>5. /\ Append(SubSeq(s, 1, k), s[k + 1]) \in Seq(S)
      /\ Len(Append(SubSeq(s, 1, k), s[k + 1])) = k + 1
      /\ \A j \in 1..(k + 1) : Append(SubSeq(s, 1, k), s[k + 1])[j] = s[j]
  BY <1>2, <1>4, AppendProperties
<1> QED BY <1>3, <1>5, SeqEqual

\* A byte of the frame takes the parser to the next place, and the last one to
\* the frame.
LEMMA ReadsOn ==
  ASSUME TypeOK, NEW r \in Reports, NEW i \in Nat, i <= Len(FrameOf[r]), InFrame(r, i),
         NEW b, b = FrameOf[r][i], ReceiveData(b)
  PROVE  /\ i < Len(FrameOf[r]) => InFrame(r, i + 1)'
         /\ i = Len(FrameOf[r]) =>
              rx_flag' = 0 /\ (running' => decoded' = Append(decoded, r))
<1> DEFINE D == Len(r.data)
           L == Len(FrameOf[r])
<1>1. /\ r.data \in Seq(Bytes) /\ D \in Nat /\ D >= 1 /\ RX_MAX_LEN \in Nat
      /\ D + 5 <= RX_MAX_LEN /\ L = D + 5 /\ r = [func |-> r.func, data |-> r.data]
  BY FrameBytes
<1>2. /\ FrameOf[r][2] = HEAD2 /\ FrameOf[r][3] = D + 5 /\ FrameOf[r][4] = r.func
      /\ \A k \in 1..D : FrameOf[r][k + 4] = r.data[k]
      /\ FrameOf[r][D + 5] = CheckSum(<<HEAD1, HEAD2, D + 5, r.func>> \o r.data)
  BY FrameBytes
<1>3. i >= 2 /\ i <= D + 5
  BY <1>1 DEF InFrame
<1> HIDE DEF D, L
<1>4. CASE i = 2
  <2>1. rx_flag = 1
    BY <1>4 DEF InFrame
  <2>2. AwaitHead2(b)
    BY <2>1
    DEF ReceiveData, AwaitHead1, AwaitHead2, ReadLength, ReadFunc, ReadData, ReadCheckSum
  <2>3. rx_flag' = 2
    BY <1>2, <1>4, <2>2 DEF AwaitHead2
  <2> QED BY <1>1, <1>4, <2>3 DEF InFrame, L
<1>5. CASE i = 3
  <2>1. rx_flag = 2
    BY <1>5 DEF InFrame
  <2>2. ReadLength(b)
    BY <2>1
    DEF ReceiveData, AwaitHead1, AwaitHead2, ReadLength, ReadFunc, ReadData, ReadCheckSum
  <2>3. rx_flag' = 3 /\ data_len' = D + 5
    BY <1>1, <1>2, <1>5, <2>2 DEF ReadLength
  <2> QED BY <1>1, <1>5, <2>3 DEF InFrame, L, D
<1>6. CASE i = 4
  <2>1. rx_flag = 3 /\ data_len = D + 5
    BY <1>6 DEF InFrame, D
  <2>2. ReadFunc(b)
    BY <2>1
    DEF ReceiveData, AwaitHead1, AwaitHead2, ReadLength, ReadFunc, ReadData, ReadCheckSum
  <2>3. rx_flag' = 4 /\ data_len' = D + 5 /\ data_func' = r.func /\ rx_data' = <<>>
    BY <1>2, <1>6, <2>1, <2>2 DEF ReadFunc
  <2>4. SubSeq(r.data, 1, 0) = <<>>
    BY <1>1, SubSeqEmpty
  <2>5. 5 < L
    BY <1>1
  <2>6. InFrame(r, 5)'
    BY <2>3, <2>4, <2>5 DEF InFrame, L, D
  <2>7. i + 1 = 5 /\ i # L
    BY <1>1, <1>6, <2>5
  <2> QED BY <2>6, <2>7 DEF L
<1>7. CASE i >= 5 /\ i < L
  <2>1. /\ rx_flag = 4 /\ data_len = D + 5 /\ data_func = r.func
        /\ rx_data = SubSeq(r.data, 1, i - 5)
    BY <1>7 DEF InFrame, D, L
  <2>2. ReadData(b)
    BY <2>1
    DEF ReceiveData, AwaitHead1, AwaitHead2, ReadLength, ReadFunc, ReadData, ReadCheckSum
  <2>3. PICK k \in Nat : i = k + 5 /\ k + 1 <= D
    <3>1. i - 5 \in Nat /\ i = (i - 5) + 5 /\ (i - 5) + 1 <= D
      BY <1>1, <1>7
    <3> QED BY ONLY <3>1
  <2>4. b = r.data[k + 1]
    <3>1. k + 1 \in 1..D /\ (k + 1) + 4 = i
      BY <1>1, <2>3
    <3> QED BY <1>2, <3>1
  <2>5. i - 5 = k /\ (i + 1) - 5 = k + 1
    BY <2>3
  <2>6. rx_data' = SubSeq(r.data, 1, k + 1)
    BY <1>1, <2>1, <2>2, <2>3, <2>4, <2>5, LongerPiece DEF ReadData, D
  <2>7. Len(rx_data') = k + 1
    <3>1. \A j \in 1..(k + 1) : r.data[j] \in Bytes
      BY <1>1, <2>3, ElementOfSeq DEF D
    <3>2. 1 \in Int /\ k + 1 \in Int /\ 1 <= k + 1 /\ (k + 1) - 1 + 1 = k + 1
      BY <2>3
    <3>3. Len(SubSeq(r.data, 1, k + 1)) = k + 1
      BY ONLY <3>1, <3>2, SubSeqProperties
    <3> QED BY <2>6, <3>3
  <2>8. rx_flag' = IF i + 1 < L THEN 4 ELSE 5
    BY <1>1, <2>1, <2>2, <2>3, <2>7 DEF ReadData, DataComplete
  <2>9. data_len' = D + 5 /\ data_func' = r.func
    BY <2>1, <2>2 DEF ReadData
  <2>10. i + 1 >= 5 /\ ~(i + 1 <= 4)
    BY <1>7
  <2>11. InFrame(r, i + 1)'
    BY <2>5, <2>6, <2>8, <2>9, <2>10 DEF InFrame, L, D
  <2> QED BY <1>1, <1>7, <2>11 DEF L
<1>8. CASE i = L
  <2>1. i >= 5 /\ i - 5 = D /\ ~(i <= 4) /\ ~(i < L)
    BY <1>1, <1>8
  <2>2. rx_flag = 5 /\ data_len = D + 5 /\ data_func = r.func /\ rx_data = SubSeq(r.data, 1, D)
    BY <2>1 DEF InFrame, D, L
  <2>3. rx_data = r.data
    BY <1>1, <2>2, SubSeqFull DEF D
  <2>4. ReadCheckSum(b)
    BY <2>2
    DEF ReceiveData, AwaitHead1, AwaitHead2, ReadLength, ReadFunc, ReadData, ReadCheckSum
  <2>5. SumMatches(b)
    BY <1>1, <1>2, <1>8, <2>2, <2>3 DEF SumMatches
  <2>6. [func |-> data_func, data |-> rx_data] = r
    BY <1>1, <2>2, <2>3
  <2>7. running' => decoded' = Append(decoded, r)
    BY <2>4, <2>5, <2>6, Zenon DEF ReadCheckSum
  <2>8. rx_flag' = 0
    BY <2>4 DEF ReadCheckSum
  <2> QED BY <1>8, <2>1, <2>7, <2>8 DEF L
<1>9. i = 2 \/ i = 3 \/ i = 4 \/ (i >= 5 /\ i < L) \/ i = L
  BY <1>1, <1>3
<1> QED BY <1>4, <1>5, <1>6, <1>7, <1>8, <1>9

\* A byte of noise.
LEMMA FollowsNoiseByte ==
  ASSUME StepInv, DataHandle, NEW m, NEW n, Follows(m, n), Noise(m) > 0
  PROVE  \E w, k : Follows(w, k)'
<1>1. /\ TypeOK /\ FrameEnds /\ RX_MAX_LEN >= 6 /\ RX_MAX_LEN \in Nat
      /\ line # <<>> /\ line' = Tail(line) /\ Head(line) \in Bytes /\ ReceiveData(Head(line))
      /\ since' = since /\ due' = due /\ sent' = sent
  <2>1. line \in Seq(Bytes)
    BY ParserTypes DEF StepInv
  <2>2. Head(line) \in Bytes
    BY <2>1, HeadTailProperties DEF DataHandle
  <2> QED BY <2>2, MaxLenInNat DEF StepInv, DataHandle, history
<1>2. Marked(m) /\ n = 0 /\ Counts(m, n) /\ PlainUntil(m, n) /\ LastFrame(m, n)
  BY DEF Follows, Counts
<1>3. Marked(m)' /\ Noise(m)' = Noise(m) - 1
  BY <1>1, <1>2, MarkedNoise
<1>4. Counts(m, 0)'
  BY <1>1, <1>2, <1>3 DEF Counts
<1>5. PlainUntil(m, 0)'
  BY <1>2 DEF PlainUntil
<1>6. Place(m, 0)'
  <2>1. m # <<>> => m[1][2] = 1
    BY <1>2 DEF Counts
  <2>2. CASE rx_flag' = 0
    BY <2>1, <2>2 DEF Place, AtStart
  <2>3. CASE rx_flag' # 0
    <3>1. BytesLeft' \in Nat /\ BytesLeft' < RX_MAX_LEN
      BY <1>1, <2>3, FewerBytesLeft
    <3>2. OutOfStep(0)'
      <4>1. BytesLeft' + 0 < RX_MAX_LEN
        BY <3>1
      <4> QED BY <2>3, <4>1 DEF OutOfStep
    <3> QED BY <3>2 DEF Place
  <2> QED BY <2>2, <2>3
<1>7. LastFrame(m, 0)'
  <2>1. due => m # <<>>
    BY <1>2 DEF LastFrame
  <2> QED BY <1>1, <1>2, <2>1 DEF LastFrame
<1>8. Follows(m, 0)'
  BY <1>3, <1>4, <1>5, <1>6, <1>7 DEF Follows
<1> QED BY <1>8

\* A byte of a frame.
LEMMA FollowsFrameByte ==
  ASSUME StepInv, DataHandle, NEW m, NEW n, Follows(m, n), Noise(m) = 0
  PROVE  \E w, k : Follows(w, k)'
<1> DEFINE b == Head(line)
           t == Tail(m)
           r == m[1][1]
           i == m[1][2]
           L == Len(FrameOf[r])
<1>1. /\ TypeOK /\ FrameEnds /\ RX_MAX_LEN >= 6 /\ RX_MAX_LEN \in Nat
      /\ line # <<>> /\ line' = Tail(line) /\ b \in Bytes /\ ReceiveData(b)
      /\ since' = since /\ due' = due /\ sent' = sent /\ running
  <2>1. line \in Seq(Bytes)
    BY ParserTypes DEF StepInv
  <2>2. b \in Bytes
    BY <2>1, HeadTailProperties DEF DataHandle
  <2> QED BY <2>2, MaxLenInNat DEF StepInv, DataHandle, history
<1>2. Marked(m) /\ n \in Nat /\ Counts(m, n) /\ PlainUntil(m, n) /\ LastFrame(m, n) /\ Place(m, n)
  BY DEF Follows
<1>3. /\ m # <<>> /\ Len(t) = Len(m) - 1 /\ \A j \in 1..(Len(m) - 1) : t[j] = m[j + 1]
      /\ Marked(t)' /\ Noise(t)' = 0 /\ b = FrameOf[r][i]
  BY <1>1, <1>2, MarkedTail
<1>4. /\ m \in Seq(Reports \X Nat) /\ Len(m) \in Nat /\ Len(m) >= 1
      /\ r \in Reports /\ i \in Nat /\ i >= 1 /\ i <= L
  <2>1. /\ m \in Seq(Reports \X Nat) /\ Len(m) \in Nat /\ (m = <<>> <=> Len(m) = 0)
        /\ \A j \in 1..Len(m) :
             /\ m[j][1] \in Reports /\ m[j][2] \in Nat /\ m[j][2] >= 1
             /\ m[j][2] <= Len(FrameOf[m[j][1]])
    BY <1>1, <1>2, MarkTypes
  <2>2. Len(m) \in Nat /\ Len(m) >= 1 /\ 1 \in 1..Len(m)
    BY <1>3, <2>1
  <2> QED BY <2>1, <2>2
<1>5. /\ L \in Nat /\ L >= 6 /\ FrameOf[r][1] = HEAD1
  <2>1. L = Len(r.data) + 5 /\ Len(r.data) \in Nat /\ Len(r.data) >= 1 /\ FrameOf[r][1] = HEAD1
    BY <1>4, FrameBytes
  <2> QED BY <2>1
<1>6. t = <<>> <=> Len(m) = 1
  <2>1. t \in Seq(Reports \X Nat)
    <3>1. m \in Seq(Reports \X Nat) /\ m # <<>>
      BY <1>2, <1>3, Zenon DEF Marked
    <3> QED BY ONLY <3>1, Tailed
  <2>2. t = <<>> <=> Len(t) = 0
    BY <2>1, EmptySeq
  <2>3. Len(t) = Len(m) - 1 /\ Len(m) \in Nat
    BY <1>3, <1>4
  <2>4. Len(t) = 0 <=> Len(m) = 1
    BY ONLY <2>3
  <2> QED BY ONLY <2>2, <2>4
<1>7. t = <<>> => i = L
  <2>1. MarkAt(line, m, 1)
    BY <1>2, <1>4 DEF Marked
  <2> QED BY <1>6, <2>1 DEF MarkAt
<1>8. t # <<>> => (t[1] = <<r, i + 1>> /\ i < L) \/ (i = L /\ t[1][2] = 1)
  <2> SUFFICES ASSUME t # <<>> PROVE (t[1] = <<r, i + 1>> /\ i < L) \/ (i = L /\ t[1][2] = 1)
    OBVIOUS
  <2>1. 1 < Len(m) /\ 1 \in 1..(Len(m) - 1) /\ 1 \in 1..Len(m) /\ 1 + 1 \in 1..Len(m)
    BY <1>4, <1>6
  <2>2. MarkAt(line, m, 1)
    BY <1>2, <2>1 DEF Marked
  <2>3. t[1] = m[1 + 1]
    BY <1>3, <2>1
  <2>4. t[1] = <<r, i + 1>> \/ (i = L /\ t[1][2] = 1)
    BY <2>1, <2>2, <2>3 DEF MarkAt
  <2>5. t[1] = <<r, i + 1>> => i < L
    <3>1. m[1 + 1][2] <= Len(FrameOf[m[1 + 1][1]])
      BY <1>1, <1>2, <2>1, MarkTypes
    <3>2. t[1] = <<r, i + 1>> => i + 1 <= L
      BY <2>3, <3>1
    <3> QED BY <1>4, <1>5, <3>2
  <2> QED BY <2>4, <2>5
<1> HIDE DEF b, t, r, i, L
<1>9. Counts(t, n + 1)'
  <2>1. (n + 1) + Len(t) = n + Len(m)
    BY <1>2, <1>3, <1>4
  <2> QED BY <1>1, <1>2, <1>3, <2>1 DEF Counts
<1>10. PlainUntil(t, n + 1)'
  <2> SUFFICES ASSUME NEW j \in 1..Len(t), (n + 1) + j < RX_MAX_LEN + t[j][2]
               PROVE  Plain[t[j][1]]
    BY DEF PlainUntil
  <2>1. j \in 1..(Len(m) - 1) /\ j + 1 \in 1..Len(m) /\ (n + 1) + j = n + (j + 1)
    BY <1>2, <1>3, <1>4
  <2>2. t[j] = m[j + 1]
    BY <1>3, <2>1
  <2> QED BY <1>2, <2>1, <2>2 DEF PlainUntil
<1> DEFINE Places == AtStart(t) \/ PassesOver(t, n + 1) \/ Reads(t) \/ OutOfStep(n + 1)
<1>11. ASSUME AtStart(m) PROVE Places'
  <2>1. rx_flag = 0 /\ i = 1
    BY <1>3, <1>11 DEF AtStart, i
  <2>2. b = HEAD1
    BY <1>3, <1>5, <2>1
  <2>3. rx_flag' = 1
    BY <1>1, <2>1, <2>2
    DEF ReceiveData, AwaitHead1, AwaitHead2, ReadLength, ReadFunc, ReadData, ReadCheckSum
  <2>4. InFrame(r, 2)'
    BY <2>3 DEF InFrame
  <2>5. t # <<>> /\ t[1] = <<r, 2>>
    <3>1. i # L
      BY <1>5, <2>1
    <3> QED BY <1>7, <1>8, <2>1, <3>1
  <2>6. Reads(t)'
    BY <2>4, <2>5 DEF Reads
  <2> QED BY <2>6, <1>5, <2>1, <2>5
<1>12. ASSUME PassesOver(m, n) PROVE Places'
  <2>1. rx_flag = 0 /\ i > 1 /\ n + 1 < RX_MAX_LEN + i
    BY <1>12 DEF PassesOver, i
  <2>2. Plain[r]
    <3>1. 1 \in 1..Len(m)
      BY <1>4
    <3> QED BY <1>2, <2>1, <3>1 DEF PlainUntil, r, i
  <2>3. b # HEAD1
    <3>1. i \in 2..L
      BY <1>4, <1>5, <2>1
    <3>2. \A k \in 2..L : FrameOf[r][k] # HEAD1
      BY <1>4, <2>2 DEF Plain, L
    <3> QED BY <1>3, <3>1, <3>2
  <2>4. rx_flag' = 0
    BY <1>1, <2>1, <2>3
    DEF ReceiveData, AwaitHead1, AwaitHead2, ReadLength, ReadFunc, ReadData, ReadCheckSum
  <2>5. CASE t = <<>> \/ t[1][2] = 1
    BY <2>4, <2>5 DEF AtStart
  <2>6. CASE t # <<>> /\ t[1] = <<r, i + 1>>
    <3>1. t[1][2] = i + 1 /\ i + 1 > 1 /\ (n + 1) + 1 < RX_MAX_LEN + (i + 1)
      BY <1>1, <1>2, <1>4, <2>1, <2>6
    <3>2. PassesOver(t, n + 1)'
      BY <2>4, <2>6, <3>1 DEF PassesOver
    <3> QED BY <3>2
  <2> QED BY <1>8, <2>5, <2>6
<1>13. ASSUME Reads(m) PROVE Places'
  <2>1. InFrame(r, i)
    BY <1>13 DEF Reads, r, i
  <2>2. /\ i < L => InFrame(r, i + 1)'
        /\ i = L => rx_flag' = 0 /\ (running' => decoded' = Append(decoded, r))
    BY <1>1, <1>3, <1>4, <2>1, ReadsOn DEF L
  <2>3. CASE i < L
    <3>1. t # <<>> /\ t[1] = <<r, i + 1>>
      BY <1>4, <1>5, <1>7, <1>8, <2>3
    <3>2. Reads(t)'
      BY <2>2, <2>3, <3>1 DEF Reads
    <3> QED BY <3>2
  <2>4. CASE i = L
    <3>1. t # <<>> => t[1][2] = 1
      BY <1>4, <1>8, <2>4
    <3> QED BY <2>2, <2>4, <3>1 DEF AtStart
  <2> QED BY <1>4, <1>5, <2>3, <2>4
<1>14. ASSUME OutOfStep(n) PROVE Places'
  <2>1. rx_flag # 0 /\ BytesLeft + n < RX_MAX_LEN /\ BytesLeft \in Nat /\ BytesLeft >= 1
    BY <1>1, <1>14, FewerBytesLeft DEF OutOfStep
  <2>2. CASE rx_flag' = 0
    <3>1. CASE t = <<>> \/ t[1][2] = 1
      BY <2>2, <3>1 DEF AtStart
    <3>2. CASE t # <<>> /\ t[1] = <<r, i + 1>>
      <4>1. t[1][2] = i + 1 /\ i + 1 > 1 /\ (n + 1) + 1 < RX_MAX_LEN + (i + 1)
        BY <1>1, <1>2, <1>4, <2>1, <3>2
      <4>2. PassesOver(t, n + 1)'
        BY <2>2, <3>2, <4>1 DEF PassesOver
      <4> QED BY <4>2
    <3> QED BY <1>8, <3>1, <3>2
  <2>3. CASE rx_flag' # 0
    <3>1. BytesLeft' \in Nat /\ BytesLeft' < BytesLeft
      BY <1>1, <2>1, <2>3, FewerBytesLeft
    <3>2. BytesLeft' + (n + 1) < RX_MAX_LEN
      <4>1. n \in Nat /\ RX_MAX_LEN \in Nat
        BY <1>1, <1>2
      <4>2. PICK x \in Nat : x = BytesLeft
        BY <2>1
      <4>3. PICK y \in Nat : y = BytesLeft'
        BY <3>1
      <4>4. y < x /\ x + n < RX_MAX_LEN
        BY <2>1, <3>1, <4>2, <4>3
      <4>5. y + (n + 1) < RX_MAX_LEN
        BY ONLY <4>1, <4>4, x \in Nat, y \in Nat
      <4> QED BY <4>3, <4>5
    <3>3. OutOfStep(n + 1)'
      BY <2>3, <3>2 DEF OutOfStep
    <3> QED BY <3>3
  <2> QED BY <2>2, <2>3
<1>15. Places'
  <2>1. AtStart(m) \/ PassesOver(m, n) \/ Reads(m) \/ OutOfStep(n)
    BY <1>1, <1>2 DEF Place
  <2> QED BY <1>11, <1>12, <1>13, <1>14, <2>1
<1>16. LastFrame(t, n + 1)'
  <2> SUFFICES ASSUME due
               PROVE  IF t # <<>>
                      THEN /\ t[Len(t)][1] = Last(sent)
                           /\ (n + 1) + Len(t) >= RX_MAX_LEN + Len(FrameOf[Last(sent)])
                      ELSE running' => decoded' # <<>> /\ Last(decoded') = Last(sent)
    BY <1>1, <1>3 DEF LastFrame
  <2>1. /\ m[Len(m)][1] = Last(sent)
        /\ n + Len(m) >= RX_MAX_LEN + Len(FrameOf[Last(sent)])
    BY <1>2, <1>3 DEF LastFrame
  <2>2. CASE t # <<>>
    <3>1. Len(t) \in 1..(Len(m) - 1) /\ Len(t) + 1 = Len(m)
      <4>1. Len(t) = Len(m) - 1 /\ Len(m) \in Nat /\ Len(m) >= 1 /\ Len(m) # 1
        BY <1>3, <1>4, <1>6, <2>2
      <4> QED BY ONLY <4>1
    <3>2. t[Len(t)] = m[Len(m)]
      BY <1>3, <3>1
    <3>3. (n + 1) + Len(t) = n + Len(m)
      BY <1>2, <1>4, <3>1
    <3> QED BY <2>1, <2>2, <3>2, <3>3
  <2>3. CASE t = <<>>
    <3>1. Len(m) = 1 /\ i = L
      BY <1>6, <1>7, <2>3
    <3>2. r = Last(sent) /\ n + 1 >= RX_MAX_LEN + i
      BY <2>1, <3>1 DEF r, L
    <3>3. ~AtStart(m)
      BY <1>3, <1>5, <3>1 DEF AtStart, i
    <3>4. ~PassesOver(m, n)
      <4>1. ~(n + 1 < RX_MAX_LEN + i)
        BY <1>1, <1>2, <1>4, <3>2
      <4> QED BY <4>1 DEF PassesOver, i
    <3>5. ~OutOfStep(n)
      <4> SUFFICES ASSUME OutOfStep(n) PROVE FALSE
        OBVIOUS
      <4>1. BytesLeft + n < RX_MAX_LEN /\ BytesLeft \in Nat /\ BytesLeft >= 1
        BY <1>1, FewerBytesLeft DEF OutOfStep
      <4> QED BY <1>1, <1>2, <1>5, <3>1, <3>2, <4>1
    <3>6. Reads(m)
      BY <1>1, <1>2, <3>3, <3>4, <3>5 DEF Place
    <3>7. InFrame(r, i)
      BY <3>6 DEF Reads, r, i
    <3>8. running' => decoded' = Append(decoded, r)
      BY <1>1, <1>3, <1>4, <3>1, <3>7, ReadsOn DEF L
    <3>9. decoded \in Seq([func : Bytes, data : Seq(Bytes)])
      BY <1>1 DEF TypeOK, Bytes
    <3> QED BY <2>3, <3>2, <3>8, <3>9, LastAppended
  <2> QED BY <2>2, <2>3
<1>17. Place(t, n + 1)'
  BY <1>15 DEF Place
<1>18. Follows(t, n + 1)'
  <2>1. n + 1 \in Nat
    BY <1>2
  <2> QED BY <1>3, <1>9, <1>10, <1>16, <1>17, <2>1 DEF Follows
<1> QED BY <1>18

LEMMA InitFollows == Init => RX_MAX_LEN >= 6 /\ \E m, n : Follows(m, n)
<1> SUFFICES ASSUME Init PROVE RX_MAX_LEN >= 6 /\ \E m, n : Follows(m, n)
  OBVIOUS
<1>1. PICK r \in Reports : \E k \in 2..(Len(FrameOf[r]) + 1) :
        /\ line = SubSeq(FrameOf[r], k, Len(FrameOf[r]))
        /\ since = IF Plain[r] THEN RX_MAX_LEN ELSE 0
  BY DEF Init
<1>2. PICK k \in 2..(Len(FrameOf[r]) + 1) :
        /\ line = SubSeq(FrameOf[r], k, Len(FrameOf[r]))
        /\ since = IF Plain[r] THEN RX_MAX_LEN ELSE 0
  BY <1>1
<1>3. /\ FrameOf[r] \in Seq(Bytes) /\ Len(FrameOf[r]) \in Nat
      /\ RX_MAX_LEN \in Nat /\ RX_MAX_LEN >= 6
  <2>1. /\ FrameOf[r] \in Seq(Bytes) /\ Len(FrameOf[r]) = Len(r.data) + 5
        /\ Len(r.data) \in Nat /\ Len(r.data) >= 1
        /\ RX_MAX_LEN \in Nat /\ Len(r.data) + 5 <= RX_MAX_LEN
    BY FrameBytes
  <2> QED BY <2>1
<1>4. rx_flag = 0 /\ due = FALSE
  BY DEF Init
<1>5. PICK N \in Nat : N = Len(FrameOf[r]) + 1 - k /\ k + N = Len(FrameOf[r]) + 1
  <2>1. /\ Len(FrameOf[r]) + 1 - k \in Nat
        /\ k + (Len(FrameOf[r]) + 1 - k) = Len(FrameOf[r]) + 1
    BY <1>3
  <2> QED BY ONLY <2>1
<1>6. Len(line) = N /\ \A j \in 1..N : line[j] = FrameOf[r][k - 1 + j]
  <2>1. \A j \in k..Len(FrameOf[r]) : FrameOf[r][j] \in Bytes
    BY <1>3, ElementOfSeq
  <2>2. /\ Len(line) = IF k <= Len(FrameOf[r]) THEN Len(FrameOf[r]) - k + 1 ELSE 0
        /\ \A j \in 1..(Len(FrameOf[r]) - k + 1) : line[j] = FrameOf[r][k + j - 1]
    BY <1>2, <1>3, <2>1, SubSeqProperties
  <2>3. Len(line) = N
    BY <1>3, <1>5, <2>2
  <2>4. ASSUME NEW j \in 1..N PROVE line[j] = FrameOf[r][k - 1 + j]
    <3>1. j \in 1..(Len(FrameOf[r]) - k + 1) /\ k + j - 1 = k - 1 + j
      BY <1>3, <1>5
    <3> QED BY <2>2, <3>1
  <2> QED BY <2>3, <2>4
<1>7. CASE ~Plain[r]
  <2>1. Len(<<>>) = 0 /\ <<>> \in Seq(Reports \X Nat)
    OBVIOUS
  <2>2. Marked(<<>>)
    BY <1>6, <2>1 DEF Marked
  <2>3. Counts(<<>>, 0)
    BY <1>2, <1>3, <1>7, <2>1 DEF Counts
  <2>4. PlainUntil(<<>>, 0)
    BY <2>1 DEF PlainUntil
  <2>5. Place(<<>>, 0) /\ LastFrame(<<>>, 0)
    BY <1>4 DEF Place, LastFrame, AtStart
  <2>6. Follows(<<>>, 0)
    BY <2>2, <2>3, <2>4, <2>5 DEF Follows
  <2> QED BY <1>3, <2>6
<1>8. CASE Plain[r]
  <2> DEFINE m == [j \in 1..N |-> <<r, k - 1 + j>>]
  <2>1. m \in Seq(Reports \X Nat) /\ Len(m) = N
    OBVIOUS
  <2>2. \A j \in 1..N : m[j] = <<r, k - 1 + j>> /\ m[j][1] = r /\ m[j][2] = k - 1 + j
    OBVIOUS
  <2> HIDE DEF m
  <2>3. Noise(m) = 0
    BY <1>6, <2>1 DEF Noise
  <2>4. ASSUME NEW j \in 1..N PROVE MarkAt(line, m, j)
    <3>1. k - 1 + j \in 1..Len(FrameOf[r])
      BY <1>3, <1>5
    <3>2. line[Len(line) - Len(m) + j] = FrameOf[r][k - 1 + j]
      <4>1. N - N + j = j
        OBVIOUS
      <4> QED BY <1>6, <2>1, <4>1
    <3>3. j < N => m[j + 1] = <<r, (k - 1 + j) + 1>>
      <4> SUFFICES ASSUME j < N PROVE m[j + 1] = <<r, (k - 1 + j) + 1>>
        OBVIOUS
      <4>1. j + 1 \in 1..N /\ k - 1 + (j + 1) = (k - 1 + j) + 1
        OBVIOUS
      <4> QED BY <2>2, <4>1
    <3>4. j = N => k - 1 + j = Len(FrameOf[r])
      BY <1>3, <1>5
    <3> QED BY <2>1, <2>2, <3>1, <3>2, <3>3, <3>4 DEF MarkAt
  <2>5. Marked(m)
    BY <1>6, <2>1, <2>4 DEF Marked
  <2>6. Counts(m, RX_MAX_LEN)
    BY <1>2, <1>3, <1>8, <2>1, <2>3 DEF Counts
  <2>7. PlainUntil(m, RX_MAX_LEN)
    BY <1>8, <2>1, <2>2 DEF PlainUntil
  <2>8. Place(m, RX_MAX_LEN)
    <3>1. CASE m = <<>>
      BY <1>4, <3>1 DEF Place, AtStart
    <3>2. CASE m # <<>>
      <4>1. N # 0
        BY <2>1, <3>2, EmptySeq
      <4>2. 1 \in 1..N
        BY <4>1
      <4>3. m[1][2] = k - 1 + 1 /\ k - 1 + 1 = k
        BY <2>2, <4>2
      <4>4. k > 1 /\ RX_MAX_LEN + 1 < RX_MAX_LEN + k
        BY <1>3
      <4>5. PassesOver(m, RX_MAX_LEN)
        BY <1>4, <3>2, <4>3, <4>4 DEF PassesOver
      <4> QED BY <4>5 DEF Place
    <3> QED BY <3>1, <3>2
  <2>9. LastFrame(m, RX_MAX_LEN)
    BY <1>4 DEF LastFrame
  <2>10. Follows(m, RX_MAX_LEN)
    BY <1>3, <2>5, <2>6, <2>7, <2>8, <2>9 DEF Follows
  <2> QED BY <1>3, <2>10
<1> QED BY <1>7, <1>8

LEMMA InitStepInv == Init => StepInv
<1>1. Init => FrameEnds
  BY DEF Init, FrameEnds
<1> QED BY <1>1, InitTypeOK, InitFollows DEF StepInv

LEMMA FollowsNext ==
  ASSUME StepInv, [Next]_vars
  PROVE  \E m, n : Follows(m, n)'
<1>1. PICK m, n : Follows(m, n)
  BY DEF StepInv
<1>2. ASSUME NEW r \in Reports, WrongByte(r)
      PROVE  \E w, k : Follows(w, k)'
  <2>1. PICK i \in 1..Len(FrameOf[r]), b \in Stray :
          Damage([FrameOf[r] EXCEPT ![i] = b], i = 3 \/ ~Plain[r])
    BY <1>2 DEF WrongByte
  <2>2. /\ [FrameOf[r] EXCEPT ![i] = b] \in Seq(Bytes)
        /\ Len([FrameOf[r] EXCEPT ![i] = b]) = Len(FrameOf[r])
    BY Constants, ExceptSeq
  <2>3. Len(FrameOf[r]) >= 1
    BY Constants, LenProperties
  <2> QED BY <2>1, <2>2, <2>3, FollowsDamage
<1>3. ASSUME NEW r \in Reports, LostByte(r)
      PROVE  \E w, k : Follows(w, k)'
  <2>1. PICK i \in 1..Len(FrameOf[r]) : Damage(RemoveAt(FrameOf[r], i), TRUE)
    BY <1>3 DEF LostByte
  <2>2. RemoveAt(FrameOf[r], i) \in Seq(Bytes)
    BY Constants, FrameWithout
  <2>3. Len(RemoveAt(FrameOf[r], i)) >= 1
    <3>1. /\ FrameOf[r] \in Seq(Bytes) /\ Len(FrameOf[r]) = Len(r.data) + 5
          /\ Len(r.data) \in Nat
      BY FrameBytes
    <3>2. Len(FrameOf[r]) \in Nat /\ Len(FrameOf[r]) >= 5
      BY <3>1
    <3>3. \A j \in 1..Len(FrameOf[r]) : FrameOf[r][j] \in Bytes
      BY <3>1, ElementOfSeq
    <3>4. SubSeq(FrameOf[r], 1, i - 1) \in Seq(Bytes) /\ Len(SubSeq(FrameOf[r], 1, i - 1)) = i - 1
      BY <3>2, <3>3, SubSeqProperties
    <3>5. /\ SubSeq(FrameOf[r], i + 1, Len(FrameOf[r])) \in Seq(Bytes)
          /\ Len(SubSeq(FrameOf[r], i + 1, Len(FrameOf[r]))) = Len(FrameOf[r]) - i
      BY <3>2, <3>3, SubSeqProperties
    <3>6. Len(SubSeq(FrameOf[r], 1, i - 1) \o SubSeq(FrameOf[r], i + 1, Len(FrameOf[r])))
            = Len(SubSeq(FrameOf[r], 1, i - 1)) + Len(SubSeq(FrameOf[r], i + 1, Len(FrameOf[r])))
      BY ONLY <3>4, <3>5, Concatenated
    <3>7. Len(RemoveAt(FrameOf[r], i)) = (i - 1) + (Len(FrameOf[r]) - i)
      BY <3>4, <3>5, <3>6, Zenon DEF RemoveAt
    <3> QED BY <3>2, <3>7
  <2> QED BY <2>1, <2>2, <2>3, FollowsDamage
<1>4. ASSUME StrayByte
      PROVE  \E w, k : Follows(w, k)'
  <2>1. PICK b \in Stray : Damage(<<b>>, FALSE)
    BY <1>4 DEF StrayByte
  <2>2. <<b>> \in Seq(Bytes) /\ Len(<<b>>) = 1
    BY Constants
  <2>3. Len(<<b>>) >= 1
    BY <2>2
  <2> QED BY <2>1, <2>2, <2>3, FollowsDamage
<1>5. ASSUME DataHandle
      PROVE  \E w, k : Follows(w, k)'
  <2>1. Noise(m) \in Nat
    BY <1>1, MarkTypes DEF StepInv, Follows
  <2>2. Noise(m) > 0 \/ Noise(m) = 0
    BY <2>1
  <2> QED BY <1>1, <1>5, <2>2, FollowsNoiseByte, FollowsFrameByte
<1>6. ASSUME UNCHANGED vars
      PROVE  \E w, k : Follows(w, k)'
  <2>1. Follows(m, n)'
    BY <1>1, <1>6
    DEF vars, parser, history, Follows, Marked, MarkAt, Counts, PlainUntil, Place, LastFrame,
        Noise, AtStart, PassesOver, Reads, InFrame, OutOfStep, BytesLeft
  <2> QED BY <2>1
<1> QED BY <1>1, <1>2, <1>3, <1>4, <1>5, <1>6, FollowsReport DEF Next

LEMMA NextStepInv ==
  ASSUME StepInv, [Next]_vars
  PROVE  StepInv'
<1>1. TypeOK' /\ FrameEnds'
  BY NextTypeOK, NextFrameEnds DEF StepInv
<1>2. \E m, n : Follows(m, n)'
  BY FollowsNext
<1> QED BY <1>1, <1>2 DEF StepInv

LEMMA StepInvImplies == StepInv => BackInStep
<1> SUFFICES ASSUME StepInv, running, line = <<>>, due
             PROVE  decoded # <<>> /\ Last(decoded) = Last(sent)
  BY DEF BackInStep
<1>1. PICK m, n : Follows(m, n)
  BY DEF StepInv
<1>2. /\ m \in Seq(Reports \X Nat) /\ Len(m) \in Nat /\ Len(m) <= Len(line)
      /\ (m = <<>> <=> Len(m) = 0)
  BY <1>1, MarkTypes DEF StepInv, Follows
<1>3. Len(line) = 0
  OBVIOUS
<1>4. m = <<>>
  BY <1>2, <1>3
<1> QED BY <1>1, <1>4 DEF Follows, LastFrame

(* Back in step: behind RX_MAX_LEN sound bytes of plain frames the parser   *)
(* of _receive_data decodes the next frame, whatever stood on the line      *)
(* before it.                                                               *)
THEOREM BackInStepHolds == Spec => []BackInStep
<1> QED
  BY InitStepInv, NextStepInv, StepInvImplies, PTL DEF Spec
==============================================================================
