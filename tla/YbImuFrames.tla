----------------------------- MODULE YbImuFrames -----------------------------
(***************************************************************************)
(* The frame parser of the IMU library (vendor_ybimu/YbImuSerialLib.py):   *)
(* _receive_data, fed byte by byte by the receive thread from a serial     *)
(* line on which bytes are lost, changed and added.                        *)
(*                                                                         *)
(* A frame is HEAD1 HEAD2 len func data.. sum: len counts all of it, sum   *)
(* is the low byte of the sum of what precedes it. rx_count of the code is *)
(* 4 + Len(rx_data).                                                       *)
(***************************************************************************)
EXTENDS Naturals, Sequences, SequencesExt

CONSTANTS
  HEAD1, HEAD2,   \* 0x7E, 0x23
  RX_MAX_LEN,     \* 40
  BYTES,          \* the number of byte values, 256
  Needed,         \* func -> the number of data bytes _parse_data unpacks
  Reports,        \* the frames the device sends, records of func and data
  Stray,          \* values noise puts on the line
  MaxSent, MaxDamage, MaxLine   \* bounds: frames, damages, bytes on the line

ASSUME FrameConstants ==
  /\ {HEAD1, HEAD2, RX_MAX_LEN} \subseteq 0..(BYTES - 1)
  /\ BYTES \in Nat /\ HEAD1 > RX_MAX_LEN /\ HEAD1 # HEAD2

VARIABLES
  line,      \* bytes that wait to be read
  running,   \* the receive thread has not been ended by an exception
  rx_flag, data_len, data_func, rx_data,
  sent, decoded,     \* history: undamaged frames sent, frames parsed
  damage, spoiled,   \* history: damages; more than one sum byte can detect
  since, due         \* history: sound bytes since the last damage, and
                     \* whether the last frame came after enough of them

parser == <<rx_flag, data_len, data_func, rx_data>>
history == <<sent, damage, spoiled, since, due>>
vars == <<line, running, parser, decoded, history>>
-----------------------------------------------------------------------------
CheckSum(bytes) == FoldLeft(LAMBDA a, b : a + b, 0, bytes) % BYTES

(* cmd = [head1, head2, len + 1, func, params..], then the sum: the format  *)
(* of the commands and of the reports alike.                                *)
Encode(func, data) ==
  LET cmd == <<HEAD1, HEAD2, Len(data) + 5, func>> \o data
  IN  Append(cmd, CheckSum(cmd))

FrameOf == [r \in Reports |-> Encode(r.func, r.data)]

ASSUME LineBytes ==
  /\ \A r \in Reports : FrameOf[r] \in Seq(0..(BYTES - 1))
  /\ Stray \subseteq 0..(BYTES - 1)
  /\ {MaxSent, MaxDamage, MaxLine} \subseteq Nat

(* A report has data, and not more than the parser accepts (2 to 18 bytes). *)
ASSUME ReportFrames ==
  /\ Reports \subseteq [func : 0..(BYTES - 1), data : Seq(0..(BYTES - 1))]
  /\ \A r \in Reports : Len(r.data) \in 1..(RX_MAX_LEN - 5)

(* No byte of the frame but its first can be taken for the start of one.    *)
Plain == [r \in Reports |-> \A i \in 2..Len(FrameOf[r]) : FrameOf[r][i] # HEAD1]

(* flushInput throws away what has arrived when the thread starts: the line *)
(* may begin in the middle of a frame.                                      *)
Init ==
  /\ \E r \in Reports : \E n \in 2..(Len(FrameOf[r]) + 1) :
       /\ line = SubSeq(FrameOf[r], n, Len(FrameOf[r]))
       /\ spoiled = ~Plain[r]
       /\ since = IF Plain[r] THEN RX_MAX_LEN ELSE 0
  /\ running = TRUE
  /\ rx_flag = 0 /\ data_len = 0 /\ data_func = 0 /\ rx_data = <<>>
  /\ sent = <<>> /\ decoded = <<>> /\ damage = 0 /\ due = FALSE
-----------------------------------------------------------------------------
(* The device and the line.                                                 *)

InSync == since >= RX_MAX_LEN

Report(r) ==
  /\ Len(sent) < MaxSent /\ Len(line) <= MaxLine
  /\ line' = line \o FrameOf[r]
  /\ sent' = Append(sent, r)
  /\ due' = InSync
  /\ since' = IF InSync THEN since ELSE IF Plain[r] THEN since + Len(FrameOf[r]) ELSE 0
  /\ spoiled' = (spoiled \/ (~InSync /\ ~Plain[r]))
  /\ UNCHANGED <<running, parser, decoded, damage>>

Damage(bytes, undetectable) ==
  /\ damage < MaxDamage /\ Len(line) <= MaxLine
  /\ line' = line \o bytes
  /\ damage' = damage + 1
  /\ spoiled' = (spoiled \/ undetectable \/ ~InSync)
  /\ since' = 0 /\ due' = FALSE
  /\ UNCHANGED <<running, parser, decoded, sent>>

StrayByte == \E b \in Stray : Damage(<<b>>, FALSE)

(* A wrong length makes the parser look for the sum at another place.       *)
WrongByte(r) ==
  \E i \in 1..Len(FrameOf[r]), b \in Stray :
     b # FrameOf[r][i] /\ Damage([FrameOf[r] EXCEPT ![i] = b], i = 3 \/ ~Plain[r])

LostByte(r) ==
  \E i \in 1..Len(FrameOf[r]) : Damage(RemoveAt(FrameOf[r], i), TRUE)
-----------------------------------------------------------------------------
(* _receive_data, one action for each value of rx_flag.                     *)

AwaitHead1(b) ==
  /\ rx_flag = 0
  /\ rx_flag' = IF b = HEAD1 THEN 1 ELSE 0
  /\ UNCHANGED <<running, data_len, data_func, rx_data, decoded>>

AwaitHead2(b) ==
  /\ rx_flag = 1
  /\ rx_flag' = IF b = HEAD2 THEN 2 ELSE 0
  /\ UNCHANGED <<running, data_len, data_func, rx_data, decoded>>

(* Faulty variant: the length is not limited.                               *)
ReadLengthUnlimited(b) ==
  /\ rx_flag = 2
  /\ data_len' = b /\ rx_flag' = 3
  /\ UNCHANGED <<running, data_func, rx_data, decoded>>

(* There is no lower bound on the length.                                   *)
ReadLength(b) ==
  /\ rx_flag = 2
  /\ IF b <= RX_MAX_LEN THEN data_len' = b /\ rx_flag' = 3
                        ELSE data_len' = 0 /\ rx_flag' = 0
  /\ UNCHANGED <<running, data_func, rx_data, decoded>>

(* Faulty variant: the data of the frame before are kept.                   *)
ReadFuncKeepingData(b) ==
  /\ rx_flag = 3
  /\ data_func' = b /\ rx_flag' = 4
  /\ UNCHANGED <<running, data_len, rx_data, decoded>>

ReadFunc(b) ==
  /\ rx_flag = 3
  /\ data_func' = b /\ rx_data' = <<>> /\ rx_flag' = 4
  /\ UNCHANGED <<running, data_len, decoded>>

(* Faulty variant: a length below 6 is never met.                           *)
DataCompleteExactly(data) == 4 + Len(data) = data_len - 1

DataComplete(data) == 4 + Len(data) + 1 >= data_len

ReadData(b) ==
  /\ rx_flag = 4
  /\ rx_data' = Append(rx_data, b)
  /\ rx_flag' = IF DataComplete(rx_data') THEN 5 ELSE 4
  /\ UNCHANGED <<running, data_len, data_func, decoded>>

(* Faulty variant: the sum is not compared.                                  *)
SumUnchecked(b) == b \in 0..(BYTES - 1)

SumMatches(b) == b = CheckSum(<<HEAD1, HEAD2, data_len, data_func>> \o rx_data)

(* struct.unpack raises an error when bytes are missing: no handler stands  *)
(* between it and the end of the thread.                                    *)
Unpacks == data_func \in DOMAIN Needed => Len(rx_data) >= Needed[data_func]

ReadCheckSum(b) ==
  /\ rx_flag = 5
  /\ rx_flag' = 0
  /\ decoded' = IF SumMatches(b) /\ Unpacks
                THEN Append(decoded, [func |-> data_func, data |-> rx_data]) ELSE decoded
  /\ running' = (SumMatches(b) => Unpacks)
  /\ UNCHANGED <<data_len, data_func, rx_data>>

ReceiveData(b) == \/ AwaitHead1(b) \/ AwaitHead2(b) \/ ReadLength(b)
                  \/ ReadFunc(b)   \/ ReadData(b)   \/ ReadCheckSum(b)

(* _data_handle: what has arrived is passed on byte by byte.                *)
DataHandle ==
  /\ running /\ line # <<>>
  /\ ReceiveData(Head(line))
  /\ line' = Tail(line)
  /\ UNCHANGED history

Next == \/ \E r \in Reports : Report(r) \/ WrongByte(r) \/ LostByte(r)
        \/ StrayByte
        \/ DataHandle

Spec == Init /\ [][Next]_vars
-----------------------------------------------------------------------------
(* Bytes are bytes, and a length the parser accepts is at most RX_MAX_LEN.  *)
TypeOK ==
  /\ line \in Seq(0..(BYTES - 1)) /\ rx_data \in Seq(0..(BYTES - 1))
  /\ rx_flag \in 0..5 /\ data_len \in 0..RX_MAX_LEN /\ data_func \in 0..(BYTES - 1)
  /\ running \in BOOLEAN /\ spoiled \in BOOLEAN /\ due \in BOOLEAN
  /\ damage \in 0..MaxDamage /\ since \in Nat /\ sent \in Seq(Reports)
  /\ decoded \in Seq([func : 0..(BYTES - 1), data : Seq(0..(BYTES - 1))])

(* Whatever bytes arrive, a frame that was begun comes to its end before    *)
(* RX_MAX_LEN bytes of it: the buffer is bounded and the parser is never    *)
(* caught waiting for data for ever (rx_count against data_len, where a     *)
(* length from noise may be smaller than any real frame).                   *)
FrameEnds ==
  /\ rx_flag = 4 => (rx_data = <<>> \/ Len(rx_data) + 5 < data_len)
  /\ rx_flag = 5 => (Len(rx_data) = 1 \/ Len(rx_data) + 5 <= data_len)

(* The resets of _receive_data lead back to the frames: a frame that begins *)
(* at least RX_MAX_LEN sound bytes after the last damage is decoded,        *)
(* provided no byte inside the frames between looks like HEAD1 (a sensor at *)
(* rest whose data hold the header can keep the parser out of step).        *)
BackInStep ==
  (running /\ line = <<>> /\ due) => (decoded # <<>> /\ Last(decoded) = Last(sent))

(* The parser implements FrameLink: what it hands to _parse_data is what    *)
(* the device sent, in order, and only damage that one sum byte cannot      *)
(* detect (a wrong length, a lost byte, two damages close together) can end *)
(* the receive thread.                                                      *)
Link == INSTANCE FrameLink WITH got <- decoded, open <- running
ImplementsFrameLink == Link!LinkSpec
==============================================================================
