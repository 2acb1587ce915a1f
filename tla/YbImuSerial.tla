----------------------------- MODULE YbImuSerial -----------------------------
(***************************************************************************)
(* The IMU library (vendor_ybimu/YbImuSerialLib.py) between its two        *)
(* threads: the receive thread assigns the fields of a frame one by one    *)
(* (_parse_data) while the calling thread reads them one by one (getters)  *)
(* and waits for answers in them (get_version, wait_calibration). There is *)
(* no lock. YbImuFrames has the bytes; here a frame arrives as a whole.    *)
(*                                                                         *)
(* A field holds the number of the frame that assigned it, 0 when it is as *)
(* __init__ or a reset left it.                                            *)
(***************************************************************************)
EXTENDS Naturals, Sequences, SequencesExt

CONSTANTS
  AutoKinds,               \* the kinds of frames the device sends by itself
  Commands,                \* the commands that are called
  MaxFrames, MaxRequests,  \* bounds: frames, requests with an answer,
  MaxAxes                  \* and fields of each vector

VARIABLES
  reg,      \* the fields
  rx,       \* the receive thread: the frame it assigns and the next field
  alive,    \* the receive thread runs
  frames,   \* the frames parsed so far: their kind, the request they answer
  call,     \* the calling thread: what it does, where it is, its request
  seen,     \* what the call has read: the frames met in each vector
  log,      \* the requests written that have an answer, in order
  pending,  \* those the device has not dealt with
  lost,     \* those it will not answer
  abandoned,        \* history: requests whose caller gave up waiting
  complete, stamp,  \* history: the last frame of each kind assigned in full,
                    \* now and when the sample began
  overlap           \* history: kinds assigned since the call began to read

receiver == <<rx, alive, frames, complete>>
caller == <<call, seen, abandoned, stamp>>
device == <<log, pending, lost>>
serialVars == <<reg, receiver, caller, device, overlap>>
-----------------------------------------------------------------------------
(* The getters: the vectors and their fields, read in this order. MaxAxes   *)
(* cuts them short for the model checker.                                   *)
Axes == [accel |-> 3, gyro |-> 3, mag |-> 3, quat |-> 4, baro |-> 4, euler |-> 3,
         version |-> 3]
Vectors == DOMAIN Axes
Reads == [v \in Vectors |-> [i \in 1..Min({Axes[v], MaxAxes[v]}) |-> <<v, i>>]]

(* Faulty variant: the last field of the quaternion is forgotten.           *)
AssignsLessOfQuat ==
  [raw |-> Reads.accel \o Reads.gyro \o Reads.mag,
   euler |-> Reads.euler, quat |-> Front(Reads.quat), baro |-> Reads.baro,
   version |-> Reads.version, state |-> <<<<"rx_func", 1>>>>]

(* _parse_data: the fields of a frame in the order in which it sets them.   *)
(* An answer also has a state, which every caller ignores.                  *)
Assigns ==
  [raw |-> Reads.accel \o Reads.gyro \o Reads.mag,
   euler |-> Reads.euler, quat |-> Reads.quat, baro |-> Reads.baro,
   version |-> Reads.version, state |-> <<<<"rx_func", 1>>>>]

DataKinds == {"raw", "euler", "quat", "baro"}
Kinds == DataKinds \cup {"version", "state"}

(* The device sends frames of data by itself, and none without a field;     *)
(* get_version looks at its first field.                                    *)
ASSUME DeviceAssumption ==
  /\ MaxFrames \in Nat /\ MaxRequests \in Nat
  /\ MaxAxes \in [Vectors -> Nat] /\ MaxAxes.version >= 1
  /\ AutoKinds \subseteq DataKinds /\ \A k \in AutoKinds : Assigns[k] # <<>>

RxFunc == <<"rx_func", 1>>
VersionH == <<"version", 1>>
Fields == (UNION {{<<v, i>> : i \in 1..Len(Reads[v])} : v \in Vectors}) \cup {RxFunc}

(* The kind of frame a vector is taken from.                                *)
KindOf(v) == IF v \in {"accel", "gyro", "mag"} THEN "raw" ELSE v

(* pub_data reads six vectors, get_version one.                             *)
Plan ==
  [op \in {"sample", "version"} |->
     IF op = "version" THEN Reads.version
     ELSE Reads.accel \o Reads.gyro \o Reads.mag \o Reads.quat \o Reads.baro \o Reads.euler]

Idle == [op |-> "idle", phase |-> "none", at |-> 0, req |-> 0]
NothingSeen == [v \in Vectors |-> {}]
NoFrames == [k \in DataKinds |-> 0]

SerialInit ==
  /\ reg = [f \in Fields |-> 0]
  /\ rx = [kind |-> "none", at |-> 0]
  /\ alive = TRUE /\ frames = <<>> /\ complete = NoFrames
  /\ call = Idle /\ seen = NothingSeen /\ abandoned = {}
  /\ stamp = NoFrames
  /\ log = <<>> /\ pending = {} /\ lost = {} /\ overlap = {}
-----------------------------------------------------------------------------
(* The device.                                                              *)

Arrives(kind, req) ==
  /\ alive /\ rx.kind = "none" /\ Len(frames) < MaxFrames
  /\ frames' = Append(frames, [kind |-> kind, req |-> req])
  /\ rx' = [kind |-> kind, at |-> 1]
  /\ UNCHANGED <<reg, alive, complete, caller, overlap>>

AutoReport(kind) == Arrives(kind, 0) /\ UNCHANGED device

First(r) == r \in pending /\ \A q \in pending : r <= q

AnswerKind(r) == IF log[r] = "version" THEN "version" ELSE "state"

Answer(r) ==
  /\ First(r)
  /\ Arrives(AnswerKind(r), r)
  /\ pending' = pending \ {r}
  /\ UNCHANGED <<log, lost>>

LoseRequest(r) ==
  /\ First(r)
  /\ pending' = pending \ {r} /\ lost' = lost \cup {r}
  /\ UNCHANGED <<reg, receiver, caller, log, overlap>>
-----------------------------------------------------------------------------
(* The receive thread.                                                      *)

AssignField ==
  /\ alive /\ rx.kind # "none"
  /\ reg' = [reg EXCEPT ![Assigns[rx.kind][rx.at]] = Len(frames)]
  /\ overlap' = IF call.op \in DOMAIN Plan THEN overlap \cup {rx.kind} ELSE {}
  /\ IF rx.at = Len(Assigns[rx.kind])
     THEN /\ rx' = [kind |-> "none", at |-> 0]
          /\ complete' = IF rx.kind \in DataKinds
                          THEN [complete EXCEPT ![rx.kind] = Len(frames)] ELSE complete
     ELSE rx' = [rx EXCEPT !.at = @ + 1] /\ UNCHANGED complete
  /\ UNCHANGED <<alive, frames, caller, device>>

(* An error ends the thread: the port fails between two frames, or          *)
(* struct.unpack finds too few bytes for the next field. Nobody is told.    *)
ReceiverDies ==
  /\ alive
  /\ alive' = FALSE
  /\ UNCHANGED <<reg, rx, frames, complete, caller, device, overlap>>
-----------------------------------------------------------------------------
(* The calling thread.                                                      *)

Begin(op, phase, req) ==
  /\ call.op = "idle"
  /\ call' = [op |-> op, phase |-> phase, at |-> 1, req |-> req]
  /\ seen' = NothingSeen
  /\ stamp' = IF op = "sample" THEN complete ELSE NoFrames
  /\ overlap' = IF op \in DOMAIN Plan /\ rx.at > 1 THEN {rx.kind} ELSE {}
  /\ UNCHANGED <<receiver, abandoned>>

Writes(func) == /\ Len(log) < MaxRequests
                /\ log' = Append(log, func)
                /\ pending' = pending \cup {Len(log) + 1}
                /\ UNCHANGED lost

BeginSample == Begin("sample", "read", 0) /\ UNCHANGED <<reg, device>>

(* Faulty variant: the stamp is taken after the last field.                 *)
ReadFieldThenStamp ==
  /\ call.phase = "read" /\ call.at <= Len(Plan[call.op])
  /\ LET f == Plan[call.op][call.at]
     IN  seen' = [seen EXCEPT ![f[1]] = @ \cup {reg[f]}]
  /\ call' = [call EXCEPT !.at = @ + 1]
  /\ stamp' = complete
  /\ UNCHANGED <<reg, receiver, device, abandoned, overlap>>

ReadField ==
  /\ call.phase = "read"
  /\ call.at <= Len(Plan[call.op])
  /\ LET f == Plan[call.op][call.at]
     IN  seen' = [seen EXCEPT ![f[1]] = @ \cup {reg[f]}]
  /\ call' = [call EXCEPT !.at = @ + 1]
  /\ UNCHANGED <<reg, receiver, device, abandoned, stamp, overlap>>

Finished == call.phase = "read" /\ call.at > Len(Plan[call.op])

Return == /\ call' = Idle
          /\ seen' = NothingSeen /\ stamp' = NoFrames /\ overlap' = {}
          /\ UNCHANGED <<reg, receiver, device>>

(* get_version: the three fields are reset one by one, then the request is  *)
(* written.                                                                 *)
BeginVersion ==
  /\ Len(log) < MaxRequests
  /\ Begin("version", "reset", Len(log) + 1)
  /\ UNCHANGED <<reg, device>>

ResetVersion ==
  /\ call.phase = "reset"
  /\ reg' = [reg EXCEPT ![Reads.version[call.at]] = 0]
  /\ call' = [call EXCEPT !.at = @ + 1, !.phase = IF call.at = Len(Reads.version) THEN "send" ELSE @]
  /\ UNCHANGED <<receiver, device, seen, abandoned, stamp, overlap>>

RequestVersion ==
  /\ call.phase = "send"
  /\ Writes("version")
  /\ call' = [call EXCEPT !.phase = "wait"]
  /\ UNCHANGED <<reg, receiver, seen, abandoned, stamp, overlap>>

VersionAnswered == call.op = "version" /\ call.phase = "wait" /\ reg[VersionH] # 0

ReadVersion ==
  /\ VersionAnswered
  /\ call' = [call EXCEPT !.phase = "read", !.at = 1]
  /\ UNCHANGED <<reg, receiver, device, seen, abandoned, stamp, overlap>>

GetVersionReturns == call.op = "version" /\ Finished /\ Return /\ UNCHANGED abandoned

Calibrations == {"imu", "mag", "temp"}
HasTimeout == {"imu", "temp"}

(* Faulty variant: the answer of the calibration before is not cleared.     *)
BeginCalibrationUncleared(func) ==
  /\ Begin(func, "wait", Len(log) + 1)
  /\ Writes(func)
  /\ UNCHANGED reg

BeginCalibration(func) ==
  /\ Begin(func, "wait", Len(log) + 1)
  /\ Writes(func)
  /\ reg' = [reg EXCEPT ![RxFunc] = 0]

(* The function an answer names.                                            *)
FuncOf(n) == log[frames[n].req]

CalibrationAnswered ==
  /\ call.op \in Calibrations /\ call.phase = "wait"
  /\ reg[RxFunc] # 0 /\ FuncOf(reg[RxFunc]) = call.op

CalibrationReturns == CalibrationAnswered /\ Return /\ UNCHANGED abandoned

(* set_report_rate, set_algo_type, reset_user_data: a command without an    *)
(* answer, then a second of sleep. (A wrong argument returns at once.)      *)
BeginSetting ==
  /\ Begin("setting", "sleep", 0)
  /\ UNCHANGED <<reg, device>>

SettingReturns == call.phase = "sleep" /\ Return /\ UNCHANGED abandoned

(* Faulty variant: a calibration without an answer is waited for for ever.  *)
GivesUpOnVersion ==
  /\ call.phase = "wait" /\ call.op = "version" /\ ~VersionAnswered
  /\ abandoned' = abandoned \cup {call.req}
  /\ Return

GivesUp ==
  /\ call.phase = "wait" /\ call.op \in HasTimeout \cup {"version"}
  /\ ~CalibrationAnswered /\ ~VersionAnswered
  /\ abandoned' = abandoned \cup {call.req}
  /\ Return
-----------------------------------------------------------------------------
Device == \/ \E kind \in AutoKinds : AutoReport(kind)
          \/ \E r \in pending : Answer(r)
Command == \/ "version" \in Commands /\ BeginVersion
           \/ "setting" \in Commands /\ BeginSetting
           \/ \E func \in Calibrations \cap Commands : BeginCalibration(func)
CallerSteps == \/ ReadField \/ ResetVersion \/ RequestVersion \/ ReadVersion
               \/ GetVersionReturns \/ CalibrationReturns \/ SettingReturns \/ GivesUp

SerialNext == \/ Device
              \/ \E r \in pending : LoseRequest(r)
              \/ AssignField \/ ReceiverDies
              \/ Command \/ CallerSteps
==============================================================================
