----------------------------- MODULE YbImuDriver -----------------------------
(***************************************************************************)
(* The IMU node (ybimu_driver.py) on top of the library, and the node that *)
(* draws what it publishes (imu_marker_viz.py). The timer of the IMU node  *)
(* is the library's calling thread; the commands of the library stand      *)
(* beside it, as its own main program and a maintainer use them.           *)
(***************************************************************************)
EXTENDS YbImuSerial

CONSTANT Depth   \* of the subscription of imu_marker_viz, 10
ASSUME DepthAssumption == Depth \in Nat \ {0}

VARIABLES
  node,        \* "starting", "spinning" or "gone"
  published,   \* the last messages: for each vector the oldest frame in it
  vizQueue,    \* orientations it has not served
  marker       \* the orientation it shows

nodeVars == <<node, published, vizQueue, marker>>
vars == <<serialVars, nodeVars>>

Init ==
  /\ SerialInit
  /\ node = "starting" /\ published = [v \in Vectors |-> 0]
  /\ vizQueue = <<>> /\ marker = 0

(* init_topic and main: without a port that opens the node ends. A receive  *)
(* thread that does not start is reported and otherwise ignored.            *)
InitTopic ==
  /\ node = "starting"
  /\ node' \in {"spinning", "gone"}
  /\ alive' \in BOOLEAN
  /\ UNCHANGED <<reg, rx, frames, complete, caller, device, overlap,
                 published, vizQueue, marker>>

Spinning(A) == node = "spinning" /\ A /\ UNCHANGED nodeVars

(* Faulty variant: the queue has no limit.                                  *)
KeepAll(queue, msg) == Append(queue, msg)

KeepLast(queue, msg) ==
  Append(IF Len(queue) < Depth THEN queue ELSE Tail(queue), msg)

(* The end of pub_data: four messages under one stamp.                      *)
PubData ==
  /\ node = "spinning" /\ call.op = "sample" /\ Finished
  /\ published' = [v \in Vectors |-> IF seen[v] = {} THEN 0 ELSE Min(seen[v])]
  /\ vizQueue' = KeepLast(vizQueue, published'.quat)
  /\ Return
  /\ UNCHANGED <<abandoned, node, marker>>

(* Faulty variant: the template goes out as it is.                          *)
OnImuTemplate ==
  /\ vizQueue # <<>>
  /\ vizQueue' = Tail(vizQueue)
  /\ UNCHANGED <<serialVars, node, published, marker>>

OnImu ==
  /\ vizQueue # <<>>
  /\ marker' = Head(vizQueue)
  /\ vizQueue' = Tail(vizQueue)
  /\ UNCHANGED <<serialVars, node, published>>

CallingThread == Spinning(CallerSteps) \/ PubData

Next == \/ InitTopic \/ Spinning(SerialNext) \/ Spinning(BeginSample)
        \/ PubData \/ OnImu

(* The threads run, the timer fires again however often commands are called,*)
(* the device deals with what it has got; frames, commands, faults and the  *)
(* start of nodes are left open. Ctrl-C ends the process and with it what   *)
(* is said here.                                                            *)
Fairness ==
  /\ WF_vars(Spinning(AssignField))
  /\ WF_vars(CallingThread) /\ SF_vars(Spinning(BeginSample))
  /\ WF_vars(Spinning(\E r \in pending : Answer(r) \/ LoseRequest(r)))
  /\ WF_vars(OnImu)

Spec == Init /\ [][Next]_vars
FairSpec == Spec /\ Fairness
-----------------------------------------------------------------------------
Numbers == 0..MaxFrames
Operations == {"idle", "sample", "version", "setting"} \cup Calibrations

(* Fields hold frame numbers, the calling thread is where its call can be,  *)
(* a request is pending or lost, and the queue of imu_marker_viz keeps to   *)
(* its depth.                                                               *)
TypeOK ==
  /\ reg \in [Fields -> Numbers]
  /\ complete \in [DataKinds -> Numbers] /\ stamp \in [DataKinds -> Numbers]
  /\ rx \in [kind : Kinds \cup {"none"}, at : Nat]
  /\ rx.kind # "none" => rx.at \in 1..Len(Assigns[rx.kind])
  /\ alive \in BOOLEAN
  /\ frames \in Seq([kind : Kinds, req : Nat]) /\ Len(frames) \in Numbers
  /\ call \in [op : Operations, phase : {"none", "read", "reset", "send", "wait", "sleep"},
               at : Nat, req : Nat]
  /\ call.op = "idle" => call.phase = "none"
  /\ seen \in [Vectors -> SUBSET Numbers] /\ published \in [Vectors -> Numbers]
  /\ log \in Seq(Calibrations \cup {"version"})
  /\ pending \cap lost = {} /\ pending \cup lost \cup abandoned \subseteq 1..Len(log)
  /\ overlap \subseteq Kinds
  /\ node \in {"starting", "spinning", "gone"}
  /\ vizQueue \in Seq(Numbers) /\ Len(vizQueue) <= Depth /\ marker \in Numbers

Torn(v) == \E a, b \in seen[v] : a # b

(* A vector that mixes two frames is the work of a frame of its kind that   *)
(* the receive thread was assigning, or had left half assigned when it      *)
(* died, while the call ran: the getters and _parse_data use the same       *)
(* fields and leave none out.                                               *)
TornOnlyByOverlap ==
  \A v \in Vectors : Torn(v) => KindOf(v) \in overlap

(* The stamp of a message is taken before its data are read: no field is    *)
(* older than the last frame that was complete at the stamp (pub_data).     *)
NotOlderThanStamp ==
  (call.op = "sample" /\ Finished) =>
    \A v \in Vectors \ {"version"} : \A n \in seen[v] : n >= stamp[KindOf(v)]

(* The calls of its function written after request r, and those given up.   *)
Lag(r) == Cardinality({q \in 1..Len(log) : q > r /\ log[q] = log[r]})
GivenUp(func) == {a \in abandoned : log[a] = func}

(* What ends the waiting of a call is the answer to its own request, unless *)
(* calls of that function were given up: an answer that comes late is taken *)
(* for the next one, whose own answer is then late in its turn              *)
(* (wait_calibration, get_version). The answers never lag behind by more    *)
(* calls than were given up.                                                *)
LagsByGivenUp ==
  /\ CalibrationAnswered => Lag(frames[reg[RxFunc]].req) <= Cardinality(GivenUp(call.op))
  /\ VersionAnswered => Lag(frames[reg[VersionH]].req) <= Cardinality(GivenUp("version"))

Stuck == node = "gone" \/ (call.op = "mag" /\ (call.req \in lost \/ ~alive))
Sampled == {v \in Vectors : KindOf(v) \in DataKinds /\ Reads[v] # <<>>}

(* Every call of the library returns, with one exception: calibration_mag   *)
(* has no timeout and waits for ever for an answer that is lost or that no  *)
(* receive thread is left to take.                                          *)
CallsReturn == call.op # "idle" ~> (call.op = "idle" \/ Stuck)

(* When the device falls silent, the frames assigned last in full, or later *)
(* ones, come to be published in every vector (pub_data), whatever commands *)
(* were given up and wherever the receive thread may have died.             *)
DataIsPublished ==
  <>[](Stuck \/ \A v \in Sampled : published[v] >= complete[KindOf(v)])

(* Then imu_marker_viz comes to show that orientation, although its queue   *)
(* drops messages.                                                          *)
DataIsShown == <>[](Stuck \/ marker >= complete["quat"])
==============================================================================
