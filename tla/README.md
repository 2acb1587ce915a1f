# A TLA+ model of the DRL-Main sensor and vehicle workspace

The repository (`sensor_ws`) is a ROS 2 workspace for a guided vehicle (AGV): a node
that drives the vehicle over Modbus TCP, a keyboard teleoperation node, a node
that estimates odometry from the commands, an IMU driver and a lidar driver.
This directory holds TLA+ models of its control logic, TLC configurations that
check them on small instances, and proofs that TLAPS checks for every value of
the constants. The files, relative to the repository: `agv_bridge.py` and
`keyboard_teleop.py` in `sensor_ws/src/agv_control/agv_control/`;
`command_odom.py` and `imu_marker_viz.py` in
`sensor_ws/src/sensor_bringup/sensor_bringup/`; `ybimu_driver.py` and
`vendor_ybimu/YbImuSerialLib.py` in
`sensor_ws/src/imu_ros2_device/imu_ros2_device/`; the lidar's C++ in
`sensor_ws/src/ldlidar_ros2/`.

## 1. The system

```
keyboard --> keyboard_teleop --/cmd_vel_teleop--+
Nav2 --------/cmd_vel_nav, /cmd_vel-------------+--> agv_bridge --Modbus TCP--> vehicle
anyone ------/agv/control_mode------------------+        |
                                 /agv/current_command ---+--> command_odom --> /odom, TF
IMU (serial) --> ybimu_driver --/imu/data_raw--> imu_marker_viz --> marker
lidar (serial or UDP) --> ldlidar driver --/scan--> slam_toolbox, Nav2
```

| Component | State | Operations | What makes it correct |
|---|---|---|---|
| `agv_bridge` node | mode and requested mode; last twist and its stamp per mode; last command acknowledged; retry time; Modbus client | message callbacks, 10 Hz timer, mode switch, command selection, blocking send with one retry, stop at exit | what it believes and publishes is what the vehicle does; a silent source leads to stop; control changes hands behind a stop; no call blocks for ever |
| `ModbusAgvClient` | socket, transaction identifier, receive buffer | connect, flush, write, cut frames out of the stream, check the echo, close | never takes another frame for its reply, never misses its reply, stays in step with the frames, a command repeated gets through |
| `keyboard_teleop` node | active twist, time of the last key, `zero_published`; the buffers keys pass | 20 Hz timer, quit | keys keep their order; every motion is ended by a stop key or the deadman |
| `command_odom` node | last command heard, velocity, pose | command callback, 20 Hz timer | integrates the motion the vehicle performs |
| `imu_marker_viz` node | a queue of orientations | copies an orientation into a marker | the newest orientation comes to be shown |
| IMU driver | parser state, one field per quantity, receive thread | byte automaton, 10 Hz publishing, version, calibrations, settings | frames are what the device sent, samples no older than their stamp and mixed only by a frame arriving meanwhile, calls return, an answer is not taken for another call's |
| lidar parser and frames | automaton, partial revolution, finished scan and its ready flag | parse, assemble a revolution, hand a scan over between two threads | scans are published in order, the newest is not lost, none is repeated without end |
| lidar node, driver, serial and network interfaces | started flag, descriptors, receive threads | Start, wait for data, poll with timeout, Stop, destroy | threads end before what they use is gone; timeouts tell the truth |
| lidar filter, log module, launch files | - | pure arithmetic, text, declarations | not state machines |

The hard behaviours: the bridge is single-threaded and its write blocks for
seconds, so messages, mode requests and the watchdog wait; the echo of a
command may be lost after the command was carried out; an abandoned request may
be carried out later; Ctrl-C may strike anywhere, a kill too; the vehicle
pushes heartbeats into the stream that carries the replies, in pieces of any
size; the lidar and IMU drivers share data between two threads, the IMU's
without any lock; a serial line loses and alters bytes. PROJECT.json
lists each hazard at its line with the properties that watch it.

## 2. The modules

| Module | Models | Proofs |
|---|---|---|
| `AgvBridge` | class `AgvBridge` with the executor, the publishers, the line and the vehicle around it | `AgvBridgeProofs` |
| `ModbusClient` | class `ModbusAgvClient`, byte by byte | `ModbusClientProofs` |
| `KeyboardTeleop` | the node and the two buffers between the operator and it | `KeyboardTeleopProofs` |
| `CommandOdometry` | `command_odom`, EXTENDS `AgvBridge`, composed over `/agv/current_command` | `CommandOdometryProofs` |
| `FrameLink` | abstract: what the IMU's serial protocol promises | |
| `YbImuFrames` | the byte parser `_receive_data`, implements `FrameLink` | `YbImuFramesProofs` |
| `YbImuSerial` | the IMU library between its two threads | `YbImuDriverProofs` |
| `YbImuDriver` | `ybimu_driver` and `imu_marker_viz`, EXTENDS `YbImuSerial` | `YbImuDriverProofs` |
| `ScanMailbox` | abstract: what subscribers of `/scan` are promised | |
| `LidarDriver` | the lidar node with its receive thread, implements `ScanMailbox` | `LidarDriverProofs` |
| `MC*` | the small instances that TLC checks | |

A definition whose comment starts with "Faulty variant" is not part of a model:
it is what a plausible bug would make of the definition after it (a dropped
guard, an off-by-one), kept to show that the properties notice it.

### AgvBridge

`pc` is where the executor's only thread stands. It is `idle` between callbacks;
`OnCmd` and `OnModeMsg` are the subscriptions, `OnTimer` the entry of
`_on_timer`, `SwitchMode` and `SelectCommand` the two halves of its body.
`_send_command` is the states `connect`, `write`, `await` and `backoff`:
`Connect`, `WriteRequest`, `Acknowledged`, `ReplyFails`, `LineFails`, `Retry`.
Publishing, losses, ticks of the clock and the vehicle interleave with every one
of these steps; the callbacks do not, because the thread is busy. Where
`_send_command` returns to is `ret`; Ctrl-C sets it to `down`, and the same
states then are the single attempt of `destroy_node`.

A subscription is a KEEP_LAST queue; twists are pairs of integers compared with
integer deadbands; time is counted in ticks, and counters that only matter up to
a limit stop there (`Older`, `UpToInterval`). On the line, `wire` is the request
of the current call, `prior` one that Ctrl-C left unanswered in front of it on
the same connection, and `stray` those of connections already closed, which the
network may deliver late or never. `doubt` is a history variable: it is raised
when a write ends without an answer, when a stray request is still under way, or
when the process ends without an acknowledged stop, and it is cleared only by
writing a request that nothing is in front of. `stopFailures`, another history
variable, counts the failed attempts to send the stop that `_on_timer` puts in
front of a mode switch, until the switch. `VehicleFault` carries a command
out without an echo, refuses it, or loses it.

Abstractions: the bytes of Modbus are in `ModbusClient`; here a reply is the
echo, anything else, or nothing. `connect_settle_sec` is part of `Connect`. The
two socket timeouts are not counted: a reply may be later than the deadline
whenever it has not come yet, which covers every duration.

### ModbusClient

`incoming` is the stream, `buf` the buffer of
`_recv_exact_filtered_response`. `Recv` takes any non-empty prefix, and the
parsing loop is one action per branch of
`_try_extract_matching_modbus_frame`: `DropHeartbeat`, `NeedMore`, `SkipFrame`,
`DropByte`, `TakeReply`. A byte is a pair of its frame and its place in it; the
client's guards look at the value at that place only, the pair is for the
properties. `FlushAndWrite` lets the flush read any prefix of what was sent
(bytes may still be on their way), so it may split a frame, of which `cut`
remembers the kind. `Abandon` is Ctrl-C while the client waits: the connection stays
open, and `destroy_node` writes with the same transaction identifier. A request
written on a connection that fails is carried out at once or never; `AgvBridge`
has the ones that come late.

### KeyboardTeleop

`terminal` is what `select` sees, `textBuffer` what `sys.stdin` has read ahead:
the first `read(1)` moves everything from the one to the other, and while the
terminal is empty `_read_key` returns nothing although the text buffer holds
keys. `OnTimerWithKey` is the branch with a key (one action per kind of key
inside it), `OnTimerDeadman` and `OnTimerRepeat` the branches without. Ctrl-C
(`Interrupt`) may or may not get its last zero twist out.

### CommandOdometry

A step of the system is a step of the bridge, during which the node may hear
what the bridge publishes, or a step of the node. The pose is left out; what is
integrated is named by the command that causes it. `missed` records that the
bridge's last command was published before the node subscribed: the bridge
latches the topic, but the node's subscription is volatile, so it starts with
stop whatever the vehicle does.

### YbImuFrames and FrameLink

`DataHandle` feeds one byte to `_receive_data`; there is one action per value of
`rx_flag` (`AwaitHead1` to `ReadCheckSum`). A frame whose sum matches is handed
to `_parse_data`; if it has fewer data than `struct.unpack` wants there, the
exception ends the receive thread (`running`). The device writes whole frames
(`Report`); the line adds a byte (`StrayByte`), alters one (`WrongByte`) or loses
one (`LostByte`), and it may begin in the middle of a frame, because
`flushInput` throws away what has come before.

`FrameLink` says what this is for: the frames handed over are a subsequence of
those sent, and the reader stays in service. One sum byte cannot promise that
for every damage, so `spoiled`, a history variable, tells when the line has done
more than the sum covers: a lost byte, a wrong length, or damage less than
`RX_MAX_LEN` sound bytes after another one, when the parser may still be out of
step. `since` counts these sound bytes and `due` marks a frame that came after
enough of them.

### YbImuSerial and YbImuDriver

`YbImuSerial` is the library as a whole frame sees it. `reg` has one entry per
field (`ax`, `q0`, `_version_H`..), holding the number of the frame that assigned
it, so that mixing can be seen. The receive thread assigns one field per step
(`AssignField`), the calling thread reads (`ReadField`) and resets
(`ResetVersion`) one per step, and nothing orders the two. `get_version`, the
three calibrations and the settings are calls of that thread; the device answers
requests in order, or loses them, and may answer after the caller has given up.
`ReceiverDies` ends the receive thread between any two assignments.

`YbImuDriver` adds the node: its timer reads six vectors and publishes
(`BeginSample`, `ReadField`, `PubData`), and `imu_marker_viz` shows what comes
through its KEEP_LAST queue (`OnImu`). The search for a port is `InitTopic`: it
ends with a port or without, and the receive thread runs or not. The node itself
calls no command; the library's own main program and a maintainer do, and the
model lets them be called between samples.

The histories: `complete` and `stamp` are the last frame of each kind assigned in
full, now and when a sample began; `overlap` the kinds assigned while a call
reads; `abandoned` the requests given up.

### LidarDriver and ScanMailbox

`node` is where the main thread stands, from `Start` through
`WaitLidarCommConnect` and the polling loop of `main.cpp` to `Stop`, the
destructor and the return; `rx` is where the receive thread stands, from
`RxThreadProc` through `ReadFromIO` to `CommReadCallback`. Both interfaces are in
the model (`mode`), with what the threads share: `is_cmd_opened_`, the
descriptor, the exit flag, `flag` and `read_callback_` are the record `port`.
Every critical section is a step: `GetLaserScanData` looks at the flag
(`IsFrameReady`), resets it (`ResetFrameReady`) and copies (`CopyScan`), while the
receive thread stores (`SetLaserScanData`) and then sets the flag
(`SetFrameReady`). What was copied, `taken`, is published in a step of its own
(`ToLaserscanMessagePublish`), because the speed that decides about it is read
only then (main.cpp:182, 235): `spinning` is whether the packet parsed last
reports a speed above 0, and without it the scan taken is thrown away.

Scans are numbered. Packets, angles and speeds are abstracted to the number of
revolutions a read completes and `spinning` (`Parse`), and to whether
`AssemblePacket` makes a scan of one (`AssembleScan`), throws it away, or drops it
as the first (`Assemble`).

Undefined behaviour is a choice between what was meant and a crash:
`CloseSocket` and `DeletePort` follow `comm_udp_network_`, which nobody sets in the
serial mode; `FD_SET` may be called with descriptor -1 after `Close`;
`read_callback_` is read while it is assigned (network); and the network's
receive thread, which is never told to end nor joined, may use what the
destructor has freed, or find `flag` cleared and abort.

`ScanMailbox` is a place for one scan: `Store`, `PublishNewer`, `PublishAgain`. A
scan may be published up to three times: a copy that has begun takes the scan
stored meanwhile, whose flag is then still to be set (twice, if the flag of the
scan before was raised between the two).

## 3. What is checked

| Run | Properties | What it shows |
|---|---|---|
| `bridge_safety` | `TypeOK`, `BelievedIsReal`, `RetryGuardIsDead`, `SwitchOnlyStopped` | unless a write's outcome is unknown, the command remembered and published is the one carried out; the guard on `next_retry_time` is dead code; control changes hands only behind an acknowledged stop or when both attempts at one, made for this very switch, have failed |
| `bridge_liveness` | `WatchdogStops`, `SendReturns`, `ModeAdopted` | a silent source leads to an acknowledged stop, no call blocks for ever, a requested mode is adopted even if stop cannot be sent |
| `modbus_stream` | `TypeOK`, `StaysInStep`, `ReplyIsFound`, `SuccessIsDone`, `WriteGetsThrough` | the stream may be cut anywhere; the client waits only at the start of a frame and never with its reply in hand; success means the register holds the value; a repeated command gets through |
| `keyboard` | `TypeOK`, `KeysInOrder`, `MotionIsWatched`, `DeadmanStops`, `StopKeyStops` | no key is lost or overtaken in the two buffers; once the operator has gone, zero is published for good |
| `odometry` | `OdomTypeOK`, `NewestIsPublished`, `OdometryFollowsVehicle` | whatever a full queue drops, the newest command is the bridge's last; the velocity integrated comes to be the vehicle's motion |
| `imu_frames` | `TypeOK`, `FrameEnds`, `BackInStep`, `ImplementsFrameLink` | whatever bytes come, a frame that was begun ends; `RX_MAX_LEN` sound bytes after the last damage the parser is in step again; what it hands over is what was sent, in order, unless the damage is more than a sum can tell |
| `imu_node` | `TypeOK`, `TornOnlyByOverlap`, `NotOlderThanStamp`, `LagsByGivenUp`, `CallsReturn`, `DataIsPublished`, `DataIsShown` | a vector mixes frames only if one of its kind was being assigned meanwhile, and is never older than its stamp; an answer is one's own unless calls were given up, and then late by at most as many calls; every call returns except a `calibration_mag` whose answer is lost; new data come to be published and shown |
| `lidar_node` | `TypeOK`, `JoinedBeforeDelete`, `CrashConfined`, `ImplementsScanMailbox`, `TimeoutMeansSilence`, `NewestIsPublished`, `ShutdownEnds` | two locks and a flag reset before the copy do make a mailbox; the newest scan is published unless the speed behind it is 0; a time-out means silence; over a serial port the thread has ended before its objects are deleted; crashes are confined to the assignment of the callback and to the shutdown; Ctrl-C ends the process in both modes |

Two detailed specifications are shown to implement abstract ones, with the
abstract specification as a property of the run and a refinement mapping in the
INSTANCE: `YbImuFrames` implements `FrameLink` (`decoded` for `got`, `running` for
`open`), and `LidarDriver` implements `ScanMailbox` (`stored`, `published` and
`repeats` as they are, `process = "running"` for `open`, two repeats allowed; with
one, TLC finds a scan published three times).

What the runs tell about the code beyond their verdicts:

* `get_version` called after one that gave up may return a version of which one
  field is the late answer's and another still -1: the late answer is assigned
  field by field while the second call resets and reads
  (YbImuSerialLib.py:406-413). `TornOnlyByOverlap` says exactly when.
* After a `get_version` or a calibration has been given up, a late answer ends the
  next call, whose own answer then ends the one after it, and so on: the library
  may stay one answer behind for good (YbImuSerialLib.py:299, 411).
  `LagsByGivenUp` bounds this.
* `calibration_mag` has no time-out (YbImuSerialLib.py:335): it waits for ever if
  its answer is lost or the receive thread has died.
* A receive thread that died is noticed by nobody: the node goes on publishing
  its last sample under new stamps, which is why `DataIsPublished` is about
  frames that were assigned.
* In the serial mode `Stop` may crash, in the network mode the process may abort
  or touch freed memory while it shuts down. `ShutdownEnds` says that it ends,
  not that it ends cleanly, and `CrashConfined` where a crash may happen: over a
  serial port only from the join on, over the network only once the flag is
  cleared, and in both cases only after Ctrl-C; besides that only while the
  network start assigns `read_callback_` under a thread that runs already
  (cmd_net_interface_linux.cpp:104). A node that serves scans does not crash.
* A scan whose flag has been reset is lost when the packet parsed before its
  publication reports speed 0 (main.cpp:235): the speed belongs to a later packet
  than the scan. `NewestIsPublished` names this case.

Four runs are expected to end in a counterexample; each compares a statement of
the repository with what its code does.

| Run | Property | Counterexample |
|---|---|---|
| `bridge_lost_echo` | `WatchdogStopsVehicle` | a motion command is carried out and both of its echoes are lost: `last_sent_command` stays stop, the watchdog finds nothing to send, and the vehicle keeps moving |
| `modbus_heartbeat_tid` | `WriteGetsThrough` | with transaction identifier 0xBB00 the reply starts with the heartbeat byte and is held back; the identifier does not advance on a failure, so every later command fails, the stop included |
| `keyboard_stop_key` | `StopKeyIsRead` | a stop key that arrives together with another key stays in the text buffer until a further key is pressed |
| `odometry_exit` | `OdometryRestsWithVehicle` | the stop at exit is not published: the vehicle stands, the odometry moves on |

### Bounds

Every bound is a constant of its module and a guard names it.

* `bridge_safety`: two topics (one per mode) with one twist each (forward, left),
  three mode requests of which one is invalid, queues of depth 1, two faults
  and one kill or Ctrl-C. Two faults are what it takes for both attempts of
  `_send_command` to fail; one end and any number of restarts afterwards is
  what it takes for a second process to meet what the first left behind.
  `CommandTimeout` and `ReconnectInterval` are 1 tick: ages below, at and above
  the limit all occur. No publisher dies here: without fairness a dead
  publisher is one that publishes no more. The deadbands differ, and the proof
  covers all values.
* `bridge_liveness`: every publisher may die, one mode request, two faults, no
  process end (`SendReturns` and `WatchdogStops` are about a process that runs).
* `modbus_stream`: two acknowledged writes, two heartbeats, one fault, one
  Ctrl-C (a fact, not a bound: a second one ends `destroy_node` and the process
  before anything else is written), starting at identifier 0xFFFF so that it wraps. A heartbeat has nine
  bytes instead of 34, so that the stream is short enough to be cut in every
  way: whole heartbeats are dropped in one step whatever their length, and the
  rest of one that was split is dropped byte by byte until fewer than the seven
  bytes of a header are left of it, so longer rests come to the same states. Its filler byte is neither 0 nor
  0xBB: what the client does with the rest of a heartbeat that the flush has
  split depends on these bytes, and `ReplyIsFound` says so. Deadlock is not
  checked in the two Modbus runs, because the bound on the writes ends them.
* `modbus_heartbeat_tid`: the true length 34, the identifier starting one before
  0xBB00, no fault at all.
* `keyboard`: four presses of two motion keys, a stop key, a key without a
  meaning and q; a deadman of two ticks. Three keys are enough for a backlog in
  the text buffer while a further one is in the terminal.
* `odometry`: one source (forward and right), one fault, one kill or Ctrl-C, one
  start of the node at any time, queue of depth 1 (so that every lag drops
  messages).
* `imu_frames`: an alphabet of ten byte values with frames of six and seven bytes
  and `RX_MAX_LEN` 8, so that every state of the parser is reached with every
  kind of wrong byte. As in the real protocol `HEAD1` exceeds every length and
  `HEAD2` does not; one report holds the whole header among its data. Three
  frames and two damages: one to get out of step, one to meet the parser there,
  and frames enough to come back. A frame is written when at most one byte
  waits (`MaxLine`): the parser consumes bytes one by one, so a longer line adds no
  behaviour of it. Deadlock is not checked, because the bounds end the line.
* `imu_node`: two frames, three requests (one is given up, one is ended by its
  late answer, one by the answer late in its turn), one or two fields per
  vector: two fields
  are needed to be mixed, two vectors of one kind (accelerometer and
  magnetometer) to differ, two frames for the newer to overtake. Vectors and
  commands of the shape of another (`baro`, `euler`, the gyroscope, the
  temperature calibration) have no fields or are not called. The marker's
  queue has one place, so that every lag drops. Deadlock is not checked: the
  node may end.
* `lidar_node`: one tick of time-out, four scans (one is dropped by `main.cpp`,
  three are needed for a third publication), one revolution waiting: a second one
  would only spare the thread the next one (every turn of the receive thread
  assembles at most one, and a read may complete one at any turn); the proofs
  cover every number. Both modes. Deadlock is not checked: the process ends.

### Fairness

`AgvBridge`: weak fairness of `Executor`, the steps the node's own thread takes:
every wait in it has a timeout and the timer fires again. It does not oblige a
subscription to be served before the timer, anybody to publish, the network to
fail, or a dead process to be restarted. The vehicle takes a request that has
reached it (`CarryOut`; losing it is a fault and faults are finite in number), an
abandoned request arrives or is dropped in the end, and time passes.

`ModbusClient`: the client's loop runs, the vehicle answers, and the bridge
calls again, as its timer does while the command differs from the last one
acknowledged. `KeyboardTeleop`: the timer fires and time passes; nobody has to
press a key. `CommandOdometry`: the bridge's fairness and the node's two
callbacks; the properties speak of a node that stays up.

`YbImuDriver`: the receive thread assigns the fields of a frame it has begun, the
calling thread takes its steps, its timer fires again however often commands are
called between (strong fairness: the executor serves a timer that is due), the device answers or loses
a request it has got, the marker node serves its queue. No fairness makes a
frame come, a command be called, or the receive thread live; a wait that has a
time-out may end by `GivesUp`, and only those have it. `LidarDriver`: both
threads are scheduled; every call they wait in (`pselect`, `poll`, the sleeps) has
a time-out. No fairness makes data arrive: a read may always come back empty.

## 4. What is proved

`AgvBridgeProofs`, for every set of topics and twists, both deadbands, both
timeouts, every queue depth and every bound (assumptions: the ASSUMEs of
`AgvBridge`, which say that these are natural numbers, the deadbands and the
depth positive):

* `TypeCorrect`: `Spec => []TypeOK`.
* `BelievedIsRealHolds`, `RetryGuardIsDeadHolds`: the two invariants of
  `bridge_safety`; `SwitchOnlyStoppedHolds`: its action property.
* `SelectionIsSymmetric`: a twist turned round selects the opposite command,
  for all integers, so no boundary of the deadbands favours a direction.

The invariants are not inductive. `IInv` has four parts:

* `TimeInv`: the time slept never exceeds the time since `now` was read, and
  the second attempt starts after a whole interval. This is why
  `now + reconnect_interval_sec` is over when the second attempt has failed.
* `LineInv`: a request is on the line only in `await`, it is the one being sent,
  and no reply precedes it unless Ctrl-C left one in front.
* `SwitchInv`: during the stop that precedes a mode switch, `stopFailures` is the
  number of attempts behind it; in front of the switch either stop was
  acknowledged or there were two. It rests on `TimeInv`: were `next_retry_time`
  still to come, `_send_command` would return without any attempt.
* `DoubtInv`: without doubt nothing abandoned is under way, the vehicle carries
  out the last acknowledged command outside `await`, and inside it the reply, if
  there is one, tells the truth.

`TypeOK` and `IInv` are preserved by each of the actions: one proof step per action,
under it one per part.

`KeyboardTeleopProofs`, for every set of keys, deadman timeout and number of
presses: `TypeCorrect`, `KeysInOrderHolds` and `MotionIsWatchedHolds`.
`KeysInOrder` is inductive given the types; the lemma `HeadMoves` says that
taking the first element of one buffer to the end of another leaves their
concatenation alone. `MotionIsWatched` needs `FlagInv`, which adds that a raised
`zero_published` goes with a zero twist.

`CommandOdometryProofs`, for all constants of both nodes: `OdomTypeCorrect` and
`NewestIsPublishedHolds`. The composition implements `AgvBridge`'s `Spec` by its
construction (the lemma `SystemIsBridge`), so that the type invariant of the
bridge can be used. The invariant `NewestInv`
adds that a node that is not running has heard nothing and starts from stop;
`PublishedInSight` says that the bridge changes what it last published only in
the steps where it publishes, and `EnqueueNewest` that a full KEEP_LAST queue
keeps its depth and its newest message.

`LidarDriverProofs`, for every time-out, every number of scans and revolutions
(assumption: these are natural numbers): `TypeCorrect`,
`JoinedBeforeDeleteHolds`, `CrashConfinedHolds`, `TimeoutMeansSilenceHolds` and
`MailboxRefined`.

* `JoinInv` follows a serial port from its opening to the join: from the join on,
  the receive thread has ended.
* `CrashInv` says where the main thread stands while something the receive thread
  uses is gone: the descriptor of a serial port at the join or behind the end of
  the thread, the flag and the objects of the network only on the way out.
* `QuietInv`: while no scan is ready or being copied, the node has not waited
  longer than it is since the last scan became ready. This is why the time read
  after the flag tells the truth.
* `HandoffInv` counts the credits of the scan stored last: the ready flag, a copy
  that has begun or is about to be published, and a flag about to be set. Every
  publication spends one, only
  storing another scan gives new ones, and a scan published has at most two
  left. `MainThreadIsMailbox` and `ReceiveThreadIsMailbox` map every step to a
  step of `ScanMailbox` or to a stutter.

`ModbusClientProofs`, for every length and filler of the heartbeats, every unit,
control register and set of values, every number of writes, heartbeats and
faults, and every first identifier (assumptions: these are bytes and 16-bit
words, a heartbeat has at least five bytes, and a second Ctrl-C ends the
process): `TypeCorrect`, `ClientStaysInStep`, `ClientFindsReply` and
`SuccessIsTrue`. All of them speak of `Sent`, the bytes that the vehicle has sent
and the client has not consumed: the bytes of the buffer, then those on their
way. Every step of the system consumes from its front, adds one frame at its
end, or leaves it alone (`SentStep`).

* `FrameInv`: around every byte of `Sent` lies what is left of its frame, and
  behind that the first byte of the next one (`Framed`); a call waits only with an
  incomplete frame in front (`BufferInv`); the request of the call is the last one
  the vehicle will read (`OwnIsLast`).
* `StepInv` adds what makes the parser find the frames again: the head of no reply
  looks like a heartbeat (`HeadsDiffer`), `Sent` begins at the start of a frame or
  in a heartbeat the flush has split (`InStep`), and the reply lies in it as a whole
  (`ReplyIsThere`). The lemmas `FrameAtHead` and `RestAtHead` say what each branch of
  `_try_extract_matching_modbus_frame` does at the start of a frame and in the
  rest of a heartbeat.
* `WriteInv`: replies and requests with the current identifier come behind all
  others (`CurrentIsLast`); an echo of the value being written is only on the
  line when the register holds this value and no request on the way changes it
  (`EchoIsTrue`). This is why a reply with the same identifier, left behind by the
  write that Ctrl-C interrupted, does no harm. `AcceptedIsEcho` shows that twelve
  bytes the client accepts are the whole echo of one frame, and never pieces of two.

`SuccessIsTrue` supposes `ControlAddr # 0`; the others do not need it. The address
is a parameter of the node, 4 by default (agv_bridge.py:153), and no launch file
changes it. For address 0 the statement is false: with identifier 0x0106, unit 1, a
write of 6 that Ctrl-C interrupts and a write of 3 that the vehicle refuses, TLC
shows a flush that splits the echo of the first, and what is left of it, read
together with the refusal, passes for the echo of the second.

`YbImuFramesProofs`, for every alphabet, header and set of reports and any number of
damages (assumptions: the header is made of bytes and `HEAD1` exceeds
`RX_MAX_LEN`; reports are encoded as bytes and have 1 to `RX_MAX_LEN - 5` bytes of
data, in the library 2 to 18 with `RX_MAX_LEN` 40): `TypeCorrect`,
`FrameEndsHolds`, which is inductive given the types, and `BackInStepHolds`. For
the last one, `StepInv` says that there is a marking `m` of the last bytes of the
line with the frame and the place they come from (`Marked`), and a number `n` of
sound bytes already read, such that (`Place`) the parser is at the start of a
frame, passes over the rest of one in which no byte looks like a header, reads
the marked frame byte for byte (`InFrame`), or is out of step with fewer than
`RX_MAX_LEN` bytes to go until it gives up what it took for a frame
(`BytesLeft`). The value of the sum stays opaque in this proof: sender and parser
apply the same operator to the same bytes.

`YbImuDriverProofs`, for every number of frames, requests and axes, every queue
depth, and every set of calls and of kinds sent unasked (assumptions:
the device sends only frames of data by itself and none without a field, and a
version has a field): `TypeCorrect`, `TornVectors`, `NoStaleData` and `AnswersLag`.

* `TypeInv` adds to the types where the calling thread may stand in each call, and
  which request it is for (`PlaceInv`).
* `ReadInv` relates the fields to the frames. A field of data is never older than
  the last frame of its kind assigned in full, and is from exactly that frame while
  no other is being assigned (`RegInv`). `SampleInv` and `VersionInv` carry this
  over to what a call has read so far.
* `AnswerInv` counts answers. They arrive and stay in the order of the requests
  (`AnswersInOrder`, `AnswersHeld`), and an answer that is late by so many calls of its
  function has as many calls given up behind it (`LateInv`), one more when no call
  waits. `AssignField` spends that one, `GivesUp` provides it.

The models are the ones the runs check: no theorem has a hypothesis about the
state, and `SuccessIsTrue` is the only one that narrows the constants beyond the
ASSUMEs of its module. Every invariant of every passing run is proved, and so are
its action properties and the mailbox refinement.

Model-checked only:

* the liveness properties (`WatchdogStops`, `SendReturns`, `ModeAdopted`,
  `WriteGetsThrough`, `DeadmanStops`, `StopKeyStops`, `OdometryFollowsVehicle`,
  `CallsReturn`, `DataIsPublished`, `DataIsShown`, `NewestIsPublished` of the lidar,
  `ShutdownEnds`): the prover has no rule for fairness;
* `ImplementsFrameLink`: that a frame with one altered byte is refused needs that
  one byte changes the sum, which is induction over the fold, and an invariant
  about damaged frames in the middle of the line that `StepInv` does not have;
* the four counterexamples.

## 5. Not modelled

* The lidar's byte automaton (`LiPkg::AnalysisOne`) and the arithmetic of angles
  and speeds that cuts revolutions and decides whether `AssemblePacket` keeps
  one: floating point, abstracted to how many revolutions a read completes.
  The component is therefore "partly" modelled. What the parser loses after a
  repeated header byte (lipkg.cpp:116) and when the point buffer is cut
  (lipkg.cpp:236) are hazards without a property for this reason.
* The lidar filter (`tofbf`): floating point, and the node switches it off
  (main.cpp:140). The arithmetic of the conversion to LaserScan (its guards on
  the first scan and on the speed are in the model) and the pose integral of
  `command_odom`: floating point.
* `WriteToIo` of both lidar interfaces: nobody calls it. The port settings.
* `clear_auto_report_data` and the main program of the IMU library: the node calls
  neither. Which of several serial ports is opened: the code takes the first
  that opens, whatever is behind it, and states nothing about that.
* The log module: text. Launch files and parameter files: declarations; the
  initial mode and the timeouts they set are constants of `AgvBridge`.
* Nav2, slam_toolbox, rclpy and the vehicle's firmware: external. The executor's
  order among ready callbacks is left open. Which of two topics of one mode
  wins (agv_bridge.py:192) is in the model, but the repository says nothing
  that could be checked.
* In the models, but seen by no property, because the repository does not say
  what should happen: a vehicle left moving by a node that was killed
  (agv_bridge.py:171), a request of a closed connection that arrives late
  (agv_bridge.py:287), the odometry of a node that subscribes after the last
  command (command_odom.py:45), and the last sample of the IMU published for ever
  after its receive thread has died (YbImuSerialLib.py:208). `BelievedIsReal` counts
  the first two as a doubt and promises nothing there.

## 6. Plan

Done: `AgvBridge` (the part that moves the vehicle), `ModbusClient`,
`KeyboardTeleop`, `CommandOdometry`, `YbImuFrames`, `YbImuSerial` with
`YbImuDriver`, and `LidarDriver`, all model-checked, with proofs of all their
invariants and action properties and of the mailbox refinement.

Next, in this order:

1. Proof: that `YbImuFrames` implements `FrameLink`. The sum becomes a recursive
   function, so that its additivity can be shown by least counterexample, and
   the marking of `StepInv` is extended by damaged frames and stray bytes.
2. `LiPkgParser`: the packet automaton against a reference that finds packets
   in a byte stream.
3. `AgvTiming`: `AgvBridge` with the socket timeouts counted, for the longest
   time the vehicle can carry out a command after its source fell silent.
4. A composition of `KeyboardTeleop` with `AgvBridge`, keyboard to vehicle.
