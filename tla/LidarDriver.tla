----------------------------- MODULE LidarDriver -----------------------------
(***************************************************************************)
(* The lidar node: its main thread (ldlidar main.cpp, ldlidar_driver.cpp)  *)
(* starts an interface (serial_interface_linux.cpp or                      *)
(* cmd_net_interface_linux.cpp), polls LiPkg (lipkg.cpp) for complete      *)
(* scans and publishes them; the interface's receive thread parses packets *)
(* and puts scans into LiPkg. Scans are numbered; angles, distances and    *)
(* packets are abstracted to how many revolutions a read completes.        *)
(* Undefined behaviour is a choice between what was meant and a crash.     *)
(***************************************************************************)
EXTENDS Integers

CONSTANTS
  Timeout,     \* of GetLaserScanData, in ticks (main.cpp: 1000 ms)
  MaxScans,    \* bound: scans completed
  MaxRevs      \* bound: revolutions in frame_tmp_

ASSUME DriverAssumption ==
  Timeout \in Nat /\ MaxScans \in Nat /\ MaxRevs \in Nat

VARIABLES
  mode,        \* enable_serial_or_network_communication
  process,     \* "running", "ended" or "crashed"
  shutdown,    \* rclcpp::ok() is false
  node,        \* where the main thread is
  rx,          \* where the receive thread is
  port,        \* the interface: see Interface
  freed,       \* comm_pkg_ is deleted
  powerOn,     \* is_poweron_comm_normal_
  ready,       \* is_frame_ready_
  spinning,    \* speed_ > 0, the speed of the packet parsed last
  firstFrame,  \* first_frame_
  revs,        \* complete revolutions in frame_tmp_
  made,        \* scans AssemblePacket has completed
  stored,      \* the scan in laser_scan_data_
  silent,      \* ticks since last_pubdata_times_
  quiet,       \* history: ticks since a scan became ready
  status,      \* the last result of GetLaserScanData
  taken,       \* the scan in laser_scan_points
  firstScan,   \* first_scan of ToLaserscanMessagePublish
  published,   \* the last scan published
  repeats      \* history: how often it was published again

waitVars == <<silent, status, taken>>
scanVars == <<firstScan, published, repeats>>
dataVars == <<spinning, firstFrame, revs, made, stored>>
vars == <<mode, process, shutdown, node, rx, port, freed, powerOn, ready, quiet,
          waitVars, scanVars, dataVars>>

NodeStates == {"start", "opened", "registering", "waiting", "connected", "poll",
               "reset", "copy", "publish", "late", "stop", "close", "join",
               "socket", "flag", "delete", "deletePort", "return"}
RxStates == {"none", "loop", "select", "read", "deliver", "parse", "assemble",
             "store", "ready", "ended"}

(* is_cmd_opened_, a descriptor other than -1, rx_thread_exit_flag_, flag   *)
(* and whether read_callback_ is set.                                       *)
Interface == [opened : BOOLEAN, handle : BOOLEAN, exit : BOOLEAN,
              flag : BOOLEAN, callback : BOOLEAN]

Init ==
  /\ mode \in {"serial", "network"} /\ process = "running" /\ shutdown = FALSE
  /\ node = "start" /\ rx = "none"
  /\ port = [opened |-> FALSE, handle |-> FALSE, exit |-> FALSE,
             flag |-> TRUE, callback |-> FALSE]
  /\ freed = FALSE /\ powerOn = FALSE /\ ready = FALSE /\ firstFrame = TRUE
  /\ spinning = FALSE /\ revs = 0 /\ made = 0 /\ stored = 0
  /\ silent = 0 /\ quiet = Timeout + 1 /\ status = "DATA_WAIT" /\ taken = 0
  /\ firstScan = TRUE /\ published = 0 /\ repeats = 0

----------------------------------------------------------------------------
(* The main thread. What a group of steps leaves alone is said once, where  *)
(* the group is put together.                                               *)

GoTo(here, there) == node = here /\ node' = there

Continues == UNCHANGED process
MayCrash == process' \in {"running", "crashed"}
Exits == process' = "ended" /\ UNCHANGED <<node, rx, port>>

(* Start over a serial port: Open starts the thread and then sets           *)
(* is_cmd_opened_. A port that does not open ends the process.              *)
OpenSerial ==
  /\ mode = "serial"
  /\ \/ /\ GoTo("start", "opened") /\ rx' = "loop" /\ Continues
        /\ port' = [port EXCEPT !.handle = TRUE, !.callback = TRUE]
     \/ node = "start" /\ Exits

SetOpened ==
  /\ mode = "serial" /\ GoTo("opened", "waiting")
  /\ port' = [port EXCEPT !.opened = TRUE]
  /\ Continues /\ UNCHANGED rx

(* Start over the network: the constructor starts the thread, or returns    *)
(* without one when a call on the socket fails; add_multicast is not        *)
(* initialised, and a group that cannot be joined ends the process.         *)
OpenSocket ==
  /\ mode = "network"
  /\ \/ /\ GoTo("start", "opened") /\ rx' \in {"none", "loop"} /\ Continues
        /\ port' = [port EXCEPT !.handle = TRUE, !.opened = rx' = "loop"]
     \/ node = "start" /\ Exits

(* The thread runs already while read_callback_ is assigned.                *)
BeginSetReadCallback ==
  /\ mode = "network" /\ GoTo("opened", "registering")
  /\ Continues /\ UNCHANGED <<rx, port>>

SetReadCallback ==
  /\ GoTo("registering", "waiting")
  /\ port' = [port EXCEPT !.callback = TRUE]
  /\ Continues /\ UNCHANGED rx

(* WaitLidarCommConnect polls GetLidarPowerOnCommStatus; without a packet   *)
(* within 500 ms the process exits.                                         *)
SeesPowerOn ==
  /\ powerOn /\ GoTo("waiting", "connected")
  /\ Continues /\ UNCHANGED <<rx, port>>

NotConnected == node = "waiting" /\ Exits

Starting ==
  /\ OpenSerial \/ SetOpened \/ OpenSocket \/ BeginSetReadCallback
       \/ SetReadCallback \/ SeesPowerOn \/ NotConnected
  /\ UNCHANGED <<freed, powerOn, ready, waitVars, scanVars>>

Connected ==
  /\ GoTo("connected", "poll")
  /\ powerOn' = FALSE /\ silent' = 0
  /\ UNCHANGED <<ready, status, taken, scanVars>>

(* GetLaserScanData: IsFrameReady, ResetFrameReady and the copy are three   *)
(* critical sections.                                                       *)
IsFrameReady ==
  /\ ~shutdown
  /\ IF ready THEN GoTo("poll", "reset") ELSE GoTo("poll", "late")
  /\ UNCHANGED <<powerOn, ready, waitVars, scanVars>>

(* Faulty variant: the flag stays up.                                       *)
ResetNothing ==
  GoTo("reset", "copy") /\ UNCHANGED <<powerOn, ready, waitVars, scanVars>>

ResetFrameReady ==
  /\ GoTo("reset", "copy")
  /\ ready' = FALSE
  /\ UNCHANGED <<powerOn, waitVars, scanVars>>

(* Faulty variant: a scan does not renew the time of the last data.         *)
CopyScanUntimed ==
  /\ GoTo("copy", "publish")
  /\ taken' = stored /\ status' = "NORMAL"
  /\ UNCHANGED <<powerOn, ready, silent, scanVars>>

CopyScan ==
  /\ GoTo("copy", "publish")
  /\ taken' = stored /\ silent' = 0 /\ status' = "NORMAL"
  /\ UNCHANGED <<powerOn, ready, scanVars>>

(* Faulty variant: the flag is reset after the copy.                        *)
TakeScanThenReset ==
  \/ /\ GoTo("reset", "copy")
     /\ taken' = stored /\ silent' = 0 /\ status' = "NORMAL"
     /\ UNCHANGED <<powerOn, ready, scanVars>>
  \/ /\ GoTo("copy", "publish")
     /\ ready' = FALSE
     /\ UNCHANGED <<powerOn, waitVars, scanVars>>

TakeScan == ResetFrameReady \/ CopyScan

(* The first scan only sets the time from which the next one is measured.   *)
(* The speed is read behind the copy, of the packet parsed last: when it is *)
(* 0, the scan that was taken is thrown away.                               *)
ToLaserscanMessagePublish ==
  /\ GoTo("publish", "poll")
  /\ firstScan' = FALSE
  /\ IF firstScan \/ ~spinning
       THEN UNCHANGED <<published, repeats>>
       ELSE /\ published' = taken
            /\ repeats' = IF taken = published THEN repeats + 1 ELSE 0
  /\ UNCHANGED <<powerOn, ready, waitVars>>

NoScan ==
  /\ GoTo("late", "poll")
  /\ status' = IF silent > Timeout THEN "DATA_TIME_OUT" ELSE "DATA_WAIT"
  /\ UNCHANGED <<powerOn, ready, silent, taken, scanVars>>

LeaveLoop ==
  /\ shutdown /\ GoTo("poll", "stop")
  /\ UNCHANGED <<powerOn, ready, waitVars, scanVars>>

Polling ==
  /\ Connected \/ IsFrameReady \/ TakeScan \/ ToLaserscanMessagePublish
       \/ NoScan \/ LeaveLoop
  /\ Continues /\ UNCHANGED <<rx, port, freed>>

(* Faulty variant: the thread is not told to end.                           *)
BeginCloseSilently ==
  /\ GoTo("stop", IF mode = "serial" THEN "close" ELSE "socket")
  /\ Continues /\ UNCHANGED <<port, freed>>

(* Stop closes the serial interface, which has no thread when the network   *)
(* is used, and then the socket.                                            *)
BeginClose ==
  /\ GoTo("stop", IF mode = "serial" THEN "close" ELSE "socket")
  /\ port' = IF mode = "serial" THEN [port EXCEPT !.exit = TRUE] ELSE port
  /\ Continues /\ UNCHANGED freed

CloseHandle ==
  /\ GoTo("close", "join")
  /\ port' = [port EXCEPT !.handle = FALSE]
  /\ Continues /\ UNCHANGED freed

(* Faulty variant: the thread is detached.                                  *)
JoinDetached ==
  /\ GoTo("join", "socket")
  /\ port' = [port EXCEPT !.opened = FALSE]
  /\ Continues /\ UNCHANGED freed

Join ==
  /\ rx = "ended" /\ GoTo("join", "socket")
  /\ port' = [port EXCEPT !.opened = FALSE]
  /\ Continues /\ UNCHANGED freed

(* CloseSocket: over a serial port, through a pointer nobody has set.       *)
CloseSocket ==
  \/ /\ mode = "serial" /\ GoTo("socket", "delete")
     /\ MayCrash /\ UNCHANGED <<port, freed>>
  \/ /\ mode = "network" /\ GoTo("socket", "flag")
     /\ port' = [port EXCEPT !.handle = FALSE]
     /\ Continues /\ UNCHANGED freed

ClearFlag ==
  /\ GoTo("flag", "delete")
  /\ port' = [port EXCEPT !.flag = FALSE]
  /\ Continues /\ UNCHANGED freed

(* ~LDLidarDriver: LiPkg first, then the interfaces.                        *)
DeletePkg ==
  /\ GoTo("delete", "deletePort") /\ freed' = TRUE
  /\ Continues /\ UNCHANGED port

DeletePort ==
  /\ GoTo("deletePort", "return")
  /\ IF mode = "serial" THEN MayCrash ELSE Continues
  /\ UNCHANGED <<port, freed>>

Return == node = "return" /\ process' = "ended" /\ UNCHANGED <<node, port, freed>>

Stopping ==
  /\ BeginClose \/ CloseHandle \/ Join \/ CloseSocket \/ ClearFlag
       \/ DeletePkg \/ DeletePort \/ Return
  /\ UNCHANGED <<rx, powerOn, ready, waitVars, scanVars>>

MainThread ==
  /\ process = "running"
  /\ Starting \/ Polling \/ Stopping
  /\ UNCHANGED <<mode, shutdown, quiet, dataVars>>

----------------------------------------------------------------------------
(* The receive thread.                                                      *)

RxGoTo(here, there) == rx = here /\ rx' = there

(* RxThreadProc and the beginning of ReadFromIO. Over the network the       *)
(* thread is never told to end, and a cleared flag aborts the process.      *)
RxLoop ==
  \/ mode = "serial" /\ port.exit /\ RxGoTo("loop", "ended") /\ Continues
  \/ mode = "serial" /\ ~port.exit /\ port.opened /\ RxGoTo("loop", "select") /\ Continues
  \/ mode = "network" /\ port.flag /\ RxGoTo("loop", "select") /\ Continues
  \/ mode = "network" /\ ~port.flag /\ rx = "loop" /\ process' = "crashed" /\ UNCHANGED rx

(* pselect or poll: data, or a time-out, an error, another sender. FD_SET   *)
(* of descriptor -1 is undefined; a fortified build aborts.                 *)
RxSelect ==
  \/ port.handle /\ rx = "select" /\ rx' \in {"read", "loop"} /\ Continues
  \/ ~port.handle /\ RxGoTo("select", "loop")
       /\ IF mode = "serial" THEN MayCrash ELSE Continues

RxRead ==
  /\ rx = "read" /\ rx' \in (IF port.handle THEN {"deliver", "loop"} ELSE {"loop"})
  /\ Continues

(* The end of ReadFromIO and the callback. The thread may see read_callback_*)
(* unset, set or, while it is assigned, half set.                           *)
RxDeliver ==
  \/ ~port.flag /\ rx = "deliver" /\ process' = "crashed" /\ UNCHANGED rx
  \/ port.flag /\ (port.callback \/ node = "registering")
       /\ RxGoTo("deliver", "parse") /\ Continues
  \/ port.flag /\ ~port.callback
       /\ RxGoTo("deliver", "loop")
       /\ IF node = "registering" THEN MayCrash ELSE Continues

Receiving ==
  /\ RxLoop \/ RxSelect \/ RxRead \/ RxDeliver
  /\ UNCHANGED <<powerOn, ready, quiet, dataVars>>

(* Parse: nothing, packets, or packets that complete revolutions. A packet  *)
(* of any speed is good, of speed 0 when its points share an angle.         *)
Parse ==
  /\ RxGoTo("parse", "assemble")
  /\ \E good \in BOOLEAN, n \in 0..(MaxRevs - revs) :
       /\ n > 0 => good
       /\ spinning' \in (IF good THEN BOOLEAN ELSE {spinning})
       /\ powerOn' = (powerOn \/ good)
       /\ revs' = revs + n
  /\ UNCHANGED <<ready, quiet, firstFrame, made, stored>>

(* Faulty variant: takes a revolution that is not there.                    *)
AssembleUnchecked ==
  /\ RxGoTo("assemble", "loop")
  /\ revs' = revs - 1
  /\ UNCHANGED <<powerOn, ready, quiet, spinning, firstFrame, made, stored>>

(* AssemblePacket without a scan: no revolution is complete, one is thrown  *)
(* away because it has more points than its speed allows, or it is the first*)
(* one.                                                                     *)
Assemble ==
  /\ RxGoTo("assemble", "loop")
  /\ \/ revs = 0 /\ UNCHANGED <<revs, firstFrame>>
     \/ revs > 0 /\ revs' = revs - 1 /\ UNCHANGED firstFrame
     \/ revs > 0 /\ revs' = revs - 1 /\ firstFrame /\ firstFrame' = FALSE
  /\ UNCHANGED <<powerOn, ready, quiet, spinning, made, stored>>

AssembleScan ==
  /\ RxGoTo("assemble", "store")
  /\ revs > 0 /\ ~firstFrame /\ made < MaxScans
  /\ revs' = revs - 1 /\ made' = made + 1
  /\ UNCHANGED <<powerOn, ready, quiet, spinning, firstFrame, stored>>

SetLaserScanData ==
  /\ RxGoTo("store", "ready")
  /\ stored' = made
  /\ UNCHANGED <<powerOn, ready, quiet, spinning, firstFrame, revs, made>>

SetFrameReady ==
  /\ RxGoTo("ready", "loop")
  /\ ready' = TRUE /\ quiet' = 0
  /\ UNCHANGED <<powerOn, dataVars>>

CommReadCallback ==
  /\ Parse \/ Assemble \/ AssembleScan \/ SetLaserScanData \/ SetFrameReady
  /\ Continues

(* Once LiPkg and the interface are deleted their memory may still hold     *)
(* what it held, or not.                                                    *)
UseFreed ==
  /\ freed /\ rx \notin {"none", "ended"}
  /\ process' = "crashed"
  /\ UNCHANGED <<rx, powerOn, ready, quiet, dataVars>>

ReceiveThread ==
  /\ process = "running"
  /\ Receiving \/ CommReadCallback \/ UseFreed
  /\ UNCHANGED <<mode, shutdown, node, port, freed, waitVars, scanVars>>

----------------------------------------------------------------------------
(* Ctrl-C, and time.                                                        *)
Interrupt ==
  /\ process = "running" /\ ~shutdown /\ shutdown' = TRUE
  /\ UNCHANGED <<mode, process, node, rx, port, freed, powerOn, ready, quiet,
                 waitVars, scanVars, dataVars>>

Older(age) == IF age > Timeout THEN age ELSE age + 1

Tick ==
  /\ process = "running"
  /\ silent' = Older(silent) /\ quiet' = Older(quiet)
  /\ UNCHANGED <<mode, process, shutdown, node, rx, port, freed, powerOn, ready,
                 status, taken, scanVars, dataVars>>

Next == MainThread \/ ReceiveThread \/ Interrupt \/ Tick

Spec == Init /\ [][Next]_vars

(* Both threads are scheduled; the calls they wait in have time-outs.       *)
FairSpec == Spec /\ WF_vars(MainThread) /\ WF_vars(ReceiveThread)

----------------------------------------------------------------------------
(* Every variable keeps its type, revs its bound.                           *)
TypeOK ==
  /\ mode \in {"serial", "network"} /\ process \in {"running", "ended", "crashed"}
  /\ node \in NodeStates /\ rx \in RxStates /\ port \in Interface
  /\ shutdown \in BOOLEAN /\ freed \in BOOLEAN /\ powerOn \in BOOLEAN
  /\ ready \in BOOLEAN /\ firstFrame \in BOOLEAN /\ firstScan \in BOOLEAN
  /\ spinning \in BOOLEAN
  /\ revs \in 0..MaxRevs /\ made \in 0..MaxScans
  /\ stored \in 0..MaxScans /\ taken \in 0..MaxScans
  /\ published \in 0..MaxScans /\ repeats \in Nat
  /\ silent \in 0..(Timeout + 1) /\ quiet \in 0..(Timeout + 1)
  /\ status \in {"NORMAL", "DATA_WAIT", "DATA_TIME_OUT"}

(* lipkg.cpp 282-298: although the flag and the scan have a lock each and   *)
(* the flag is reset before the copy, what is published is a mailbox: never *)
(* an older scan after a newer one, and no scan more than three times.      *)
Mailbox == INSTANCE ScanMailbox WITH MaxRepeats <- 2, open <- process = "running"
ImplementsScanMailbox == Mailbox!MailboxSpec

(* ldlidar_driver.cpp 36-48 and 244: over a serial port the thread that     *)
(* calls into LiPkg has ended before LiPkg is deleted.                      *)
JoinedBeforeDelete == mode = "serial" /\ freed => rx = "ended"

(* ldlidar_driver.cpp 287: a time-out is reported only when no scan has     *)
(* become ready for that long, or one did after the look at the flag.       *)
TimeoutMeansSilence ==
  [][node = "late" /\ node' # "late" /\ status' = "DATA_TIME_OUT"
       => quiet > Timeout \/ ready]_vars

(* lipkg.cpp 284: the flag is reset before the copy, so a scan that was     *)
(* ready is published, or a newer one, unless the node is told to stop, or  *)
(* the scan is taken but the packet parsed last has speed 0 (main.cpp 235). *)
NewestIsPublished ==
  \A n \in 1..MaxScans :
    stored = n /\ ready /\ ~firstScan
      ~> \/ published >= n
         \/ shutdown \/ process # "running"
         \/ node = "publish" /\ taken >= n /\ ~spinning

(* ldlidar_driver.cpp 224-253: the node crashes only where the callback is  *)
(* being assigned over the network, or, after Ctrl-C, from the join on:     *)
(* never while it opens a serial port, waits for a lidar or serves scans.   *)
CrashConfined ==
  process = "crashed" =>
    \/ mode = "network" /\ node = "registering"
    \/ mode = "network" /\ shutdown /\ node \in {"delete", "deletePort", "return"}
    \/ mode = "serial" /\ shutdown /\ node \in {"join", "delete", "return"}

(* main.cpp 175-208: after Ctrl-C the process comes to an end, whatever the *)
(* receive thread is doing when its descriptor is closed.                   *)
ShutdownEnds == shutdown ~> process # "running"
==============================================================================
