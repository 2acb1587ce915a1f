-------------------------- MODULE LidarDriverProofs --------------------------
(***************************************************************************)
(* Safety of the lidar node for every time-out and every number of scans   *)
(* and revolutions. What is published is a mailbox because a scan can be   *)
(* published once for each of its at most three credits: the ready flag, a *)
(* copy that has begun or is in hand, and the flag about to be set. What   *)
(* may crash is confined to places that the main thread passes.            *)
(***************************************************************************)
EXTENDS LidarDriver, TLAPS

LEMMA InitTypeOK == Init => TypeOK
<1> SUFFICES ASSUME Init PROVE TypeOK
  OBVIOUS
<1>1. port \in Interface
  BY DEF Init, Interface
<1>2. quiet \in 0..(Timeout + 1) /\ silent \in 0..(Timeout + 1)
  BY DriverAssumption DEF Init
<1>3. node \in NodeStates /\ rx \in RxStates
  BY DEF Init, NodeStates, RxStates
<1>4. /\ revs \in 0..MaxRevs /\ made \in 0..MaxScans /\ stored \in 0..MaxScans
      /\ taken \in 0..MaxScans /\ published \in 0..MaxScans /\ repeats \in Nat
  BY DriverAssumption DEF Init
<1>5. /\ shutdown \in BOOLEAN /\ freed \in BOOLEAN /\ powerOn \in BOOLEAN
      /\ ready \in BOOLEAN /\ firstFrame \in BOOLEAN /\ firstScan \in BOOLEAN
      /\ spinning \in BOOLEAN
  BY Zenon DEF Init
<1>6. /\ mode \in {"serial", "network"} /\ process = "running" /\ status = "DATA_WAIT"
  BY DEF Init
<1> QED
  BY <1>1, <1>2, <1>3, <1>4, <1>5, <1>6 DEF TypeOK

LEMMA StartingTypeOK ==
  ASSUME TypeOK, MainThread, Starting
  PROVE  TypeOK'
<1>1. port' \in Interface
  BY DEF TypeOK, Starting, OpenSerial, SetOpened, OpenSocket, BeginSetReadCallback,
         SetReadCallback, SeesPowerOn, NotConnected, Exits, Interface
<1>2. node' \in NodeStates /\ rx' \in RxStates /\ process' \in {"running", "ended"}
  BY DEF TypeOK, MainThread, Starting, OpenSerial, SetOpened, OpenSocket,
         BeginSetReadCallback, SetReadCallback, SeesPowerOn, NotConnected, Exits,
         Continues, GoTo, NodeStates, RxStates
<1> QED
  BY <1>1, <1>2
  DEF TypeOK, MainThread, Starting, waitVars, scanVars, dataVars

LEMMA PollingTypeOK ==
  ASSUME TypeOK, MainThread, Polling
  PROVE  TypeOK'
<1>1. node' \in NodeStates
  BY DEF Polling, Connected, IsFrameReady, TakeScan, ResetFrameReady, CopyScan,
         ToLaserscanMessagePublish, NoScan, LeaveLoop, GoTo, NodeStates
<1>2. powerOn' \in BOOLEAN /\ ready' \in BOOLEAN
  BY DEF TypeOK, Polling, Connected, IsFrameReady, TakeScan, ResetFrameReady, CopyScan,
         ToLaserscanMessagePublish, NoScan, LeaveLoop
<1>3. /\ silent' \in 0..(Timeout + 1)
      /\ status' \in {"NORMAL", "DATA_WAIT", "DATA_TIME_OUT"} /\ taken' \in 0..MaxScans
  BY DriverAssumption
  DEF TypeOK, Polling, Connected, IsFrameReady, TakeScan, ResetFrameReady, CopyScan,
      ToLaserscanMessagePublish, NoScan, LeaveLoop, waitVars
<1>4. published' \in 0..MaxScans /\ repeats' \in Nat /\ firstScan' \in BOOLEAN
  <2>1. CASE ToLaserscanMessagePublish
    <3>1. firstScan' \in BOOLEAN
      BY <2>1, Zenon DEF ToLaserscanMessagePublish
    <3>2. taken \in 0..MaxScans /\ published \in 0..MaxScans /\ repeats \in Nat
      BY DEF TypeOK
    <3>3. \/ published' = published /\ repeats' = repeats
          \/ published' = taken /\ repeats' \in {repeats + 1, 0}
      BY <2>1 DEF ToLaserscanMessagePublish
    <3> QED
      BY <3>1, <3>2, <3>3
  <2>2. CASE ~ToLaserscanMessagePublish
    BY <2>2
    DEF TypeOK, Polling, Connected, IsFrameReady, TakeScan, ResetFrameReady, CopyScan,
        NoScan, LeaveLoop, scanVars
  <2> QED
    BY <2>1, <2>2
<1> QED
  BY <1>1, <1>2, <1>3, <1>4
  DEF TypeOK, MainThread, Polling, Continues, dataVars

LEMMA StoppingTypeOK ==
  ASSUME TypeOK, MainThread, Stopping
  PROVE  TypeOK'
<1>1. port' \in Interface /\ freed' \in BOOLEAN
  BY DEF TypeOK, Stopping, BeginClose, CloseHandle, Join, CloseSocket, ClearFlag,
         DeletePkg, DeletePort, Return, Interface
<1>2. node' \in NodeStates
  BY DEF TypeOK, Stopping, BeginClose, CloseHandle, Join, CloseSocket, ClearFlag,
         DeletePkg, DeletePort, Return, GoTo, NodeStates
<1>3. process' \in {"running", "ended", "crashed"}
  BY DEF TypeOK, Stopping, BeginClose, CloseHandle, Join, CloseSocket, ClearFlag,
         DeletePkg, DeletePort, Return, Continues, MayCrash
<1> QED
  BY <1>1, <1>2, <1>3
  DEF TypeOK, MainThread, Stopping, waitVars, scanVars, dataVars

LEMMA MainThreadTypeOK ==
  ASSUME TypeOK, MainThread
  PROVE  TypeOK'
BY StartingTypeOK, PollingTypeOK, StoppingTypeOK DEF MainThread

LEMMA CallbackTypeOK ==
  ASSUME TypeOK, ReceiveThread, CommReadCallback
  PROVE  TypeOK'
<1>1. rx' \in RxStates
  BY DEF CommReadCallback, Parse, Assemble, AssembleScan, SetLaserScanData,
         SetFrameReady, RxGoTo, RxStates
<1>2. /\ revs \in 0..MaxRevs /\ made \in 0..MaxScans /\ stored \in 0..MaxScans
      /\ quiet \in 0..(Timeout + 1)
      /\ ready \in BOOLEAN /\ firstFrame \in BOOLEAN /\ powerOn \in BOOLEAN
      /\ spinning \in BOOLEAN
  BY DEF TypeOK
<1>3. /\ revs' \in 0..MaxRevs /\ made' \in 0..MaxScans /\ stored' \in 0..MaxScans
      /\ quiet' \in 0..(Timeout + 1)
      /\ ready' \in BOOLEAN /\ firstFrame' \in BOOLEAN /\ powerOn' \in BOOLEAN
      /\ spinning' \in BOOLEAN
  <2>1. CASE Parse
    <3>1. UNCHANGED <<ready, quiet, firstFrame, made, stored>>
      BY <2>1 DEF Parse
    <3>2. revs' \in 0..MaxRevs
      BY <1>2, <2>1, DriverAssumption DEF Parse
    <3>3. powerOn' \in BOOLEAN
      BY <2>1, Zenon DEF Parse
    <3>4. spinning' \in BOOLEAN
      BY <1>2, <2>1, Zenon DEF Parse
    <3> QED
      BY <1>2, <3>1, <3>2, <3>3, <3>4
  <2>2. CASE Assemble
    <3>1. revs' \in 0..MaxRevs
      <4>1. CASE revs' = revs
        BY <1>2, <4>1
      <4>2. CASE revs > 0 /\ revs' = revs - 1
        BY <1>2, <4>2, DriverAssumption
      <4> QED
        BY <2>2, <4>1, <4>2, Zenon DEF Assemble
    <3>2. firstFrame' \in BOOLEAN
      BY <1>2, <2>2, Zenon DEF Assemble
    <3> QED
      BY <1>2, <2>2, <3>1, <3>2 DEF Assemble
  <2>3. CASE AssembleScan
    <3>1. revs' \in 0..MaxRevs /\ made' \in 0..MaxScans
      BY <1>2, <2>3, DriverAssumption DEF AssembleScan
    <3> QED
      BY <1>2, <2>3, <3>1 DEF AssembleScan
  <2>4. CASE SetLaserScanData
    BY <1>2, <2>4 DEF SetLaserScanData
  <2>5. CASE SetFrameReady
    <3>1. quiet' \in 0..(Timeout + 1)
      BY <2>5, DriverAssumption DEF SetFrameReady
    <3>2. ready' \in BOOLEAN
      BY <2>5, Zenon DEF SetFrameReady
    <3> QED
      BY <1>2, <2>5, <3>1, <3>2 DEF SetFrameReady, dataVars
  <2> QED
    BY <2>1, <2>2, <2>3, <2>4, <2>5 DEF CommReadCallback
<1> QED
  BY <1>1, <1>3
  DEF TypeOK, ReceiveThread, CommReadCallback, Continues, waitVars, scanVars

LEMMA ReceiveThreadTypeOK ==
  ASSUME TypeOK, ReceiveThread
  PROVE  TypeOK'
<1>1. CASE Receiving
  BY <1>1
  DEF TypeOK, ReceiveThread, Receiving, RxLoop, RxSelect, RxRead, RxDeliver,
      Continues, MayCrash, RxGoTo, RxStates, waitVars, scanVars, dataVars
<1>2. CASE UseFreed
  BY <1>2 DEF TypeOK, ReceiveThread, UseFreed, waitVars, scanVars, dataVars
<1> QED
  BY <1>1, <1>2, CallbackTypeOK DEF ReceiveThread

LEMMA NextTypeOK ==
  ASSUME TypeOK, [Next]_vars
  PROVE  TypeOK'
<1>1. CASE Interrupt
  BY <1>1 DEF TypeOK, Interrupt, waitVars, scanVars, dataVars
<1>2. CASE Tick
  BY <1>2, DriverAssumption DEF TypeOK, Tick, Older, scanVars, dataVars
<1>3. CASE UNCHANGED vars
  BY <1>3 DEF TypeOK, vars, waitVars, scanVars, dataVars
<1> QED
  BY <1>1, <1>2, <1>3, MainThreadTypeOK, ReceiveThreadTypeOK DEF Next

(* Every variable of the lidar node keeps its type.                         *)
THEOREM TypeCorrect == Spec => []TypeOK
<1> QED
  BY InitTypeOK, NextTypeOK, PTL DEF Spec

-----------------------------------------------------------------------------
(* Over a serial port the main thread passes the join only behind the end   *)
(* of the receive thread.                                                   *)
JoinInv ==
  /\ freed => node \in {"deletePort", "return"}
  /\ node = "flag" => mode = "network"
  /\ mode = "serial" /\ node \in {"socket", "delete", "deletePort", "return"}
       => rx = "ended"

LEMMA NextJoinInv ==
  ASSUME TypeOK, JoinInv, [Next]_vars
  PROVE  JoinInv'
<1>1. CASE MainThread
  <2>1. CASE Starting
    BY <1>1, <2>1
    DEF JoinInv, MainThread, Starting, OpenSerial, SetOpened, OpenSocket,
        BeginSetReadCallback, SetReadCallback, SeesPowerOn, NotConnected, Exits, GoTo
  <2>2. CASE Polling
    BY <1>1, <2>2
    DEF JoinInv, MainThread, Polling, Connected, IsFrameReady, TakeScan,
        ResetFrameReady, CopyScan, ToLaserscanMessagePublish, NoScan, LeaveLoop, GoTo
  <2>3. CASE Stopping
    <3>1. UNCHANGED <<mode, rx>>
      BY <1>1, <2>3 DEF MainThread, Stopping
    <3>2. CASE DeletePkg
      BY <3>1, <3>2 DEF JoinInv, DeletePkg, GoTo
    <3>3. CASE ~DeletePkg
      <4>1. UNCHANGED freed
        BY <2>3, <3>3
        DEF Stopping, BeginClose, CloseHandle, Join, CloseSocket, ClearFlag,
            DeletePort, Return
      <4>2. /\ node' = "flag" => mode = "network"
            /\ freed => node' \in {"deletePort", "return"}
            /\ mode = "serial" /\ node' \in {"socket", "delete", "deletePort", "return"}
                 => rx = "ended"
        <5>1. CASE BeginClose \/ CloseHandle \/ ClearFlag
          BY <5>1 DEF JoinInv, BeginClose, CloseHandle, ClearFlag, GoTo
        <5>2. CASE Join
          BY <5>2 DEF JoinInv, Join, GoTo
        <5>3. CASE CloseSocket \/ DeletePort \/ Return
          BY <5>3 DEF JoinInv, CloseSocket, DeletePort, Return, GoTo
        <5> QED
          BY <2>3, <3>3, <5>1, <5>2, <5>3 DEF Stopping
      <4> QED
        BY <3>1, <4>1, <4>2 DEF JoinInv
    <3> QED
      BY <3>2, <3>3
  <2> QED
    BY <1>1, <2>1, <2>2, <2>3 DEF MainThread
<1>2. CASE ReceiveThread
  BY <1>2
  DEF JoinInv, ReceiveThread, Receiving, RxLoop, RxSelect, RxRead, RxDeliver,
      CommReadCallback, Parse, Assemble, AssembleScan, SetLaserScanData,
      SetFrameReady, UseFreed, RxGoTo
<1>3. CASE Interrupt \/ Tick \/ UNCHANGED vars
  BY <1>3 DEF JoinInv, Interrupt, Tick, vars
<1> QED
  BY <1>1, <1>2, <1>3 DEF Next

(* Over a serial port LiPkg is deleted only after the thread that calls it  *)
(* has ended.                                                               *)
THEOREM JoinedBeforeDeleteHolds == Spec => []JoinedBeforeDelete
<1>1. Init => JoinInv
  BY DEF Init, JoinInv
<1>2. JoinInv => JoinedBeforeDelete
  BY DEF JoinInv, JoinedBeforeDelete
<1> QED
  BY <1>1, <1>2, TypeCorrect, NextJoinInv, PTL DEF Spec

-----------------------------------------------------------------------------
(* What the receive thread could trip over: a half-set callback, a cleared  *)
(* flag, a closed descriptor and deleted objects are confined to places of  *)
(* the main thread, and the last three to the way out of the process.       *)
Leaving == {"stop", "close", "join", "socket", "flag", "delete", "deletePort", "return"}

CrashInv ==
  /\ node \in Leaving => shutdown
  /\ node = "registering" => mode = "network"
  /\ ~port.flag => mode = "network" /\ node \in {"delete", "deletePort", "return"}
  /\ mode = "serial" /\ ~port.handle => rx \in {"none", "ended"} \/ node = "join"
  /\ CrashConfined

LEMMA NextCrashInv ==
  ASSUME TypeOK, JoinInv, CrashInv, [Next]_vars
  PROVE  CrashInv'
<1> USE DEF Leaving, CrashInv, CrashConfined
<1>1. CASE MainThread
  <2>1. CASE Starting
    BY <1>1, <2>1
    DEF TypeOK, Interface, MainThread, Starting, OpenSerial, SetOpened, OpenSocket,
        BeginSetReadCallback, SetReadCallback, SeesPowerOn, NotConnected, Exits,
        Continues, GoTo
  <2>2. CASE Polling
    BY <1>1, <2>2
    DEF MainThread, Polling, Connected, IsFrameReady, TakeScan, ResetFrameReady,
        CopyScan, ToLaserscanMessagePublish, NoScan, LeaveLoop, Continues, GoTo
  <2>3. CASE Stopping
    <3>1. /\ process = "running" /\ UNCHANGED <<mode, shutdown, rx>>
          /\ shutdown /\ port \in Interface
      BY <1>1, <2>3
      DEF TypeOK, MainThread, Stopping, BeginClose, CloseHandle, Join, CloseSocket,
          ClearFlag, DeletePkg, DeletePort, Return, GoTo
    <3>2. CASE BeginClose \/ CloseHandle \/ Join
      BY <3>1, <3>2 DEF Interface, BeginClose, CloseHandle, Join, Continues, GoTo
    <3>3. CASE CloseSocket
      BY <3>1, <3>3 DEF JoinInv, Interface, CloseSocket, Continues, MayCrash, GoTo
    <3>4. CASE ClearFlag
      BY <3>1, <3>4 DEF JoinInv, Interface, ClearFlag, Continues, GoTo
    <3>5. CASE DeletePkg \/ DeletePort \/ Return
      BY <3>1, <3>5
      DEF JoinInv, DeletePkg, DeletePort, Return, Continues, MayCrash, GoTo
    <3> QED
      BY <2>3, <3>2, <3>3, <3>4, <3>5 DEF Stopping
  <2> QED
    BY <1>1, <2>1, <2>2, <2>3 DEF MainThread
<1>2. CASE ReceiveThread
  <2>1. UNCHANGED <<mode, shutdown, node, port>> /\ process = "running"
    BY <1>2 DEF ReceiveThread
  <2>2. CASE Receiving
    BY <2>1, <2>2
    DEF TypeOK, Receiving, RxLoop, RxSelect, RxRead, RxDeliver, Continues, MayCrash, RxGoTo
  <2>3. CASE CommReadCallback
    BY <2>1, <2>3
    DEF CommReadCallback, Parse, Assemble, AssembleScan, SetLaserScanData,
        SetFrameReady, Continues, RxGoTo
  <2>4. CASE UseFreed
    BY <2>1, <2>4 DEF TypeOK, JoinInv, UseFreed
  <2> QED
    BY <1>2, <2>2, <2>3, <2>4 DEF ReceiveThread
<1>3. CASE Interrupt \/ Tick \/ UNCHANGED vars
  BY <1>3 DEF Interrupt, Tick, vars
<1> QED
  BY <1>1, <1>2, <1>3 DEF Next

(* The undefined behaviour of the lidar node is confined to the assignment  *)
(* of the callback over the network and to the way out behind Ctrl-C.       *)
THEOREM CrashConfinedHolds == Spec => []CrashConfined
<1>1. Init => JoinInv /\ CrashInv
  BY DEF Init, JoinInv, CrashInv, CrashConfined, Leaving
<1>2. CrashInv => CrashConfined
  BY DEF CrashInv
<1> QED
  BY <1>1, <1>2, TypeCorrect, NextJoinInv, NextCrashInv, PTL DEF Spec

-----------------------------------------------------------------------------
(* While the flag is down no scan has become ready since the last one was   *)
(* taken, except between the reset and the copy.                            *)
QuietInv == ~ready /\ node # "copy" => silent <= quiet

LEMMA NextQuietInv ==
  ASSUME TypeOK, QuietInv, [Next]_vars
  PROVE  QuietInv'
<1>1. CASE MainThread
  <2>1. CASE Starting
    BY <1>1, <2>1
    DEF QuietInv, MainThread, Starting, OpenSerial, SetOpened, OpenSocket,
        BeginSetReadCallback, SetReadCallback, SeesPowerOn, NotConnected, Exits,
        GoTo, waitVars
  <2>2. CASE Polling
    BY <1>1, <2>2
    DEF QuietInv, TypeOK, MainThread, Polling, Connected, IsFrameReady, TakeScan,
        ResetFrameReady, CopyScan, ToLaserscanMessagePublish, NoScan, LeaveLoop, GoTo,
        waitVars
  <2>3. CASE Stopping
    BY <1>1, <2>3
    DEF QuietInv, MainThread, Stopping, BeginClose, CloseHandle, Join, CloseSocket,
        ClearFlag, DeletePkg, DeletePort, Return, GoTo, waitVars
  <2> QED
    BY <1>1, <2>1, <2>2, <2>3 DEF MainThread
<1>2. CASE ReceiveThread
  BY <1>2
  DEF QuietInv, ReceiveThread, Receiving, CommReadCallback, Parse, Assemble,
      AssembleScan, SetLaserScanData, SetFrameReady, UseFreed, waitVars
<1>3. CASE Interrupt \/ UNCHANGED vars
  BY <1>3 DEF QuietInv, Interrupt, vars, waitVars
<1>4. CASE Tick
  BY <1>4, DriverAssumption DEF QuietInv, TypeOK, Tick, Older
<1> QED
  BY <1>1, <1>2, <1>3, <1>4 DEF Next

(* A time-out is reported only when no scan has become ready for that long, *)
(* or one did after the look at the flag.                                   *)
THEOREM TimeoutMeansSilenceHolds == Spec => TimeoutMeansSilence
<1> DEFINE Late == node = "late" /\ node' # "late" /\ status' = "DATA_TIME_OUT"
<1>1. Init => QuietInv
  BY DriverAssumption DEF Init, QuietInv
<1>2. ASSUME TypeOK, QuietInv, Next, Late
      PROVE  quiet > Timeout \/ ready
  <2>1. NoScan
    BY <1>2
    DEF Next, MainThread, Starting, OpenSerial, SetOpened, OpenSocket,
        BeginSetReadCallback, SetReadCallback, SeesPowerOn, NotConnected, Exits, GoTo,
        Polling, Connected, IsFrameReady, TakeScan, ResetFrameReady, CopyScan,
        ToLaserscanMessagePublish, LeaveLoop, Stopping, BeginClose, CloseHandle, Join,
        CloseSocket, ClearFlag, DeletePkg, DeletePort, Return, ReceiveThread,
        Interrupt, Tick
  <2>2. silent > Timeout
    BY <2>1, <1>2 DEF NoScan
  <2> QED
    BY <2>2, <1>2, DriverAssumption DEF QuietInv, TypeOK
<1>3. TypeOK /\ QuietInv /\ [Next]_vars => [Late => quiet > Timeout \/ ready]_vars
  BY <1>2
<1> QED
  BY <1>1, <1>3, TypeCorrect, NextQuietInv, PTL DEF Spec, TimeoutMeansSilence

-----------------------------------------------------------------------------
(* The ways in which the scan stored last can still be published.           *)
InHand == node = "copy" \/ (node = "publish" /\ taken = stored)
Credits == (IF ready THEN 1 ELSE 0) + (IF InHand THEN 1 ELSE 0)
             + (IF rx = "ready" THEN 1 ELSE 0)

HandoffInv ==
  /\ made = IF rx = "store" THEN stored + 1 ELSE stored
  /\ published <= taken /\ taken <= stored
  /\ node = "publish" => taken > 0
  /\ node = "publish" /\ published = taken => repeats < 2
  /\ ready \/ node = "copy" \/ rx = "ready" => stored > 0
  /\ node = "reset" => ready
  /\ node = "start" => rx = "none"
  /\ published = stored /\ stored > 0 => repeats + Credits <= 2

LEMMA NextHandoffInv ==
  ASSUME TypeOK, HandoffInv, [Next]_vars
  PROVE  HandoffInv'
<1> USE DEF HandoffInv, Credits, InHand
<1>1. CASE MainThread
  <2>1. CASE Starting
    BY <1>1, <2>1
    DEF TypeOK, MainThread, Starting, OpenSerial, SetOpened, OpenSocket,
        BeginSetReadCallback, SetReadCallback, SeesPowerOn, NotConnected, Exits,
        GoTo, waitVars, scanVars, dataVars
  <2>2. CASE Polling
    <3>1. CASE CopyScan
      BY <1>1, <2>2, <3>1 DEF TypeOK, MainThread, Polling, CopyScan, GoTo, scanVars, dataVars
    <3>2. CASE ToLaserscanMessagePublish
      BY <1>1, <2>2, <3>2
      DEF TypeOK, MainThread, Polling, ToLaserscanMessagePublish, GoTo, waitVars, dataVars
    <3>3. CASE Connected \/ IsFrameReady \/ ResetFrameReady \/ NoScan \/ LeaveLoop
      BY <1>1, <2>2, <3>3
      DEF TypeOK, MainThread, Polling, Connected, IsFrameReady, ResetFrameReady,
          NoScan, LeaveLoop, GoTo, waitVars, scanVars, dataVars
    <3> QED
      BY <2>2, <3>1, <3>2, <3>3 DEF Polling, TakeScan
  <2>3. CASE Stopping
    BY <1>1, <2>3
    DEF TypeOK, MainThread, Stopping, BeginClose, CloseHandle, Join, CloseSocket,
        ClearFlag, DeletePkg, DeletePort, Return, GoTo, waitVars, scanVars, dataVars
  <2> QED
    BY <1>1, <2>1, <2>2, <2>3 DEF MainThread
<1>2. CASE ReceiveThread
  <2>1. CASE Receiving \/ UseFreed
    BY <1>2, <2>1
    DEF TypeOK, ReceiveThread, Receiving, RxLoop, RxSelect, RxRead, RxDeliver,
        UseFreed, RxGoTo, waitVars, scanVars, dataVars
  <2>2. CASE CommReadCallback
    <3>1. UNCHANGED <<node, taken, published, repeats>>
      BY <1>2 DEF ReceiveThread, waitVars, scanVars
    <3>2. CASE Parse \/ Assemble
      BY <3>1, <3>2 DEF TypeOK, Parse, Assemble, RxGoTo
    <3>3. CASE AssembleScan
      BY <3>1, <3>3 DEF TypeOK, AssembleScan, RxGoTo
    <3>4. CASE SetLaserScanData
      BY <3>1, <3>4 DEF TypeOK, SetLaserScanData, RxGoTo
    <3>5. CASE SetFrameReady
      BY <3>1, <3>5 DEF TypeOK, SetFrameReady, RxGoTo, dataVars
    <3> QED
      BY <2>2, <3>2, <3>3, <3>4, <3>5 DEF CommReadCallback
  <2> QED
    BY <1>2, <2>1, <2>2 DEF ReceiveThread
<1>3. CASE Interrupt \/ Tick \/ UNCHANGED vars
  BY <1>3 DEF TypeOK, Interrupt, Tick, vars, waitVars, scanVars, dataVars
<1> QED
  BY <1>1, <1>2, <1>3 DEF Next

LEMMA Handoff == Spec => [](TypeOK /\ HandoffInv)
<1>1. Init => HandoffInv
  BY DEF Init, HandoffInv
<1> QED
  BY <1>1, TypeCorrect, NextHandoffInv, PTL DEF Spec

(* Every step of the main thread leaves the mailbox alone, publishes from   *)
(* it or closes it.                                                         *)
LEMMA MainThreadIsMailbox ==
  ASSUME TypeOK, HandoffInv, MainThread
  PROVE  [Mailbox!MailboxNext]_(Mailbox!mailboxVars)
<1> USE DEF Mailbox!mailboxVars, Mailbox!MailboxNext
<1>1. CASE ToLaserscanMessagePublish /\ Polling
  <2>1. UNCHANGED <<stored, process>>
    BY <1>1 DEF MainThread, Polling, Continues, dataVars
  <2>2. CASE firstScan \/ ~spinning
    BY <1>1, <2>1, <2>2 DEF ToLaserscanMessagePublish
  <2>3. CASE ~firstScan /\ spinning /\ taken = published
    <3>1. published > 0 /\ repeats < 2
      BY <1>1, <2>3 DEF HandoffInv, ToLaserscanMessagePublish, GoTo
    <3> QED
      BY <1>1, <2>1, <2>3, <3>1
      DEF MainThread, ToLaserscanMessagePublish, Mailbox!PublishAgain
  <2>4. CASE ~firstScan /\ spinning /\ taken # published
    <3>1. taken \in (published + 1)..stored
      BY <2>4 DEF HandoffInv, TypeOK
    <3> QED
      BY <1>1, <2>1, <2>4, <3>1
      DEF MainThread, ToLaserscanMessagePublish, Mailbox!PublishNewer
  <2> QED
    BY <2>2, <2>3, <2>4
<1>2. CASE ~(ToLaserscanMessagePublish /\ Polling)
  <2>1. UNCHANGED <<stored, published, repeats>>
    BY <1>2
    DEF MainThread, Starting, Polling, Stopping, Connected, IsFrameReady, TakeScan,
        ResetFrameReady, CopyScan, NoScan, LeaveLoop, scanVars, dataVars
  <2> QED
    BY <2>1 DEF MainThread, Mailbox!Close
<1> QED
  BY <1>1, <1>2

LEMMA ReceiveThreadIsMailbox ==
  ASSUME TypeOK, HandoffInv, ReceiveThread
  PROVE  [Mailbox!MailboxNext]_(Mailbox!mailboxVars)
<1> USE DEF Mailbox!mailboxVars, Mailbox!MailboxNext
<1>1. CASE CommReadCallback /\ SetLaserScanData
  BY <1>1
  DEF HandoffInv, ReceiveThread, CommReadCallback, Continues, SetLaserScanData,
      RxGoTo, Mailbox!Store, scanVars
<1>2. CASE ~(CommReadCallback /\ SetLaserScanData)
  <2>1. UNCHANGED <<stored, published, repeats>>
    BY <1>2
    DEF ReceiveThread, Receiving, CommReadCallback, Parse, Assemble, AssembleScan,
        SetFrameReady, UseFreed, scanVars, dataVars
  <2> QED
    BY <2>1 DEF ReceiveThread, Mailbox!Close
<1> QED
  BY <1>1, <1>2

(* What the lidar node publishes is a mailbox: no scan after a newer one    *)
(* and none more than three times, however the two threads interleave.      *)
THEOREM MailboxRefined == Spec => ImplementsScanMailbox
<1>1. Init => Mailbox!MailboxInit
  BY DEF Init, Mailbox!MailboxInit
<1>2. TypeOK /\ HandoffInv /\ [Next]_vars => [Mailbox!MailboxNext]_(Mailbox!mailboxVars)
  <2>1. CASE Interrupt \/ Tick \/ UNCHANGED vars
    BY <2>1 DEF Interrupt, Tick, vars, scanVars, dataVars, Mailbox!mailboxVars
  <2> QED
    BY <2>1, MainThreadIsMailbox, ReceiveThreadIsMailbox DEF Next
<1> QED
  BY <1>1, <1>2, Handoff, PTL
  DEF Spec, ImplementsScanMailbox, Mailbox!MailboxSpec
==============================================================================
