-------------------------- MODULE CommandOdometry --------------------------
(***************************************************************************)
(* The node command_odom (sensor_bringup/command_odom.py) composed with    *)
(* agv_bridge: it hears /agv/current_command and integrates, at every      *)
(* timer tick, the velocity that belongs to the last command heard.  Its   *)
(* subscription is volatile, so a command published before it starts never *)
(* reaches it, although the bridge latches the topic.                      *)
(***************************************************************************)
EXTENDS AgvBridge

CONSTANT MaxOdomStarts  \* bound on the times the node is started

ASSUME OdomAssumption == MaxOdomStarts \in Nat

VARIABLES
  odomUp,      \* the node runs and is subscribed
  odomQueue,   \* commands received and not yet handed to the node
  command,     \* the last command handed to it
  velocity,    \* the motion integrated at the last timer tick
  missed,      \* the bridge's last command was published before the start
  odomStarts   \* counter for the bound

odomVars == <<odomUp, odomQueue, command, velocity, missed, odomStarts>>
sysVars == <<vars, odomVars>>

OdomInit ==
  /\ odomUp = FALSE
  /\ odomQueue = <<>>
  /\ command = "stop"
  /\ velocity = "stop"
  /\ missed = FALSE
  /\ odomStarts = 0

\* __init__: the command is taken to be stop.
OdomStart ==
  /\ ~odomUp
  /\ odomStarts < MaxOdomStarts
  /\ odomStarts' = odomStarts + 1
  /\ odomUp' = TRUE
  /\ missed' = (pubCommand # "stop")
  /\ UNCHANGED <<odomQueue, command, velocity>>

\* The process ends; what a new one starts with.
OdomStop ==
  /\ odomUp
  /\ odomUp' = FALSE
  /\ odomQueue' = <<>>
  /\ command' = "stop"
  /\ velocity' = "stop"
  /\ missed' = FALSE
  /\ UNCHANGED odomStarts

OnCommand ==
  /\ odomUp
  /\ odomQueue # <<>>
  /\ command' = Head(odomQueue)
  /\ odomQueue' = Tail(odomQueue)
  /\ UNCHANGED <<odomUp, velocity, missed, odomStarts>>

\* _velocities_for_command: the signs of the linear and the angular velocity;
\* the motion is named by the command that causes it.
VelocitiesForCommand ==
  IF command \in Commands THEN command ELSE "stop"

\* Faulty variant: a stop ends the integration without clearing the velocity.
OdomTimerKeeping ==
  /\ odomUp
  /\ velocity' = IF command = "stop" THEN velocity ELSE command
  /\ UNCHANGED <<odomUp, odomQueue, command, missed, odomStarts>>

\* _on_timer, when the clock has advanced.
OdomTimer ==
  /\ odomUp
  /\ velocity' = VelocitiesForCommand
  /\ UNCHANGED <<odomUp, odomQueue, command, missed, odomStarts>>

\* The bridge publishes /agv/current_command in these steps.
BridgePublishes == Acknowledged \/ Restart

\* Faulty variant: a full queue refuses the new message.
HearIfRoom ==
  /\ odomQueue' = IF odomUp /\ BridgePublishes /\ Len(odomQueue) < QDepth
                  THEN Append(odomQueue, pubCommand') ELSE odomQueue
  /\ missed' = (missed /\ ~BridgePublishes)
  /\ UNCHANGED <<odomUp, command, velocity, odomStarts>>

\* Faulty variant: the queue has no depth.
HearUnbounded ==
  /\ odomQueue' = IF odomUp /\ BridgePublishes
                  THEN Append(odomQueue, pubCommand') ELSE odomQueue
  /\ missed' = (missed /\ ~BridgePublishes)
  /\ UNCHANGED <<odomUp, command, velocity, odomStarts>>

Hear ==
  /\ odomQueue' = IF odomUp /\ BridgePublishes
                  THEN Enqueue(odomQueue, pubCommand') ELSE odomQueue
  /\ missed' = (missed /\ ~BridgePublishes)
  /\ UNCHANGED <<odomUp, command, velocity, odomStarts>>

OdomNext == OdomStart \/ OdomStop \/ OnCommand \/ OdomTimer

SysInit == Init /\ OdomInit
SysNext == (Next /\ Hear) \/ (OdomNext /\ UNCHANGED vars)

\* command_odom serves its subscription and its timer while it runs.
SysSpec ==
  /\ SysInit
  /\ [][SysNext]_sysVars
  /\ Fairness
  /\ WF_odomVars(OnCommand /\ UNCHANGED vars)
  /\ WF_odomVars(OdomTimer /\ UNCHANGED vars)

-----------------------------------------------------------------------------
\* The type of every variable of the node.
OdomTypeOK ==
  /\ odomUp \in BOOLEAN /\ missed \in BOOLEAN
  /\ odomQueue \in Seq(Commands)
  /\ Len(odomQueue) <= QDepth
  /\ command \in Commands /\ velocity \in Commands
  /\ odomStarts \in 0 .. MaxOdomStarts

\* The newest command on its way to the node, or with it.
Newest == IF odomQueue = <<>> THEN command ELSE odomQueue[Len(odomQueue)]

\* However far the node lags behind, and whatever a full queue drops, the
\* newest command it has or will get is the last one the bridge published,
\* unless that one was published before the node started.
NewestIsPublished == odomUp /\ ~missed => Newest = pubCommand

\* The odometry comes to integrate the motion the vehicle performs, as long as
\* the bridge runs, no write of it is in doubt, and the node was there when
\* the command was published.
OdometryFollowsVehicle ==
  \A c \in Commands :
    <>[](odomUp /\ ~missed /\ pc # "down" /\ ~doubt /\ agv = c)
      => <>[](velocity = c)

\* The odometry as documented, an integral of the commands sent: it comes to
\* rest with the vehicle.
OdometryRestsWithVehicle ==
  <>[](odomUp /\ ~missed /\ ~doubt /\ agv = "stop") => <>[](velocity = "stop")
=============================================================================
