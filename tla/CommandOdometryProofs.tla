----------------------- MODULE CommandOdometryProofs -----------------------
(* Proofs about CommandOdometry, for every value of its constants. *)
EXTENDS CommandOdometry, AgvBridgeProofs

-----------------------------------------------------------------------------
(* The composition                                                         *)

\* A step of the composed system is a step of the bridge or leaves it alone.
LEMMA StepOfBridge == [SysNext]_sysVars => [Next]_vars
BY DEF SysNext, sysVars

\* By its construction the composed system implements the bridge's
\* specification; what is proved of the bridge is used of it by this lemma.
LEMMA SystemIsBridge == SysSpec => Spec
<1>1. SysInit => Init
  BY DEF SysInit
<1> QED
  BY <1>1, StepOfBridge, PTL DEF SysSpec, Spec

\* The bridge changes pubCommand only where it publishes it.
LEMMA PublishedInSight ==
  ASSUME Next, ~BridgePublishes
  PROVE  UNCHANGED pubCommand
<1> USE DEF inputVars, modeVars, cmdVars, loopVars, lineVars, worldVars, bounds
<1>1. CASE OnTimer \/ SwitchMode \/ SelectCommand \/ Connect \/ WriteRequest
           \/ ReplyFails \/ Retry \/ Destroyed
  BY <1>1
  DEF OnTimer, SwitchMode, SelectCommand, Connect, WriteRequest, ReplyFails,
      AttemptFails, Retry, Destroyed, Die
<1>2. CASE Callbacks \/ Inputs \/ CarryOut \/ StraySettles \/ Tick
  BY <1>2
  DEF Callbacks, OnModeMsg, OnCmd, Inputs, RequestMode, Publish, SourceDies,
      CarryOut, StraySettles, Tick
<1>3. CASE LineFails \/ Interrupt \/ Crash \/ VehicleFault
  BY <1>3
  DEF LineFails, AttemptFails, Interrupt, Crash, Die, VehicleFault
<1> QED
  BY <1>1, <1>2, <1>3 DEF Next, Executor, Failures, BridgePublishes

-----------------------------------------------------------------------------
(* The queue                                                               *)

\* A queue that drops its oldest message keeps its type and its depth, and its
\* newest message is the one just received.
LEMMA EnqueueNewest ==
  ASSUME NEW S, NEW q \in Seq(S), Len(q) <= QDepth, NEW msg \in S
  PROVE  /\ Enqueue(q, msg) \in Seq(S)
         /\ Len(Enqueue(q, msg)) <= QDepth
         /\ Enqueue(q, msg) # <<>>
         /\ Enqueue(q, msg)[Len(Enqueue(q, msg))] = msg
<1> DEFINE kept == IF Len(q) < QDepth THEN q ELSE Tail(q)
<1>1. kept \in Seq(S) /\ Len(kept) < QDepth
  <2>1. CASE Len(q) < QDepth
    BY <2>1
  <2>2. CASE ~(Len(q) < QDepth)
    <3>1. q # <<>> /\ Len(q) = QDepth
      BY <2>2, TimingAssumption, LenProperties
    <3>2. Tail(q) \in Seq(S) /\ Len(Tail(q)) = Len(q) - 1
      BY <3>1, HeadTailProperties
    <3> QED
      BY <2>2, <3>1, <3>2, TimingAssumption
  <2> QED
    BY <2>1, <2>2
<1>2. Enqueue(q, msg) = Append(kept, msg)
  BY DEF Enqueue
<1> HIDE DEF kept
<1>3. /\ Append(kept, msg) \in Seq(S)
      /\ Len(Append(kept, msg)) = Len(kept) + 1
      /\ Append(kept, msg)[Len(kept) + 1] = msg
  BY <1>1, AppendProperties
<1>4. Len(kept) \in Nat
  BY <1>1, LenProperties
<1> QED
  BY <1>1, <1>2, <1>3, <1>4, TimingAssumption

-----------------------------------------------------------------------------
(* Types                                                                   *)

\* What a node that does not run keeps has the right types.
LEMMA EmptyQueueType ==
  /\ <<>> \in Seq(Commands) /\ Len(<<>>) <= QDepth
  /\ "stop" \in Commands
<1>1. Len(<<>>) <= QDepth
  BY TimingAssumption
<1>2. "stop" \in Commands
  BY DEF Commands
<1> QED
  BY <1>1, <1>2

\* A step in which the node hears the bridge keeps its types.
LEMMA HearType ==
  ASSUME OdomTypeOK, TypeOK', Hear
  PROVE  OdomTypeOK'
<1>1. odomQueue' \in Seq(Commands) /\ Len(odomQueue') <= QDepth
  <2>1. CASE odomUp /\ BridgePublishes
    <3>1. pubCommand' \in Commands
      BY DEF TypeOK, NodeType
    <3> QED
      BY <2>1, <3>1, EnqueueNewest DEF Hear, OdomTypeOK
  <2>2. CASE ~(odomUp /\ BridgePublishes)
    BY <2>2 DEF Hear, OdomTypeOK
  <2> QED
    BY <2>1, <2>2
<1>2. missed' \in BOOLEAN
  BY DEF Hear
<1> QED
  BY <1>1, <1>2 DEF Hear, OdomTypeOK

\* A step of the node keeps its types.
LEMMA OdomStepType ==
  ASSUME OdomTypeOK, OdomNext
  PROVE  OdomTypeOK'
<1>1. CASE OdomStart
  BY <1>1, OdomAssumption DEF OdomStart, OdomTypeOK
<1>2. CASE OdomStop
  BY <1>2, EmptyQueueType DEF OdomStop, OdomTypeOK
<1>3. CASE OnCommand
  <2>1. /\ Head(odomQueue) \in Commands /\ Tail(odomQueue) \in Seq(Commands)
        /\ Len(Tail(odomQueue)) = Len(odomQueue) - 1
    BY <1>3, HeadTailProperties DEF OnCommand, OdomTypeOK
  <2>2. Len(odomQueue) \in Nat
    BY LenProperties DEF OdomTypeOK
  <2> QED
    BY <1>3, <2>1, <2>2, TimingAssumption DEF OnCommand, OdomTypeOK
<1>4. CASE OdomTimer
  BY <1>4 DEF OdomTimer, OdomTypeOK, VelocitiesForCommand, Commands
<1> QED
  BY <1>1, <1>2, <1>3, <1>4 DEF OdomNext

\* Every variable of the node keeps its type.
THEOREM OdomTypeCorrect == SysSpec => []OdomTypeOK
<1>1. SysInit => OdomTypeOK
  <2>1. OdomInit => odomStarts \in 0 .. MaxOdomStarts
    BY OdomAssumption DEF OdomInit
  <2> QED
    BY <2>1, EmptyQueueType DEF SysInit, OdomInit, OdomTypeOK
<1>2. TypeOK' /\ OdomTypeOK /\ [SysNext]_sysVars => OdomTypeOK'
  BY HearType, OdomStepType DEF SysNext, sysVars, odomVars, OdomTypeOK
<1> QED
  BY <1>1, <1>2, SystemIsBridge, TypeCorrect, PTL DEF SysSpec

-----------------------------------------------------------------------------
(* The newest command                                                      *)

\* What makes NewestIsPublished inductive: a node that does not run has heard
\* nothing and starts from stop.
NewestInv ==
  /\ odomUp /\ ~missed => Newest = pubCommand
  /\ ~odomUp => odomQueue = <<>> /\ command = "stop"

\* A step of the bridge, heard or not, keeps the invariant.
LEMMA HearNewest ==
  ASSUME OdomTypeOK, TypeOK', NewestInv, Next, Hear
  PROVE  NewestInv'
<1>1. CASE odomUp /\ BridgePublishes
  <2>1. pubCommand' \in Commands
    BY DEF TypeOK, NodeType
  <2>2. odomQueue' # <<>> /\ odomQueue'[Len(odomQueue')] = pubCommand'
    BY <1>1, <2>1, EnqueueNewest DEF Hear, OdomTypeOK
  <2> QED
    BY <1>1, <2>2 DEF NewestInv, Newest, Hear
<1>2. CASE ~odomUp
  BY <1>2 DEF NewestInv, Hear
<1>3. CASE ~BridgePublishes
  <2>1. UNCHANGED <<pubCommand, odomQueue, command, odomUp, missed>>
    BY <1>3, PublishedInSight DEF Hear, OdomTypeOK
  <2> QED
    BY <2>1 DEF NewestInv, Newest
<1> QED
  BY <1>1, <1>2, <1>3

\* A step of the node keeps the invariant.
LEMMA OdomStepNewest ==
  ASSUME OdomTypeOK, NewestInv, OdomNext, UNCHANGED vars
  PROVE  NewestInv'
<1>1. UNCHANGED pubCommand
  BY DEF vars, cmdVars
<1>2. CASE OdomStart
  BY <1>1, <1>2 DEF OdomStart, NewestInv, Newest
<1>3. CASE OdomStop
  BY <1>3 DEF OdomStop, NewestInv
<1>4. CASE OnCommand
  <2>1. Newest' = Newest
    <3>1. CASE Len(odomQueue) = 1
      <4>1. Tail(odomQueue) = <<>>
        BY <3>1, <1>4 DEF OnCommand, OdomTypeOK
      <4>2. Head(odomQueue) = odomQueue[Len(odomQueue)]
        BY <3>1, <1>4 DEF OnCommand, OdomTypeOK
      <4> QED
        BY <1>4, <4>1, <4>2 DEF OnCommand, Newest
    <3>2. CASE Len(odomQueue) # 1
      <4> DEFINE n == Len(odomQueue)
      <4>1. n \in Nat /\ n > 1
        <5>1. odomQueue \in Seq(Commands) /\ odomQueue # <<>>
          BY <1>4 DEF OnCommand, OdomTypeOK
        <5>2. n \in Nat /\ n # 0
          BY <5>1
        <5>3. n # 1
          BY <3>2
        <5> HIDE DEF n
        <5> QED
          BY <5>2, <5>3
      <4>2. Len(Tail(odomQueue)) = n - 1
        BY <1>4, HeadTailProperties DEF OnCommand, OdomTypeOK
      <4>3. Tail(odomQueue)[n - 1] = odomQueue[n]
        BY <1>4, <4>1, <4>2, HeadTailProperties DEF OnCommand, OdomTypeOK
      <4>4. Tail(odomQueue) # <<>>
        BY <4>1, <4>2
      <4> QED
        BY <1>4, <4>2, <4>3, <4>4 DEF OnCommand, Newest
    <3> QED
      BY <3>1, <3>2
  <2> QED
    BY <1>1, <1>4, <2>1 DEF OnCommand, NewestInv
<1>5. CASE OdomTimer
  BY <1>1, <1>5 DEF OdomTimer, NewestInv, Newest
<1> QED
  BY <1>2, <1>3, <1>4, <1>5 DEF OdomNext

\* Whatever the depth of the queue and however far the node lags behind, the
\* newest command it has or will get is the last one the bridge published.
THEOREM NewestIsPublishedHolds == SysSpec => []NewestIsPublished
<1>1. SysInit => NewestInv
  BY DEF SysInit, OdomInit, NewestInv
<1>2. OdomTypeOK /\ TypeOK' /\ NewestInv /\ [SysNext]_sysVars => NewestInv'
  <2>1. UNCHANGED sysVars /\ NewestInv => NewestInv'
    BY DEF sysVars, odomVars, vars, cmdVars, NewestInv, Newest
  <2> QED
    BY <2>1, HearNewest, OdomStepNewest DEF SysNext
<1>3. NewestInv => NewestIsPublished
  BY DEF NewestInv, NewestIsPublished
<1> QED
  BY <1>1, <1>2, <1>3, OdomTypeCorrect, SystemIsBridge, TypeCorrect, PTL
  DEF SysSpec
=============================================================================
