-------------------------- MODULE AgvBridgeProofs --------------------------
(* Proofs about AgvBridge, for every value of its constants. *)
EXTENDS AgvBridge, TLAPS, SequenceTheorems

-----------------------------------------------------------------------------
(* The choice of a command                                                 *)

\* CommandFor yields one of the five commands.
LEMMA CommandForType ==
  ASSUME NEW twist \in Twists
  PROVE  CommandFor(twist) \in Commands
BY DEF CommandFor, Commands

\* Whatever the slots hold, the node selects one of the five commands.
LEMMA SelectedType ==
  ASSUME TypeOK, NEW m \in Modes
  PROVE  Selected(m) \in Commands
<1>1. slot[m].twist \in Twists
  BY DEF TypeOK, NodeType
<1> QED
  BY <1>1, CommandForType DEF Selected, Commands

Opposite(c) == CASE c = "forward"  -> "backward"
                 [] c = "backward" -> "forward"
                 [] c = "left"     -> "right"
                 [] c = "right"    -> "left"
                 [] OTHER          -> "stop"

\* _select_command has no preferred direction: the twist turned round selects
\* the opposite command, at every boundary of the deadbands.
THEOREM SelectionIsSymmetric ==
  ASSUME NEW lin \in Int, NEW ang \in Int
  PROVE  CommandFor(<<-lin, -ang>>) = Opposite(CommandFor(<<lin, ang>>))
BY DeadbandAssumption DEF CommandFor, Opposite, Magnitude

-----------------------------------------------------------------------------
(* Types                                                                   *)

LEMMA EnqueueType ==
  ASSUME NEW q \in Seq(Twists), NEW msg \in Twists
  PROVE  Enqueue(q, msg) \in Seq(Twists)
<1>1. CASE Len(q) < QDepth
  BY <1>1 DEF Enqueue
<1>2. CASE ~(Len(q) < QDepth)
  <2>1. q # <<>>
    BY <1>2, TimingAssumption
  <2>2. Tail(q) \in Seq(Twists)
    BY <2>1
  <2> QED
    BY <1>2, <2>2 DEF Enqueue
<1> QED
  BY <1>1, <1>2

\* The type invariant holds initially.
LEMMA TypeInit == Init => TypeOK
<1> SUFFICES ASSUME Init PROVE TypeOK
  OBVIOUS
<1>1. slot \in [Modes -> [twist : Twists, age : NoStamp .. Expired]]
  BY TimingAssumption DEF Init, EmptySlot, Twists, NoStamp, Expired
<1>2. queue \in [Topics -> Seq(Twists)]
  BY DEF Init
<1>i. InputType
  BY <1>2 DEF InputType, Init
<1>n. NodeType
  BY <1>1, ModeAssumption, TimingAssumption DEF NodeType, Init, Commands
<1>l. LoopType
  BY TimingAssumption DEF LoopType, Init, PCs, Commands
<1>w. LineType
  BY DEF LineType, Init, Commands
<1>b. BoundType
  BY BoundsAssumption DEF BoundType, Init
<1> QED
  BY <1>i, <1>n, <1>l, <1>w, <1>b DEF TypeOK

\* Every step preserves the type invariant.
LEMMA TypeNext == TypeOK /\ [Next]_vars => TypeOK'
<1> SUFFICES ASSUME TypeOK, [Next]_vars PROVE TypeOK'
  OBVIOUS
<1> USE
DEF inputVars, modeVars, cmdVars, loopVars, lineVars, worldVars, bounds
<1>die. ASSUME Die, doubt' \in BOOLEAN, faults' \in 0 .. MaxFaults,
               stops' \in 0 .. MaxStops
        PROVE  TypeOK'
  <2>1. slot' \in [Modes -> [twist : Twists, age : NoStamp .. Expired]]
    BY <1>die, TimingAssumption DEF Die, EmptySlot, Twists, NoStamp, Expired
  <2>2. queue' \in [Topics -> Seq(Twists)]
    BY <1>die DEF Die
  <2>3. stray' \subseteq Commands
    BY <1>die DEF Die, OnTheLine, TypeOK, LineType
  <2>i. InputType'
    BY <1>die, <2>2 DEF InputType, TypeOK, Die
  <2>n. NodeType'
    BY <1>die, <2>1, ModeAssumption, TimingAssumption
    DEF NodeType, TypeOK, Die, Commands
  <2>l. LoopType'
    BY <1>die, TimingAssumption DEF LoopType, Die, PCs, Commands
  <2>w. LineType'
    BY <1>die, <2>3 DEF LineType, TypeOK, Die
  <2> QED
    BY <1>die, <2>i, <2>n, <2>l, <2>w DEF TypeOK, BoundType
<1>1. CASE OnTimer
  BY <1>1, TimingAssumption
  DEF TypeOK, InputType, NodeType, LoopType, LineType, BoundType, OnTimer,
      CallSend, Attempting, PCs, Commands
<1>2. CASE SwitchMode
  BY <1>2
  DEF TypeOK, InputType, NodeType, LoopType, LineType, BoundType,
      SwitchMode, PCs
<1>3. CASE SelectCommand
  <2>1. Selected(mode) \in Commands
    BY SelectedType
    DEF TypeOK, InputType, NodeType, LoopType, LineType, BoundType
  <2> QED
    BY <1>3, <2>1, TimingAssumption
    DEF TypeOK, InputType, NodeType, LoopType, LineType, BoundType,
        SelectCommand, CallSend, Attempting, PCs
<1>4. CASE Connect
  BY <1>4
  DEF TypeOK, InputType, NodeType, LoopType, LineType, BoundType, Connect,
      PCs
<1>5. CASE WriteRequest
  BY <1>5
  DEF TypeOK, InputType, NodeType, LoopType, LineType, BoundType,
      WriteRequest, PCs
<1>6. CASE Acknowledged
  BY <1>6, TimingAssumption
  DEF TypeOK, InputType, NodeType, LoopType, LineType, BoundType,
      Acknowledged, ForgetLoop, PCs, Commands
<1>fail. ASSUME AttemptFails, faults' \in 0 .. MaxFaults, UNCHANGED stops
         PROVE  TypeOK'
  <2>1. stray' \subseteq Commands
    BY <1>fail DEF AttemptFails, OnTheLine, TypeOK, LineType
  <2>2. nextRetryIn' \in 0 .. ReconnectInterval
    BY <1>fail, TimingAssumption
    DEF AttemptFails, RetryDelay, TypeOK, NodeType, LoopType
  <2>3. doubt' \in BOOLEAN
    BY <1>fail DEF AttemptFails, TypeOK, LineType
  <2>i. InputType'
    BY <1>fail DEF InputType, TypeOK, AttemptFails
  <2>n. NodeType'
    BY <1>fail, <2>2 DEF NodeType, TypeOK, AttemptFails
  <2>l. LoopType'
    BY <1>fail, TimingAssumption
    DEF LoopType, TypeOK, AttemptFails, ForgetLoop, PCs, Commands
  <2>w. LineType'
    BY <1>fail, <2>1, <2>3 DEF LineType, TypeOK, AttemptFails
  <2> QED
    BY <1>fail, <2>i, <2>n, <2>l, <2>w DEF TypeOK, BoundType
<1>fault. Fault => faults' \in 0 .. MaxFaults
  BY BoundsAssumption
  DEF TypeOK, InputType, NodeType, LoopType, LineType, BoundType, Fault
<1>7. CASE ReplyFails
  BY <1>7, <1>fail, <1>fault
  DEF TypeOK, InputType, NodeType, LoopType, LineType, BoundType,
      ReplyFails, NoEcho
<1>8. CASE Retry
  BY <1>8
  DEF TypeOK, InputType, NodeType, LoopType, LineType, BoundType, Retry,
      Attempting, PCs
<1>9. CASE Destroyed
  <2>1. doubt' \in BOOLEAN
    BY <1>9
    DEF TypeOK, InputType, NodeType, LoopType, LineType, BoundType,
        Destroyed
  <2> QED
    BY <1>9, <2>1, <1>die, <1>fault
    DEF TypeOK, InputType, NodeType, LoopType, LineType, BoundType,
        Destroyed, NoEcho
<1>10. CASE OnModeMsg
  BY <1>10
  DEF TypeOK, InputType, NodeType, LoopType, LineType, BoundType, OnModeMsg
<1>11. ASSUME NEW t \in Topics, OnCmd(t) PROVE TypeOK'
  <2>1. Head(queue[t]) \in Twists /\ Tail(queue[t]) \in Seq(Twists)
    BY <1>11
    DEF TypeOK, InputType, NodeType, LoopType, LineType, BoundType, OnCmd
  <2>2. SlotOf(t) \in Modes
    BY DEF SlotOf, Modes
  <2>3. 0 \in NoStamp .. Expired
    BY TimingAssumption DEF NoStamp, Expired
  <2>4. slot' \in [Modes -> [twist : Twists, age : NoStamp .. Expired]]
    BY <1>11, <2>1, <2>2, <2>3
    DEF TypeOK, InputType, NodeType, LoopType, LineType, BoundType, OnCmd
  <2>5. queue' \in [Topics -> Seq(Twists)]
    BY <1>11, <2>1
    DEF TypeOK, InputType, NodeType, LoopType, LineType, BoundType, OnCmd
  <2> QED
    BY <1>11, <2>4, <2>5
    DEF TypeOK, InputType, NodeType, LoopType, LineType, BoundType, OnCmd
<1>12. CASE RequestMode
  BY <1>12
  DEF TypeOK, InputType, NodeType, LoopType, LineType, BoundType,
      RequestMode
<1>13. ASSUME NEW t \in Topics, Publish(t) PROVE TypeOK'
  <2>1. PICK twist \in Publishes[t] :
          queue' = [queue EXCEPT ![t] = Enqueue(@, twist)]
    BY <1>13 DEF Publish
  <2>2. twist \in Twists /\ queue[t] \in Seq(Twists)
    BY PublishesAssumption
    DEF TypeOK, InputType, NodeType, LoopType, LineType, BoundType
  <2>3. Enqueue(queue[t], twist) \in Seq(Twists)
    BY <2>2, EnqueueType
  <2>4. queue' \in [Topics -> Seq(Twists)]
    BY <2>1, <2>3
    DEF TypeOK, InputType, NodeType, LoopType, LineType, BoundType
  <2> QED
    BY <1>13, <2>4
    DEF TypeOK, InputType, NodeType, LoopType, LineType, BoundType, Publish
<1>14. ASSUME NEW t \in Topics, SourceDies(t) PROVE TypeOK'
  BY <1>14
  DEF TypeOK, InputType, NodeType, LoopType, LineType, BoundType, SourceDies
<1>15. CASE LineFails
  BY <1>15, <1>fail, <1>fault DEF LineFails
<1>stop. stops < MaxStops /\ stops' = stops + 1 => stops' \in 0 .. MaxStops
  BY BoundsAssumption
  DEF TypeOK, InputType, NodeType, LoopType, LineType, BoundType
<1>16. CASE Interrupt
  <2>1. doubt' \in BOOLEAN /\ faults' \in 0 .. MaxFaults
          /\ stops' \in 0 .. MaxStops
    BY <1>16, <1>stop
    DEF TypeOK, InputType, NodeType, LoopType, LineType, BoundType,
        Interrupt
  <2>2. CASE last_sent_command = "stop"
    BY <1>16, <2>1, <2>2, <1>die DEF Interrupt
  <2>3. CASE last_sent_command # "stop"
    <3>i. InputType' /\ NodeType'
      BY <1>16, <2>3 DEF InputType, NodeType, TypeOK, Interrupt
    <3>l. LoopType'
      BY <1>16, <2>3, TimingAssumption
      DEF LoopType, TypeOK, Interrupt, Attempting, PCs, Commands
    <3>w. LineType'
      BY <1>16, <2>1, <2>3 DEF LineType, TypeOK, Interrupt
    <3> QED
      BY <2>1, <3>i, <3>l, <3>w DEF TypeOK, BoundType
  <2> QED
    BY <2>2, <2>3
<1>17. CASE Crash
  <2>1. doubt' \in BOOLEAN /\ faults' \in 0 .. MaxFaults
          /\ stops' \in 0 .. MaxStops
    BY <1>17, <1>stop
    DEF TypeOK, InputType, NodeType, LoopType, LineType, BoundType, Crash
  <2> QED
    BY <1>17, <2>1, <1>die DEF Crash
<1>18. CASE Restart
  <2>n. NodeType'
    BY <1>18, ModeAssumption DEF NodeType, TypeOK, Restart, Commands
  <2>l. LoopType'
    BY <1>18 DEF LoopType, TypeOK, Restart, PCs
  <2> QED
    BY <1>18, <2>n, <2>l DEF TypeOK, InputType, LineType, BoundType, Restart
<1>19. CASE VehicleFault
  BY <1>19, <1>fault
 
  DEF TypeOK, InputType, NodeType, LoopType, LineType, BoundType,
      VehicleFault, TakeFirst, FirstOnTheLine, OnTheLine, Reply
<1>20. CASE CarryOut
  BY <1>20
  DEF TypeOK, InputType, NodeType, LoopType, LineType, BoundType, CarryOut,
      TakeFirst, FirstOnTheLine, OnTheLine, Reply
<1>21. CASE StraySettles
  BY <1>21
  DEF TypeOK, InputType, NodeType, LoopType, LineType, BoundType,
      StraySettles
<1>22. CASE Tick
  <2>1. \A a \in NoStamp .. Expired : Older(a) \in NoStamp .. Expired
    BY TimingAssumption DEF Older, NoStamp, Expired
  <2>2. slot' \in [Modes -> [twist : Twists, age : NoStamp .. Expired]]
    BY <1>22, <2>1
    DEF TypeOK, InputType, NodeType, LoopType, LineType, BoundType, Tick
  <2> QED
    BY <1>22, <2>2, TimingAssumption
    DEF TypeOK, InputType, NodeType, LoopType, LineType, BoundType, Tick,
        UpToInterval
<1>23. CASE UNCHANGED vars
  BY <1>23
  DEF TypeOK, InputType, NodeType, LoopType, LineType, BoundType, vars
<1> QED
  BY <1>1, <1>2, <1>3, <1>4, <1>5, <1>6, <1>7, <1>8, <1>9, <1>10, <1>11,
     <1>12, <1>13, <1>14, <1>15, <1>16, <1>17, <1>18, <1>19, <1>20, <1>21,
     <1>22, <1>23 DEF Next, Executor, Callbacks, Inputs, Failures

\* Every variable of the bridge always has its type.
THEOREM TypeCorrect == Spec => []TypeOK
BY TypeInit, TypeNext, PTL DEF Spec

-----------------------------------------------------------------------------
(* What the node believes, and when it may hand over control               *)

\* The inductive invariant holds initially.
LEMMA InvInit == Init => IInv
BY DEF Init, IInv, TimeInv, LineInv, SwitchInv, DoubtInv, InSendLoop, NoCmd

\* Every step preserves the count of the stops that failed: two of them, or an
\* acknowledged stop, stand in front of every switch.
LEMMA SwitchNext ==
  ASSUME TypeOK, IInv, [Next]_vars
  PROVE  SwitchInv'
<1> USE DEF inputVars, modeVars, cmdVars, loopVars, lineVars, worldVars, bounds
<1>1. CASE OnTimer
  BY <1>1
  DEF IInv, TimeInv, LineInv, SwitchInv, InSendLoop, TypeOK, LoopType, OnTimer,
      CallSend, Attempting
<1>2. CASE SwitchMode \/ SelectCommand
  BY <1>2
  DEF IInv, TimeInv, LineInv, SwitchInv, InSendLoop, TypeOK, LoopType, SwitchMode,
      SelectCommand, CallSend, Attempting
<1>3. CASE Connect \/ WriteRequest \/ Retry
  BY <1>3
  DEF IInv, SwitchInv, InSendLoop, Connect, WriteRequest, Retry, Attempting
<1>4. CASE Acknowledged
  BY <1>4
  DEF IInv, LineInv, SwitchInv, InSendLoop, TypeOK, LoopType, Acknowledged, ForgetLoop
<1>5. ASSUME AttemptFails, pc \in {"connect", "write", "await"}
      PROVE  SwitchInv'
  <2>1. /\ ret \in {"idle", "switch"} /\ attempt \in {0, 1} /\ pc # "switch"
        /\ stopFailures = IF ret = "switch" THEN attempt ELSE 0
    BY <1>5 DEF IInv, SwitchInv, TypeOK, LoopType, AttemptFails
  <2>2. CASE attempt = 0
    BY <1>5, <2>1, <2>2 DEF SwitchInv, InSendLoop, AttemptFails
  <2>3. CASE attempt = 1
    BY <1>5, <2>1, <2>3 DEF SwitchInv, AttemptFails, ForgetLoop
  <2> QED
    BY <2>1, <2>2, <2>3
<1>6. CASE ReplyFails \/ LineFails
  BY <1>5, <1>6 DEF ReplyFails, LineFails
<1>7. CASE Destroyed \/ Crash
  BY <1>7 DEF SwitchInv, Destroyed, Crash, Die
<1>8. CASE Interrupt
  BY <1>8 DEF IInv, SwitchInv, InSendLoop, Interrupt, Die, Attempting
<1>9. CASE Restart
  BY <1>9 DEF IInv, SwitchInv, InSendLoop, Restart
<1>10. CASE Callbacks \/ Inputs \/ Tick \/ UNCHANGED vars
  BY <1>10
  DEF IInv, SwitchInv, InSendLoop, Callbacks, OnModeMsg, OnCmd, Inputs, RequestMode,
      Publish, SourceDies, Tick, vars
<1>11. CASE VehicleFault \/ CarryOut \/ StraySettles
  BY <1>11
  DEF IInv, SwitchInv, InSendLoop, VehicleFault, CarryOut, StraySettles
<1> QED
  BY <1>1, <1>2, <1>3, <1>4, <1>6, <1>7, <1>8, <1>9, <1>10, <1>11
  DEF Next, Executor, Failures

\* Every step preserves the inductive invariant.
LEMMA InvNext == TypeOK /\ IInv /\ [Next]_vars => IInv'
<1> SUFFICES ASSUME TypeOK, IInv, [Next]_vars PROVE IInv'
  OBVIOUS
<1>s. SwitchInv'
  BY SwitchNext
<1> USE DEF inputVars, modeVars, cmdVars, loopVars, lineVars, worldVars, bounds
<1>1. CASE OnTimer
  <2>1. TimeInv'
    BY <1>1, TimingAssumption
    DEF IInv, TimeInv, InSendLoop, TypeOK, LoopType, OnTimer, CallSend,
        Attempting
  <2>2. LineInv'
    BY <1>1
    DEF IInv, TimeInv, LineInv, InSendLoop, OnTimer, CallSend, Attempting
  <2>3. DoubtInv'
    BY <1>1 DEF IInv, LineInv, DoubtInv, OnTimer, CallSend, Attempting
  <2> QED
    BY <1>s, <2>1, <2>2, <2>3 DEF IInv
<1>2. CASE SwitchMode
  <2>1. TimeInv'
    BY <1>2, TimingAssumption
    DEF IInv, TimeInv, InSendLoop, TypeOK, LoopType, SwitchMode
  <2>2. LineInv'
    BY <1>2 DEF IInv, TimeInv, LineInv, InSendLoop, SwitchMode
  <2>3. DoubtInv'
    BY <1>2 DEF IInv, LineInv, DoubtInv, SwitchMode
  <2> QED
    BY <1>s, <2>1, <2>2, <2>3 DEF IInv
<1>3. CASE SelectCommand
  <2>1. TimeInv'
    BY <1>3, TimingAssumption
    DEF IInv, TimeInv, InSendLoop, TypeOK, LoopType, SelectCommand,
        CallSend, Attempting
  <2>2. LineInv'
    BY <1>3
    DEF IInv, TimeInv, LineInv, InSendLoop, SelectCommand, CallSend,
        Attempting
  <2>3. DoubtInv'
    BY <1>3 DEF IInv, LineInv, DoubtInv, SelectCommand, CallSend, Attempting
  <2> QED
    BY <1>s, <2>1, <2>2, <2>3 DEF IInv
<1>4. CASE Connect
  <2>1. TimeInv'
    BY <1>4, TimingAssumption
    DEF IInv, TimeInv, InSendLoop, TypeOK, LoopType, Connect
  <2>2. LineInv'
    BY <1>4 DEF IInv, TimeInv, LineInv, InSendLoop, Connect
  <2>3. DoubtInv'
    BY <1>4 DEF IInv, LineInv, DoubtInv, Connect
  <2> QED
    BY <1>s, <2>1, <2>2, <2>3 DEF IInv
<1>5. CASE WriteRequest
  <2>1. TimeInv'
    BY <1>5, TimingAssumption
    DEF IInv, TimeInv, InSendLoop, TypeOK, LoopType, WriteRequest
  <2>2. LineInv'
    BY <1>5 DEF IInv, TimeInv, LineInv, InSendLoop, WriteRequest
  <2>3. DoubtInv'
    BY <1>5 DEF IInv, LineInv, DoubtInv, WriteRequest
  <2> QED
    BY <1>s, <2>1, <2>2, <2>3 DEF IInv
<1>6. CASE Acknowledged
  <2>1. TimeInv'
    BY <1>6, TimingAssumption
    DEF IInv, TimeInv, InSendLoop, TypeOK, LoopType, Acknowledged,
        ForgetLoop
  <2>2. LineInv'
    BY <1>6
    DEF IInv, TimeInv, LineInv, InSendLoop, TypeOK, LoopType, Commands,
        NoCmd, Acknowledged, ForgetLoop
  <2>3. DoubtInv'
    BY <1>6
    DEF IInv, LineInv, DoubtInv, TypeOK, LoopType, Commands, NoCmd, Refusal,
        Acknowledged, ForgetLoop
  <2> QED
    BY <1>s, <2>1, <2>2, <2>3 DEF IInv
<1>7. CASE ReplyFails
  <2>1. TimeInv'
    BY <1>7, TimingAssumption
    DEF IInv, TimeInv, InSendLoop, TypeOK, LoopType, ReplyFails, NoEcho,
        AttemptFails, RetryDelay, ForgetLoop, OnTheLine, Fault
  <2>2. LineInv'
    BY <1>7
    DEF IInv, TimeInv, LineInv, InSendLoop, ReplyFails, NoEcho,
        AttemptFails, ForgetLoop, OnTheLine, Fault
  <2>3. DoubtInv'
    BY <1>7
    DEF IInv, LineInv, DoubtInv, ReplyFails, NoEcho, AttemptFails,
        ForgetLoop, OnTheLine, Fault
  <2> QED
    BY <1>s, <2>1, <2>2, <2>3 DEF IInv
<1>8. CASE Retry
  <2>1. TimeInv'
    BY <1>8, TimingAssumption
    DEF IInv, TimeInv, InSendLoop, TypeOK, LoopType, Retry, Attempting
  <2>2. LineInv'
    BY <1>8 DEF IInv, TimeInv, LineInv, InSendLoop, Retry, Attempting
  <2>3. DoubtInv'
    BY <1>8 DEF IInv, LineInv, DoubtInv, Retry, Attempting
  <2> QED
    BY <1>s, <2>1, <2>2, <2>3 DEF IInv
<1>9. CASE Destroyed
  <2>1. TimeInv'
    BY <1>9, TimingAssumption
    DEF IInv, TimeInv, InSendLoop, TypeOK, LoopType, Destroyed, NoEcho, Die,
        OnTheLine, Fault
  <2>2. LineInv'
    BY <1>9
    DEF IInv, TimeInv, LineInv, InSendLoop, Destroyed, NoEcho, Die,
        OnTheLine, Fault
  <2>3. DoubtInv'
    BY <1>9
    DEF IInv, LineInv, DoubtInv, TypeOK, LoopType, Commands, NoCmd, Refusal,
        Destroyed, NoEcho, Die, OnTheLine, Fault
  <2> QED
    BY <1>s, <2>1, <2>2, <2>3 DEF IInv
<1>10. CASE Callbacks
  <2>1. TimeInv'
    BY <1>10, TimingAssumption
    DEF IInv, TimeInv, InSendLoop, TypeOK, LoopType, Callbacks, OnModeMsg,
        OnCmd
  <2>2. LineInv'
    BY <1>10
    DEF IInv, TimeInv, LineInv, InSendLoop, Callbacks, OnModeMsg, OnCmd
  <2>3. DoubtInv'
    BY <1>10 DEF IInv, LineInv, DoubtInv, Callbacks, OnModeMsg, OnCmd
  <2> QED
    BY <1>s, <2>1, <2>2, <2>3 DEF IInv
<1>11. CASE Inputs
  <2>1. TimeInv'
    BY <1>11, TimingAssumption
    DEF IInv, TimeInv, InSendLoop, TypeOK, LoopType, Inputs, RequestMode,
        Publish, SourceDies
  <2>2. LineInv'
    BY <1>11
    DEF IInv, TimeInv, LineInv, InSendLoop, Inputs, RequestMode, Publish,
        SourceDies
  <2>3. DoubtInv'
    BY <1>11
    DEF IInv, LineInv, DoubtInv, Inputs, RequestMode, Publish, SourceDies
  <2> QED
    BY <1>s, <2>1, <2>2, <2>3 DEF IInv
<1>12. CASE LineFails
  <2>1. TimeInv'
    BY <1>12, TimingAssumption
    DEF IInv, TimeInv, InSendLoop, TypeOK, LoopType, LineFails,
        AttemptFails, RetryDelay, ForgetLoop, OnTheLine, Fault
  <2>2. LineInv'
    BY <1>12
    DEF IInv, TimeInv, LineInv, InSendLoop, LineFails, AttemptFails,
        ForgetLoop, OnTheLine, Fault
  <2>3. DoubtInv'
    BY <1>12
    DEF IInv, LineInv, DoubtInv, LineFails, AttemptFails, ForgetLoop,
        OnTheLine, Fault
  <2> QED
    BY <1>s, <2>1, <2>2, <2>3 DEF IInv
<1>13. CASE Interrupt
  <2>1. TimeInv'
    BY <1>13, TimingAssumption
    DEF IInv, TimeInv, InSendLoop, TypeOK, LoopType, Interrupt, Die,
        OnTheLine, Attempting
  <2>2. LineInv'
    BY <1>13
    DEF IInv, TimeInv, LineInv, InSendLoop, Interrupt, Die, OnTheLine,
        Attempting
  <2>3. DoubtInv'
    BY <1>13
    DEF IInv, LineInv, DoubtInv, Interrupt, Die, OnTheLine, Attempting
  <2> QED
    BY <1>s, <2>1, <2>2, <2>3 DEF IInv
<1>14. CASE Crash
  <2>1. TimeInv'
    BY <1>14, TimingAssumption
    DEF IInv, TimeInv, InSendLoop, TypeOK, LoopType, Crash, Die, OnTheLine
  <2>2. LineInv'
    BY <1>14 DEF IInv, TimeInv, LineInv, InSendLoop, Crash, Die, OnTheLine
  <2>3. DoubtInv'
    BY <1>14 DEF IInv, LineInv, DoubtInv, Crash, Die, OnTheLine
  <2> QED
    BY <1>s, <2>1, <2>2, <2>3 DEF IInv
<1>15. CASE Restart
  <2>1. TimeInv'
    BY <1>15, TimingAssumption
    DEF IInv, TimeInv, InSendLoop, TypeOK, LoopType, Restart
  <2>2. LineInv'
    BY <1>15 DEF IInv, TimeInv, LineInv, InSendLoop, Restart
  <2>3. DoubtInv'
    BY <1>15 DEF IInv, LineInv, DoubtInv, Restart
  <2> QED
    BY <1>s, <2>1, <2>2, <2>3 DEF IInv
<1>16. CASE VehicleFault
  <2>1. TimeInv'
    BY <1>16, TimingAssumption
    DEF IInv, TimeInv, InSendLoop, TypeOK, LoopType, VehicleFault,
        TakeFirst, FirstOnTheLine, OnTheLine, Reply, Fault
  <2>2. LineInv'
    BY <1>16
    DEF IInv, TimeInv, LineInv, InSendLoop, VehicleFault, TakeFirst,
        FirstOnTheLine, OnTheLine, Reply, Fault
  <2>3. DoubtInv'
    BY <1>16
    DEF IInv, LineInv, DoubtInv, VehicleFault, TakeFirst, FirstOnTheLine,
        OnTheLine, Reply, Fault
  <2> QED
    BY <1>s, <2>1, <2>2, <2>3 DEF IInv
<1>17. CASE CarryOut
  <2>1. TimeInv'
    BY <1>17, TimingAssumption
    DEF IInv, TimeInv, InSendLoop, TypeOK, LoopType, CarryOut, TakeFirst,
        FirstOnTheLine, OnTheLine, Reply
  <2>2. LineInv'
    BY <1>17
    DEF IInv, TimeInv, LineInv, InSendLoop, CarryOut, TakeFirst,
        FirstOnTheLine, OnTheLine, Reply
  <2>3. DoubtInv'
    BY <1>17
    DEF IInv, LineInv, DoubtInv, CarryOut, TakeFirst, FirstOnTheLine,
        OnTheLine, Reply
  <2> QED
    BY <1>s, <2>1, <2>2, <2>3 DEF IInv
<1>18. CASE StraySettles
  <2>1. TimeInv'
    BY <1>18, TimingAssumption
    DEF IInv, TimeInv, InSendLoop, TypeOK, LoopType, StraySettles
  <2>2. LineInv'
    BY <1>18 DEF IInv, TimeInv, LineInv, InSendLoop, StraySettles
  <2>3. DoubtInv'
    BY <1>18 DEF IInv, LineInv, DoubtInv, StraySettles
  <2> QED
    BY <1>s, <2>1, <2>2, <2>3 DEF IInv
<1>19. CASE Tick
  <2>1. TimeInv'
    BY <1>19, TimingAssumption
    DEF IInv, TimeInv, InSendLoop, TypeOK, LoopType, Tick, UpToInterval
  <2>2. LineInv'
    BY <1>19 DEF IInv, TimeInv, LineInv, InSendLoop, Tick, UpToInterval
  <2>3. DoubtInv'
    BY <1>19 DEF IInv, LineInv, DoubtInv, Tick, UpToInterval
  <2> QED
    BY <1>s, <2>1, <2>2, <2>3 DEF IInv
<1>20. CASE UNCHANGED vars
  <2>1. TimeInv'
    BY <1>20, TimingAssumption
    DEF IInv, TimeInv, InSendLoop, TypeOK, LoopType, vars
  <2>2. LineInv'
    BY <1>20 DEF IInv, TimeInv, LineInv, InSendLoop, vars
  <2>3. DoubtInv'
    BY <1>20 DEF IInv, LineInv, DoubtInv, vars
  <2> QED
    BY <1>s, <2>1, <2>2, <2>3 DEF IInv
<1> QED
  BY <1>1, <1>2, <1>3, <1>4, <1>5, <1>6, <1>7, <1>8, <1>9, <1>10, <1>11,
     <1>12, <1>13, <1>14, <1>15, <1>16, <1>17, <1>18, <1>19, <1>20
  DEF Next, Executor, Failures

\* The inductive invariant holds in every reachable state.
LEMMA InvHolds == Spec => []IInv
BY TypeInit, TypeNext, InvInit, InvNext, PTL DEF Spec

\* Unless the outcome of a write is unknown, the vehicle carries out the
\* command last_sent_command and /agv/current_command tell, in every state
\* outside the wait for an echo.
THEOREM BelievedIsRealHolds == Spec => []BelievedIsReal
<1>1. IInv => BelievedIsReal
  BY DEF IInv, LineInv, DoubtInv, BelievedIsReal
<1> QED
  BY <1>1, InvHolds, PTL

\* The guard on next_retry_time never holds a command back, for any
\* reconnect_interval_sec: the retry after the sleep outlasts it.
THEOREM RetryGuardIsDeadHolds == Spec => []RetryGuardIsDead
<1>1. IInv => RetryGuardIsDead
  BY DEF IInv, TimeInv, RetryGuardIsDead
<1> QED
  BY <1>1, InvHolds, PTL

\* The bridge changes mode only behind an acknowledged stop or after both
\* attempts to send stop made for this very switch have failed.
THEOREM SwitchOnlyStoppedHolds == Spec => SwitchOnlyStopped
<1> USE DEF inputVars, modeVars, cmdVars, loopVars, lineVars, worldVars, bounds
<1> DEFINE Guarded ==
      mode' # mode /\ pc' # "down" => last_sent_command = "stop" \/ stopFailures = 2
<1>1. IInv /\ [Next]_vars => [Guarded]_vars
  <2> SUFFICES ASSUME IInv, Next PROVE Guarded
    OBVIOUS
  <2>1. CASE SwitchMode
    BY <2>1 DEF IInv, SwitchInv, SwitchMode
  <2>2. CASE \/ OnTimer \/ SelectCommand \/ Connect \/ WriteRequest
            \/ Acknowledged \/ ReplyFails \/ Retry \/ Destroyed
    BY <2>2
    DEF OnTimer, SelectCommand, Connect, WriteRequest, Acknowledged,
        ReplyFails, AttemptFails, Retry, Destroyed, Die
  <2>3. CASE Callbacks \/ Inputs \/ CarryOut \/ StraySettles \/ Tick
    BY <2>3
    DEF Callbacks, OnModeMsg, OnCmd, Inputs, RequestMode, Publish,
        SourceDies, CarryOut, StraySettles, Tick
  <2>4. CASE Failures
    BY <2>4
    DEF Failures, LineFails, AttemptFails, Interrupt, Crash, Die, Restart,
        VehicleFault
  <2> QED
    BY <2>1, <2>2, <2>3, <2>4 DEF Next, Executor
<1> QED
  BY <1>1, InvHolds, PTL DEF Spec, SwitchOnlyStopped
=============================================================================
