----------------------------- MODULE AgvBridge -----------------------------
(***************************************************************************)
(* The node agv_bridge (agv_control/agv_bridge.py): it turns the velocity  *)
(* commands of two sources into one of five discrete commands and writes   *)
(* them into a register of the vehicle over Modbus TCP.  A single-threaded *)
(* executor runs every callback, so a blocking write (connect, settle,     *)
(* wait for the echo, back off, retry) delays the messages, the timer and  *)
(* the command watchdog.  pc is the place where that thread stands.        *)
(*                                                                         *)
(* The vehicle (agv), the connection to it and the publishers are external *)
(* and modelled from how the node uses them.                               *)
(***************************************************************************)
EXTENDS Integers, Sequences, FiniteSets

CONSTANTS
  Topics,           \* the velocity topics somebody publishes on
  Publishes,        \* Publishes[t]: the twists <<linear, angular>> sent on t
  Mortal,           \* the topics whose publisher may die
  ModeRequests,     \* what is published on /agv/control_mode
  InitialMode,      \* parameter initial_mode, validated
  LinearDeadband, AngularDeadband,
  CommandTimeout,   \* command_timeout_sec, in ticks
  ReconnectInterval,\* reconnect_interval_sec, in ticks
  QDepth,           \* depth of a subscription (10 in the code)
  MaxFaults,        \* bound on the failures of the network and the vehicle
  MaxStops,         \* bound on the times the node is killed or interrupted
  AcksMayBeLost     \* whether a command may be carried out but not echoed

Modes == {"nav", "teleop"}
Commands == {"forward", "backward", "left", "right", "stop"}
NoCmd == "none"       \* no request on a connection, no echo received
Refusal == "exception"\* a Modbus exception or any reply that is not the echo
NoStamp == -1         \* nav_stamp or teleop_stamp is None
Expired == CommandTimeout + 1
AllTopics == {"/cmd_vel_nav", "/cmd_vel", "/cmd_vel_teleop"}
Twists == Int \X Int

ASSUME TopicsAssumption == Topics \subseteq AllTopics
ASSUME PublishesAssumption == Publishes \in [Topics -> SUBSET Twists]
ASSUME MortalAssumption == Mortal \subseteq Topics
ASSUME ModeAssumption == InitialMode \in Modes
ASSUME ModeRequestsAssumption == NoCmd \notin ModeRequests
ASSUME TimingAssumption ==
  /\ CommandTimeout \in Nat
  /\ ReconnectInterval \in Nat
  /\ QDepth \in Nat \ {0}
ASSUME DeadbandAssumption ==
  /\ LinearDeadband \in Nat \ {0}
  /\ AngularDeadband \in Nat \ {0}
ASSUME BoundsAssumption ==
  /\ MaxFaults \in Nat
  /\ MaxStops \in Nat
  /\ AcksMayBeLost \in BOOLEAN

VARIABLES
  pc,          \* where the executor's thread stands
  queue,       \* queue[t]: twists received on t and not yet handed to the node
  modeQueue,   \* the mode request not yet handed to the node (depth 1)
  alive,       \* alive[t]: the publisher of t still runs
  mode, pending_mode,
  slot,        \* slot[m]: the twist kept for mode m and the age of its stamp
  last_sent_command,
  nextRetryIn, \* ticks until next_retry_time, 0 once it has passed
  pubMode, pubCommand, \* the last values published by the node
  sending,     \* the command _send_command was called with
  ret,         \* where _send_command returns to
  attempt,     \* the retry loop's variable
  stopFailures,\* attempts to send stop in front of a switch that failed (history)
  elapsed,     \* ticks since now was read in _send_command
  slept,       \* ticks spent in the sleep between the two attempts
  conn,        \* client.sock is not None
  prior, wire, \* on this connection: an abandoned request, the current one
  ack,         \* the reply that arrived on this connection
  stray,       \* requests still on their way on connections already closed
  agv,         \* what the vehicle carries out
  doubt,       \* the outcome of a write, or of an exit, is unknown (history)
  faults, stops\* counters for the bounds

inputVars == <<queue, modeQueue, alive>>
modeVars  == <<mode, pending_mode, pubMode, stopFailures>>
cmdVars   == <<last_sent_command, pubCommand>>
loopVars  == <<sending, ret, attempt, slept>>
lineVars  == <<conn, prior, wire, ack>>
worldVars == <<stray, agv, doubt>>
bounds    == <<faults, stops>>
vars == <<pc, slot, nextRetryIn, elapsed, inputVars, modeVars, cmdVars,
          loopVars, lineVars, worldVars, bounds>>

-----------------------------------------------------------------------------
(* Choosing a command                                                      *)

SlotOf(t) == IF t = "/cmd_vel_teleop" THEN "teleop" ELSE "nav"

Magnitude(x) == IF x < 0 THEN -x ELSE x

\* The discrete command for a twist that is recent enough.
CommandFor(twist) ==
  LET lin == twist[1]
      ang == twist[2]
      straight == /\ Magnitude(lin) >= Magnitude(ang)
                  /\ Magnitude(lin) >= LinearDeadband
  IN CASE straight /\ lin > 0               -> "forward"
       [] straight /\ lin < 0               -> "backward"
       [] ~straight /\ ang >= AngularDeadband  -> "left"
       [] ~straight /\ ang <= -AngularDeadband -> "right"
       [] OTHER                             -> "stop"

\* Faulty variant: the age of the stamp is not looked at.
SelectedStale(m) ==
  IF slot[m].age = NoStamp THEN "stop" ELSE CommandFor(slot[m].twist)

Selected(m) ==
  IF slot[m].age = NoStamp \/ slot[m].age > CommandTimeout
  THEN "stop" ELSE CommandFor(slot[m].twist)

-----------------------------------------------------------------------------
(* The process                                                             *)

EmptySlot == [twist |-> <<0, 0>>, age |-> NoStamp]

Init ==
  /\ queue = [t \in Topics |-> <<>>]
  /\ modeQueue = NoCmd
  /\ mode = InitialMode
  /\ pending_mode = InitialMode
  /\ slot = [m \in Modes |-> EmptySlot]
  /\ last_sent_command = "stop"
  /\ nextRetryIn = 0
  /\ sending = "stop"
  /\ ret = "idle"
  /\ attempt = 0
  /\ stopFailures = 0
  /\ elapsed = 0
  /\ slept = 0
  /\ conn = FALSE
  /\ prior = NoCmd
  /\ wire = NoCmd
  /\ ack = NoCmd
  /\ pc = "idle"
  /\ alive = [t \in Topics |-> TRUE]
  /\ pubMode = InitialMode
  /\ pubCommand = "stop"
  /\ stray = {}
  /\ agv = "stop"
  /\ doubt = FALSE
  /\ faults = 0
  /\ stops = 0

-----------------------------------------------------------------------------
(* The publishers                                                          *)

\* KEEP_LAST: a full queue loses its oldest message.
Enqueue(q, msg) == Append(IF Len(q) < QDepth THEN q ELSE Tail(q), msg)

Publish(t) ==
  /\ pc # "down"
  /\ alive[t]
  /\ \E twist \in Publishes[t] :
       queue' = [queue EXCEPT ![t] = Enqueue(@, twist)]
  /\ UNCHANGED <<pc, slot, nextRetryIn, elapsed, modeQueue, alive, modeVars,
                 cmdVars, loopVars, lineVars, worldVars, bounds>>

SourceDies(t) ==
  /\ t \in Mortal
  /\ alive[t]
  /\ alive' = [alive EXCEPT ![t] = FALSE]
  /\ UNCHANGED <<pc, slot, nextRetryIn, elapsed, queue, modeQueue, modeVars,
                 cmdVars, loopVars, lineVars, worldVars, bounds>>

RequestMode ==
  /\ pc # "down"
  /\ modeQueue' \in ModeRequests
  /\ UNCHANGED <<pc, slot, nextRetryIn, elapsed, queue, alive, modeVars,
                 cmdVars, loopVars, lineVars, worldVars, bounds>>

-----------------------------------------------------------------------------
(* Callbacks of the subscriptions                                          *)

\* _on_nav_cmd and _on_teleop_cmd: the stamp is the time of the callback.
OnCmd(t) ==
  /\ pc = "idle"
  /\ queue[t] # <<>>
  /\ slot' = [slot EXCEPT ![SlotOf(t)] = [twist |-> Head(queue[t]), age |-> 0]]
  /\ queue' = [queue EXCEPT ![t] = Tail(@)]
  /\ UNCHANGED <<pc, nextRetryIn, elapsed, modeQueue, alive, modeVars,
                 cmdVars, loopVars, lineVars, worldVars, bounds>>

\* Faulty variant: any request becomes the pending mode.
OnAnyModeMsg ==
  /\ pc = "idle"
  /\ modeQueue # NoCmd
  /\ pending_mode' = modeQueue
  /\ modeQueue' = NoCmd
  /\ UNCHANGED <<pc, slot, nextRetryIn, elapsed, queue, alive, mode, pubMode,
                 stopFailures, cmdVars, loopVars, lineVars, worldVars, bounds>>

OnModeMsg ==
  /\ pc = "idle"
  /\ modeQueue # NoCmd
  /\ pending_mode' = IF modeQueue \in Modes THEN modeQueue ELSE pending_mode
  /\ modeQueue' = NoCmd
  /\ UNCHANGED <<pc, slot, nextRetryIn, elapsed, queue, alive, mode, pubMode,
                 stopFailures, cmdVars, loopVars, lineVars, worldVars, bounds>>

-----------------------------------------------------------------------------
(* The timer callback, _on_timer                                           *)

\* The first statement of client.send_command: connect() returns at once on
\* an open connection.
Attempting(open) == IF open THEN "write" ELSE "connect"

\* Call _send_command(cmd) and continue at r when it returns.
CallSend(cmd, r) ==
  IF nextRetryIn > 0
  THEN /\ pc' = r
       /\ UNCHANGED <<loopVars, elapsed>>
  ELSE /\ pc' = Attempting(conn)
       /\ sending' = cmd
       /\ ret' = r
       /\ attempt' = 0
       /\ elapsed' = 0
       /\ slept' = 0

\* Faulty variant: the mode is switched without sending stop first.
OnTimerNoStop ==
  /\ pc = "idle"
  /\ pc' = IF pending_mode # mode THEN "switch" ELSE "select"
  /\ UNCHANGED <<slot, nextRetryIn, elapsed, loopVars, inputVars, modeVars,
                 cmdVars, lineVars, worldVars, bounds>>

\* Faulty variant: the mode is switched only once the vehicle has been stopped
\* by the source that controls it.
OnTimerWhenStopped ==
  /\ pc = "idle"
  /\ pc' = IF pending_mode # mode /\ last_sent_command = "stop"
           THEN "switch" ELSE "select"
  /\ UNCHANGED <<slot, nextRetryIn, elapsed, loopVars, inputVars, modeVars,
                 cmdVars, lineVars, worldVars, bounds>>

OnTimer ==
  /\ pc = "idle"
  /\ \/ /\ pending_mode # mode
        /\ last_sent_command # "stop"
        /\ CallSend("stop", "switch")
     \/ /\ pending_mode # mode
        /\ last_sent_command = "stop"
        /\ pc' = "switch"
        /\ UNCHANGED <<loopVars, elapsed>>
     \/ /\ pending_mode = mode
        /\ pc' = "select"
        /\ UNCHANGED <<loopVars, elapsed>>
  /\ UNCHANGED <<slot, nextRetryIn, inputVars, modeVars, cmdVars, lineVars,
                 worldVars, bounds>>

SwitchMode ==
  /\ pc = "switch"
  /\ mode' = pending_mode
  /\ pubMode' = pending_mode
  /\ stopFailures' = 0
  /\ pc' = "select"
  /\ UNCHANGED <<slot, nextRetryIn, elapsed, inputVars, pending_mode, cmdVars,
                 loopVars, lineVars, worldVars, bounds>>

SelectCommand ==
  /\ pc = "select"
  /\ IF Selected(mode) # last_sent_command
     THEN CallSend(Selected(mode), "idle")
     ELSE pc' = "idle" /\ UNCHANGED <<loopVars, elapsed>>
  /\ UNCHANGED <<slot, nextRetryIn, inputVars, modeVars, cmdVars, lineVars,
                 worldVars, bounds>>

-----------------------------------------------------------------------------
(* One attempt of _send_command                                            *)

\* The locals of _send_command are gone once it has returned.
ForgetLoop ==
  /\ sending' = "stop"
  /\ ret' = "idle"
  /\ attempt' = 0
  /\ slept' = 0
  /\ elapsed' = 0

\* Requests written on this connection and not yet taken by the vehicle; a
\* closed connection leaves them to the network.
OnTheLine == {prior, wire} \ {NoCmd}

\* The process is gone, its socket is closed: what it kept is what __init__
\* gives the next one.
Die ==
  /\ queue' = [t \in Topics |-> <<>>]
  /\ modeQueue' = NoCmd
  /\ mode' = InitialMode
  /\ pending_mode' = InitialMode
  /\ stopFailures' = 0
  /\ slot' = [m \in Modes |-> EmptySlot]
  /\ last_sent_command' = "stop"
  /\ nextRetryIn' = 0
  /\ sending' = "stop"
  /\ ret' = "idle"
  /\ attempt' = 0
  /\ elapsed' = 0
  /\ slept' = 0
  /\ conn' = FALSE
  /\ prior' = NoCmd
  /\ wire' = NoCmd
  /\ ack' = NoCmd
  /\ pc' = "down"
  /\ stray' = stray \union OnTheLine
  /\ UNCHANGED <<alive, pubMode, pubCommand, agv>>

\* connect(): the settle delay is part of it.
Connect ==
  /\ pc = "connect"
  /\ conn' = TRUE
  /\ pc' = "write"
  /\ UNCHANGED <<slot, nextRetryIn, elapsed, inputVars, modeVars, cmdVars,
                 loopVars, prior, wire, ack, worldVars, bounds>>

\* _flush_socket drops the replies that have arrived; the request is written.
WriteRequest ==
  /\ pc = "write"
  /\ wire' = sending
  /\ ack' = NoCmd
  /\ doubt' = (stray # {} \/ prior # NoCmd)
  /\ pc' = "await"
  /\ UNCHANGED <<slot, nextRetryIn, elapsed, inputVars, modeVars, cmdVars,
                 loopVars, conn, prior, stray, agv, bounds>>

\* Faulty variant: the reply is not compared with the request.
AcknowledgedByAnyReply ==
  /\ pc = "await"
  /\ ack # NoCmd
  /\ ret # "down"
  /\ last_sent_command' = sending
  /\ pubCommand' = sending
  /\ ack' = NoCmd
  /\ pc' = ret
  /\ ForgetLoop
  /\ UNCHANGED <<slot, nextRetryIn, inputVars, modeVars, conn, prior, wire,
                 worldVars, bounds>>

\* The echo of the request: remember and publish the command.
Acknowledged ==
  /\ pc = "await"
  /\ ack = sending
  /\ ret # "down"
  /\ last_sent_command' = sending
  /\ pubCommand' = sending
  /\ ack' = NoCmd
  /\ pc' = ret
  /\ ForgetLoop
  /\ UNCHANGED <<slot, nextRetryIn, inputVars, modeVars, conn, prior, wire,
                 worldVars, bounds>>

\* Faulty variant: the interval counts from the end of the second attempt.
RetryDelayFromEnd == ReconnectInterval

\* next_retry_time counts from the entry of _send_command.
RetryDelay == IF elapsed >= ReconnectInterval
              THEN 0 ELSE ReconnectInterval - elapsed

\* An exception in client.send_command: close, then back off or give up.
AttemptFails ==
  /\ ret # "down"
  /\ conn' = FALSE
  /\ prior' = NoCmd
  /\ wire' = NoCmd
  /\ ack' = NoCmd
  /\ stray' = stray \union OnTheLine
  /\ doubt' = (doubt \/ pc = "await")
  /\ stopFailures' = IF ret = "switch" THEN stopFailures + 1 ELSE stopFailures
  /\ \/ /\ attempt = 0
        /\ pc' = "backoff"
        /\ UNCHANGED <<loopVars, elapsed, nextRetryIn>>
     \/ /\ attempt = 1
        /\ pc' = ret
        /\ nextRetryIn' = RetryDelay
        /\ ForgetLoop
  /\ UNCHANGED <<slot, inputVars, mode, pending_mode, pubMode, cmdVars, agv>>

Fault == faults < MaxFaults /\ faults' = faults + 1

\* create_connection or sendall raises.
LineFails ==
  /\ pc \in {"connect", "write"}
  /\ Fault
  /\ AttemptFails
  /\ UNCHANGED stops

\* Faulty variant: the wait for the reply has no deadline.
NoEchoBlocking ==
  \/ ack \notin {NoCmd, sending} /\ UNCHANGED faults
  \/ ack = NoCmd /\ OnTheLine # {} /\ Fault

\* No usable reply: a refusal or a reply to another request, no reply left to
\* come before the deadline, or a slow vehicle or a peer that closes.
NoEcho ==
  \/ ack \notin {NoCmd, sending} /\ UNCHANGED faults
  \/ ack = NoCmd /\ OnTheLine = {} /\ UNCHANGED faults
  \/ ack = NoCmd /\ OnTheLine # {} /\ Fault

ReplyFails ==
  /\ pc = "await"
  /\ NoEcho
  /\ AttemptFails
  /\ UNCHANGED stops

\* The end of the sleep between the attempts.
Retry ==
  /\ pc = "backoff"
  /\ slept >= ReconnectInterval
  /\ attempt' = 1
  /\ pc' = Attempting(conn)
  /\ UNCHANGED <<slot, nextRetryIn, elapsed, inputVars, modeVars, cmdVars,
                 sending, ret, slept, lineVars, worldVars, bounds>>

-----------------------------------------------------------------------------
(* The end of the process and a new one                                    *)

\* Ctrl-C, wherever the thread stands: main calls destroy_node, which makes
\* one attempt to send stop unless it believes stop was the last command.
\* A request under way stays ahead of it on the same connection.
Interrupt ==
  /\ pc # "down"
  /\ ret # "down"
  /\ stops < MaxStops
  /\ stops' = stops + 1
  /\ doubt' = (doubt \/ pc = "await")
  /\ \/ /\ last_sent_command = "stop"
        /\ Die
     \/ /\ last_sent_command # "stop"
        /\ pc' = Attempting(conn)
        /\ sending' = "stop"
        /\ ret' = "down"
        /\ attempt' = 0
        /\ slept' = 0
        /\ elapsed' = 0
        /\ prior' = wire
        /\ wire' = NoCmd
        /\ UNCHANGED <<slot, nextRetryIn, inputVars, modeVars, cmdVars, conn,
                       ack, stray, agv>>
  /\ UNCHANGED faults

\* The attempt of destroy_node ends, well or not, and the process with it.
Destroyed ==
  /\ ret = "down"
  /\ \/ pc \in {"connect", "write"} /\ Fault /\ doubt' = TRUE
     \/ pc = "await" /\ ack = sending /\ UNCHANGED <<doubt, faults>>
     \/ pc = "await" /\ NoEcho /\ doubt' = TRUE
  /\ Die
  /\ UNCHANGED stops

\* The process is killed, or its computer loses power.
Crash ==
  /\ pc # "down"
  /\ stops < MaxStops
  /\ stops' = stops + 1
  /\ doubt' = (doubt \/ pc = "await" \/ last_sent_command # "stop")
  /\ Die
  /\ UNCHANGED faults

\* A new process: it takes stop for the last command sent, and publishes it.
Restart ==
  /\ pc = "down"
  /\ pc' = "idle"
  /\ pubMode' = InitialMode
  /\ pubCommand' = "stop"
  /\ UNCHANGED <<slot, nextRetryIn, elapsed, inputVars, mode, pending_mode,
                 stopFailures, last_sent_command, loopVars, lineVars, worldVars, bounds>>

-----------------------------------------------------------------------------
(* The vehicle and the network (external)                                  *)

\* Requests of one connection are taken in the order they were written.
FirstOnTheLine == IF prior # NoCmd THEN prior ELSE wire

TakeFirst ==
  /\ OnTheLine # {}
  /\ prior' = NoCmd
  /\ wire' = IF prior # NoCmd THEN wire ELSE NoCmd

\* The node reads the first reply that arrives.
Reply(r) == ack' = IF ack = NoCmd THEN r ELSE ack

CarryOut ==
  /\ TakeFirst
  /\ agv' = FirstOnTheLine
  /\ Reply(FirstOnTheLine)
  /\ UNCHANGED <<pc, slot, nextRetryIn, elapsed, inputVars, modeVars, cmdVars,
                 loopVars, conn, stray, doubt, bounds>>

\* Carried out without an echo, refused, or lost on the way.
VehicleFault ==
  /\ TakeFirst
  /\ Fault
  /\ \/ AcksMayBeLost /\ agv' = FirstOnTheLine /\ UNCHANGED ack
     \/ UNCHANGED agv /\ Reply(Refusal)
     \/ UNCHANGED <<agv, ack>>
  /\ UNCHANGED <<pc, slot, nextRetryIn, elapsed, inputVars, modeVars, cmdVars,
                 loopVars, conn, stray, doubt, stops>>

\* A request abandoned on a closed connection arrives after all, or never.
StraySettles ==
  /\ \E c \in stray :
       /\ stray' = stray \ {c}
       /\ agv' \in {agv, c}
  /\ UNCHANGED <<pc, slot, nextRetryIn, elapsed, inputVars, modeVars, cmdVars,
                 loopVars, lineVars, doubt, bounds>>

-----------------------------------------------------------------------------
(* Time                                                                    *)

Older(age) == IF age = NoStamp \/ age = Expired THEN age ELSE age + 1
UpToInterval(n) == IF n < ReconnectInterval THEN n + 1 ELSE n
InSendLoop == pc \in {"connect", "write", "await", "backoff"}

Tick ==
  /\ slot' = [m \in Modes |->
                [twist |-> slot[m].twist, age |-> Older(slot[m].age)]]
  /\ nextRetryIn' = IF nextRetryIn > 0 THEN nextRetryIn - 1 ELSE 0
  /\ elapsed' = IF InSendLoop THEN UpToInterval(elapsed) ELSE elapsed
  /\ slept' = IF pc = "backoff" THEN UpToInterval(slept) ELSE slept
  /\ UNCHANGED <<pc, inputVars, modeVars, cmdVars, sending, ret, attempt,
                 lineVars, worldVars, bounds>>

-----------------------------------------------------------------------------
Callbacks == OnModeMsg \/ \E t \in Topics : OnCmd(t)
Inputs == RequestMode \/ \E t \in Topics : Publish(t) \/ SourceDies(t)
Failures == LineFails \/ Interrupt \/ Crash \/ Restart \/ VehicleFault

\* What the thread does by itself once a callback or the timer is due.
Executor == OnTimer \/ SwitchMode \/ SelectCommand \/ Connect \/ WriteRequest
            \/ Acknowledged \/ ReplyFails \/ Retry \/ Destroyed

Next == Executor \/ Callbacks \/ Inputs \/ Failures \/ CarryOut
        \/ StraySettles \/ Tick

\* The thread goes on whenever it can: every wait has a timeout and the timer
\* fires again.  The vehicle takes a request that reached it, the network gets
\* rid of an abandoned one, and time passes.  Nothing obliges anybody to
\* publish, the network to fail, or a dead process to be started again.
Fairness == /\ WF_vars(Executor)
            /\ WF_vars(CarryOut)
            /\ WF_vars(StraySettles)
            /\ WF_vars(Tick)

Spec == Init /\ [][Next]_vars /\ Fairness

-----------------------------------------------------------------------------
PCs == {"idle", "switch", "select", "connect", "write", "await", "backoff",
        "down"}

InputType ==
  /\ queue \in [Topics -> Seq(Twists)]
  /\ modeQueue \in ModeRequests \union {NoCmd}
  /\ alive \in [Topics -> BOOLEAN]

NodeType ==
  /\ mode \in Modes /\ pending_mode \in Modes /\ pubMode \in Modes
  /\ slot \in [Modes -> [twist : Twists, age : NoStamp .. Expired]]
  /\ last_sent_command \in Commands /\ pubCommand \in Commands
  /\ nextRetryIn \in 0 .. ReconnectInterval

LoopType ==
  /\ pc \in PCs
  /\ sending \in Commands /\ ret \in {"idle", "switch", "down"}
  /\ attempt \in {0, 1} /\ stopFailures \in Nat
  /\ elapsed \in 0 .. ReconnectInterval /\ slept \in 0 .. ReconnectInterval

LineType ==
  /\ conn \in BOOLEAN
  /\ prior \in Commands \union {NoCmd} /\ wire \in Commands \union {NoCmd}
  /\ ack \in Commands \union {NoCmd, Refusal}
  /\ stray \subseteq Commands /\ agv \in Commands /\ doubt \in BOOLEAN

BoundType == faults \in 0 .. MaxFaults /\ stops \in 0 .. MaxStops

\* The type of every variable.
TypeOK == InputType /\ NodeType /\ LoopType /\ LineType /\ BoundType

\* Between the parts of the model that BelievedIsReal, RetryGuardIsDead and
\* SwitchOnlyStopped relate: what makes them inductive.
TimeInv ==
  /\ nextRetryIn = 0
  /\ InSendLoop => slept <= elapsed
  /\ InSendLoop /\ attempt = 1 => elapsed >= ReconnectInterval

LineInv ==
  /\ wire # NoCmd => pc = "await" /\ wire = sending
  /\ ret # "down" => prior = NoCmd /\ (wire # NoCmd => ack = NoCmd)
  /\ ret \in {"switch", "down"} => sending = "stop"
  /\ ret = "down" => InSendLoop
  /\ pc # "down" => pubCommand = last_sent_command
  /\ pc = "down" => last_sent_command = "stop"

SwitchInv ==
  /\ ret = "switch" =>
       InSendLoop /\ stopFailures = IF pc = "backoff" THEN 1 ELSE attempt
  /\ pc = "switch" => last_sent_command = "stop" \/ stopFailures = 2
  /\ pc # "switch" /\ ret = "idle" => stopFailures = 0

DoubtInv ==
  ~doubt =>
    /\ stray = {} /\ prior = NoCmd
    /\ pc # "await" => agv = last_sent_command
    /\ pc = "await" => \/ ack = NoCmd
                       \/ ack = Refusal /\ wire = NoCmd
                       \/ ack = sending /\ agv = sending /\ wire = NoCmd

IInv == TimeInv /\ LineInv /\ SwitchInv /\ DoubtInv

\* Unless the outcome of some write is unknown, the vehicle carries out the
\* command the node remembers (last_sent_command, which suppresses repeated
\* writes) and the one it published on /agv/current_command; a process that
\* has ended leaves the vehicle stopped.
BelievedIsReal ==
  ~doubt /\ pc # "await" =>
    /\ agv = last_sent_command
    /\ pc # "down" => pubCommand = last_sent_command

\* Whenever the timer fires next_retry_time has passed: it counts from before
\* the sleep between the attempts, so its guard in _send_command never holds
\* a command back and failing commands are retried at every timer tick.
RetryGuardIsDead == nextRetryIn = 0

\* _on_timer hands control to the other source only when the last command
\* acknowledged is stop, or when both attempts to send stop that it made for
\* this switch have failed. next_retry_time must have passed for that: a
\* _send_command that returned at once would let the source go unstopped.
SwitchOnlyStopped ==
  [][mode' # mode /\ pc' # "down" =>
       last_sent_command = "stop" \/ stopFailures = 2]_vars

Silent(m) == \A t \in Topics : SlotOf(t) = m => ~alive[t]

\* The command watchdog as it works: once the publishers of the active mode
\* are gone, the node comes to rest with stop as the last command acknowledged,
\* and the vehicle is stopped unless the outcome of some write is unknown.
WatchdogStops ==
  \A m \in Modes :
    <>[](pc # "down" /\ mode = m /\ Silent(m))
      => <>[](last_sent_command = "stop" /\ (doubt \/ agv = "stop"))

\* The command watchdog as documented: once the publishers of the active mode
\* are gone the vehicle comes to a stop.
WatchdogStopsVehicle ==
  \A m \in Modes :
    <>[](pc # "down" /\ mode = m /\ Silent(m)) => <>[](agv = "stop")

\* Every call of _send_command returns, whatever the network does: the timer
\* and the subscriptions are served again.
SendReturns == pc \notin {"idle", "down"} ~> pc \in {"idle", "down"}

\* A mode requested and not withdrawn is adopted, even if stop cannot be sent.
ModeAdopted ==
  \A m \in Modes :
    pending_mode = m ~> (mode = m \/ pending_mode # m \/ pc = "down")
=============================================================================
