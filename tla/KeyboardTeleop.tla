--------------------------- MODULE KeyboardTeleop ---------------------------
(***************************************************************************)
(* The node keyboard_teleop (agv_control/keyboard_teleop.py): a timer reads*)
(* at most one key, turns it into a twist and publishes that twist again   *)
(* and again until the deadman timeout.                                    *)
(*                                                                         *)
(* _read_key asks select whether the terminal has something to read, but   *)
(* sys.stdin.read(1) reads through a text buffer: the first call takes all *)
(* that the terminal holds, and later calls are served from that buffer    *)
(* although select only looks at the terminal.                             *)
(***************************************************************************)
EXTENDS Naturals, Sequences

CONSTANTS
  Keys,           \* the keys the operator uses
  DeadmanTimeout, \* deadman_timeout_sec, in ticks
  MaxPresses      \* bound on the keys pressed

MotionKeys == {"w", "s", "a", "d"}
StopKeys == {"x", "space"}
NoKey == "no key"

ASSUME KeysAssumption == NoKey \notin Keys
ASSUME BoundAssumption == DeadmanTimeout \in Nat /\ MaxPresses \in Nat

VARIABLES
  running,        \* "spins", "quit" by q or "interrupted" by Ctrl-C
  terminal,       \* the keys select can see
  textBuffer,     \* the keys sys.stdin has taken from the terminal
  active_twist,   \* "zero" or the motion key that set it
  zero_published,
  sinceKey,       \* ticks since last_key_time, up to DeadmanTimeout + 1
  published,      \* the last twist published
  operator,       \* somebody is at the keyboard
  pressed, read   \* the keys pressed and the keys read (history)

node == <<running, active_twist, zero_published, sinceKey, published>>
vars == <<node, terminal, textBuffer, operator, pressed, read>>

Twists == {"zero"} \union MotionKeys

Init ==
  /\ running = "spins"
  /\ terminal = <<>>
  /\ textBuffer = <<>>
  /\ active_twist = "zero"
  /\ zero_published = FALSE
  /\ sinceKey = 0
  /\ published = "zero"
  /\ operator = TRUE
  /\ pressed = <<>>
  /\ read = <<>>

-----------------------------------------------------------------------------
(* The operator                                                            *)

Press(k) ==
  /\ operator
  /\ Len(pressed) < MaxPresses
  /\ terminal' = Append(terminal, k)
  /\ pressed' = Append(pressed, k)
  /\ UNCHANGED <<node, textBuffer, operator, read>>

LetGo ==
  /\ operator
  /\ operator' = FALSE
  /\ UNCHANGED <<node, terminal, textBuffer, pressed, read>>

-----------------------------------------------------------------------------
(* The timer                                                               *)

\* _read_key: key is what it returns.
NothingToRead == terminal = <<>> /\ UNCHANGED <<terminal, textBuffer, read>>

\* Faulty variant: the text buffer is overtaken by the terminal.
ReadKeyUnbuffered(key) ==
  /\ terminal # <<>>
  /\ key = Head(terminal)
  /\ terminal' = <<>>
  /\ textBuffer' = textBuffer \o Tail(terminal)
  /\ read' = Append(read, key)

ReadKey(key) ==
  /\ terminal # <<>>
  /\ \/ /\ textBuffer # <<>>
        /\ key = Head(textBuffer)
        /\ textBuffer' = Tail(textBuffer)
        /\ UNCHANGED terminal
     \/ /\ textBuffer = <<>>
        /\ key = Head(terminal)
        /\ textBuffer' = Tail(terminal)
        /\ terminal' = <<>>
  /\ read' = Append(read, key)

\* Faulty variant: a key does not forget that zero was published.
OnMotionKeyForgetful(key) ==
  /\ key \in MotionKeys
  /\ active_twist' = key
  /\ published' = key
  /\ UNCHANGED <<running, zero_published>>

OnMotionKey(key) ==
  /\ key \in MotionKeys
  /\ active_twist' = key
  /\ zero_published' = FALSE
  /\ published' = key
  /\ UNCHANGED running

OnStopKey(key) ==
  /\ key \in StopKeys
  /\ active_twist' = "zero"
  /\ zero_published' = TRUE
  /\ published' = "zero"
  /\ UNCHANGED running

\* Faulty variant: a key without a meaning becomes the twist.
OnOtherKeyTaken(key) ==
  /\ key \notin MotionKeys \union StopKeys \union {"q"}
  /\ zero_published' = FALSE
  /\ active_twist' = key
  /\ published' = key
  /\ UNCHANGED running

\* A key without a meaning keeps the twist going.
OnOtherKey(key) ==
  /\ key \notin MotionKeys \union StopKeys \union {"q"}
  /\ zero_published' = FALSE
  /\ published' = active_twist
  /\ UNCHANGED <<running, active_twist>>

\* q raises KeyboardInterrupt: main publishes a zero twist and ends.
OnQuitKey(key) ==
  /\ key = "q"
  /\ running' = "quit"
  /\ zero_published' = FALSE
  /\ published' = "zero"
  /\ UNCHANGED active_twist

OnTimerWithKey ==
  /\ running = "spins"
  /\ \E key \in Keys :
       /\ ReadKey(key)
       /\ \/ OnMotionKey(key)
          \/ OnStopKey(key)
          \/ OnOtherKey(key)
          \/ OnQuitKey(key)
  /\ sinceKey' = 0
  /\ UNCHANGED <<operator, pressed>>

\* Faulty variant: publishing the twist again counts as a key.
OnTimerRepeatRefreshing ==
  /\ running = "spins"
  /\ NothingToRead
  /\ sinceKey <= DeadmanTimeout
  /\ published' = active_twist
  /\ sinceKey' = 0
  /\ UNCHANGED <<running, active_twist, zero_published, operator, pressed>>

OnTimerRepeat ==
  /\ running = "spins"
  /\ NothingToRead
  /\ sinceKey <= DeadmanTimeout
  /\ published' = active_twist
  /\ UNCHANGED <<running, active_twist, zero_published, sinceKey, operator,
                 pressed>>

\* The deadman: zero is published once.
OnTimerDeadman ==
  /\ running = "spins"
  /\ NothingToRead
  /\ sinceKey > DeadmanTimeout
  /\ ~zero_published
  /\ active_twist' = "zero"
  /\ published' = "zero"
  /\ zero_published' = TRUE
  /\ UNCHANGED <<running, sinceKey, operator, pressed>>

\* Ctrl-C: rclpy has shut its context down when main publishes the zero twist,
\* which may therefore not leave the node.
Interrupt ==
  /\ running = "spins"
  /\ running' = "interrupted"
  /\ published' \in {published, "zero"}
  /\ UNCHANGED <<active_twist, zero_published, sinceKey, terminal, textBuffer,
                 operator, pressed, read>>

Tick ==
  /\ sinceKey' = IF sinceKey > DeadmanTimeout THEN sinceKey ELSE sinceKey + 1
  /\ UNCHANGED <<running, active_twist, zero_published, published, terminal,
                 textBuffer, operator, pressed, read>>

OnTimer == OnTimerWithKey \/ OnTimerRepeat \/ OnTimerDeadman

Next == OnTimer \/ Interrupt \/ Tick \/ LetGo \/ \E k \in Keys : Press(k)

\* The timer fires again and time passes; nobody has to press a key or leave.
Fairness == WF_vars(OnTimer) /\ WF_vars(Tick)

Spec == Init /\ [][Next]_vars /\ Fairness

-----------------------------------------------------------------------------
\* The type of every variable.
TypeOK ==
  /\ running \in {"spins", "quit", "interrupted"}
  /\ zero_published \in BOOLEAN /\ operator \in BOOLEAN
  /\ terminal \in Seq(Keys) /\ textBuffer \in Seq(Keys)
  /\ active_twist \in Twists /\ published \in Twists
  /\ sinceKey \in 0 .. DeadmanTimeout + 1
  /\ pressed \in Seq(Keys) /\ read \in Seq(Keys)

\* No key is lost, repeated or overtaken on its way through the terminal and
\* the text buffer, however the presses and the timer interleave.
KeysInOrder == read \o textBuffer \o terminal = pressed

\* A motion twist last published is the one the node repeats, and the deadman
\* may still end it.
MotionIsWatched ==
  running = "spins" /\ published # "zero"
    => ~zero_published /\ published = active_twist

\* Once the operator has gone, zero is the last twist published for good, even
\* with keys left over in the text buffer, unless Ctrl-C ended the node.
DeadmanStops ==
  ~operator ~> [](published = "zero" \/ running = "interrupted")

LastPressed == IF pressed = <<>> THEN NoKey ELSE pressed[Len(pressed)]

\* A stop key that no other key follows leads to a zero twist: it is read, or
\* the deadman replaces it.
StopKeyStops ==
  LastPressed \in StopKeys
    ~> \/ published = "zero"
       \/ LastPressed \notin StopKeys
       \/ running = "interrupted"

\* The stop keys as documented: every stop key pressed is read.
StopKeyIsRead ==
  \A i \in 1 .. MaxPresses :
    i \in DOMAIN pressed /\ pressed[i] \in StopKeys
      ~> i \in DOMAIN read \/ running # "spins"
=============================================================================
