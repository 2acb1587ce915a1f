------------------------ MODULE KeyboardTeleopProofs ------------------------
(* Proofs about KeyboardTeleop, for every set of keys, timeout and bound. *)
EXTENDS KeyboardTeleop, TLAPS, SequenceTheorems

-----------------------------------------------------------------------------
(* Moving the first element of one sequence to the end of another          *)

LEMMA HeadMoves ==
  ASSUME NEW S, NEW r \in Seq(S), NEW s \in Seq(S), s # <<>>
  PROVE  Append(r, Head(s)) \o Tail(s) = r \o s
<1>1. Head(s) \in S /\ Tail(s) \in Seq(S)
  BY HeadTailProperties
<1>2. Append(r, Head(s)) = r \o <<Head(s)>>
  BY <1>1, AppendIsConcat
<1>3. <<Head(s)>> \o Tail(s) = s
  BY <1>1, SMT
<1>4. (r \o <<Head(s)>>) \o Tail(s) = r \o (<<Head(s)>> \o Tail(s))
  <2>1. <<Head(s)>> \in Seq(S)
    BY <1>1
  <2> QED
    BY <1>1, <2>1, ConcatAssociative
<1> QED
  BY <1>2, <1>3, <1>4

-----------------------------------------------------------------------------
(* Types                                                                   *)

\* The type invariant holds initially.
LEMMA TypeInit == Init => TypeOK
<1> SUFFICES ASSUME Init PROVE TypeOK
  OBVIOUS
<1>1. <<>> \in Seq(Keys)
  OBVIOUS
<1>2. sinceKey \in 0 .. DeadmanTimeout + 1
  BY BoundAssumption DEF Init
<1> QED
  BY <1>1, <1>2 DEF Init, TypeOK, Twists

\* _read_key keeps the types of the buffers and returns a key.
LEMMA ReadKeyType ==
  ASSUME TypeOK, NEW key, ReadKey(key)
  PROVE  /\ key \in Keys
         /\ terminal' \in Seq(Keys) /\ textBuffer' \in Seq(Keys)
         /\ read' \in Seq(Keys)
<1>1. CASE textBuffer # <<>> /\ key = Head(textBuffer)
           /\ textBuffer' = Tail(textBuffer) /\ UNCHANGED terminal
  <2>1. key \in Keys /\ textBuffer' \in Seq(Keys)
    BY <1>1, HeadTailProperties DEF TypeOK
  <2> QED
    BY <1>1, <2>1 DEF TypeOK, ReadKey
<1>2. CASE key = Head(terminal) /\ textBuffer' = Tail(terminal)
           /\ terminal' = <<>>
  <2>1. key \in Keys /\ textBuffer' \in Seq(Keys)
    BY <1>2, HeadTailProperties DEF TypeOK, ReadKey
  <2> QED
    BY <1>2, <2>1 DEF TypeOK, ReadKey
<1> QED
  BY <1>1, <1>2 DEF ReadKey

\* Every step keeps the type invariant.
LEMMA TypeNext == TypeOK /\ [Next]_vars => TypeOK'
<1> SUFFICES ASSUME TypeOK, [Next]_vars PROVE TypeOK'
  OBVIOUS
<1>1. ASSUME NEW key \in Keys, ReadKey(key), sinceKey' = 0,
             UNCHANGED <<operator, pressed>>,
             \/ OnMotionKey(key) \/ OnStopKey(key)
             \/ OnOtherKey(key) \/ OnQuitKey(key)
      PROVE  TypeOK'
  <2>1. /\ terminal' \in Seq(Keys) /\ textBuffer' \in Seq(Keys)
        /\ read' \in Seq(Keys)
    BY <1>1, ReadKeyType
  <2>2. /\ active_twist' \in Twists /\ published' \in Twists
        /\ running' \in {"spins", "quit", "interrupted"}
        /\ zero_published' \in BOOLEAN
    BY <1>1 DEF TypeOK, OnMotionKey, OnStopKey, OnOtherKey, OnQuitKey, Twists
  <2> QED
    BY <1>1, <2>1, <2>2, BoundAssumption DEF TypeOK
<1>2. CASE OnTimerWithKey
  BY <1>1, <1>2 DEF OnTimerWithKey
<1>3. CASE OnTimerRepeat
  BY <1>3 DEF OnTimerRepeat, NothingToRead, TypeOK
<1>4. CASE OnTimerDeadman
  BY <1>4 DEF OnTimerDeadman, NothingToRead, TypeOK, Twists
<1>5. CASE Interrupt
  BY <1>5 DEF Interrupt, TypeOK, Twists
<1>6. CASE Tick
  BY <1>6, BoundAssumption DEF Tick, TypeOK
<1>7. CASE LetGo
  BY <1>7 DEF LetGo, node, TypeOK
<1>8. ASSUME NEW k \in Keys, Press(k) PROVE TypeOK'
  <2>1. terminal' \in Seq(Keys) /\ pressed' \in Seq(Keys)
    BY <1>8, AppendProperties DEF Press, TypeOK
  <2> QED
    BY <1>8, <2>1 DEF Press, node, TypeOK
<1>9. CASE UNCHANGED vars
  BY <1>9 DEF vars, node, TypeOK
<1> QED
  BY <1>2, <1>3, <1>4, <1>5, <1>6, <1>7, <1>8, <1>9 DEF Next, OnTimer

\* Every variable of the teleoperation node keeps its type.
THEOREM TypeCorrect == Spec => []TypeOK
BY TypeInit, TypeNext, PTL DEF Spec

-----------------------------------------------------------------------------
(* The order of the keys                                                   *)

\* _read_key takes the key that is next in the order of the presses.
LEMMA ReadKeepsOrder ==
  ASSUME TypeOK, KeysInOrder, NEW key, ReadKey(key), UNCHANGED pressed
  PROVE  KeysInOrder'
<1>1. CASE textBuffer # <<>> /\ key = Head(textBuffer)
           /\ textBuffer' = Tail(textBuffer) /\ UNCHANGED terminal
  <2>1. read' \o textBuffer' = read \o textBuffer
    BY <1>1, HeadMoves DEF TypeOK, ReadKey
  <2> QED
    BY <1>1, <2>1 DEF KeysInOrder
<1>2. CASE textBuffer = <<>> /\ key = Head(terminal)
           /\ textBuffer' = Tail(terminal) /\ terminal' = <<>>
  <2>1. read' \o textBuffer' = read \o terminal
    BY <1>2, HeadMoves DEF TypeOK, ReadKey
  <2>2. read \o terminal \in Seq(Keys)
    BY ConcatProperties DEF TypeOK
  <2>3. read' \o textBuffer' \o terminal' = read \o terminal
    BY <1>2, <2>1, <2>2, ConcatEmptySeq
  <2>4. read \o textBuffer = read
    BY <1>2, ConcatEmptySeq DEF TypeOK
  <2> QED
    BY <2>3, <2>4 DEF KeysInOrder
<1> QED
  BY <1>1, <1>2 DEF ReadKey

\* A key pressed is the last in every order.
LEMMA PressKeepsOrder ==
  ASSUME TypeOK, KeysInOrder, NEW k \in Keys, Press(k)
  PROVE  KeysInOrder'
<1> DEFINE passed == read \o textBuffer
<1>1. passed \in Seq(Keys) /\ <<k>> \in Seq(Keys)
  BY ConcatProperties DEF TypeOK
<1>2. terminal' = terminal \o <<k>> /\ pressed' = pressed \o <<k>>
  BY AppendIsConcat DEF Press, TypeOK
<1>3. passed \o (terminal \o <<k>>) = (passed \o terminal) \o <<k>>
  BY <1>1, ConcatAssociative DEF TypeOK
<1>4. UNCHANGED <<read, textBuffer>>
  BY DEF Press
<1> QED
  BY <1>2, <1>3, <1>4 DEF KeysInOrder

\* Every step keeps the order.
LEMMA OrderNext == TypeOK /\ KeysInOrder /\ [Next]_vars => KeysInOrder'
<1> SUFFICES ASSUME TypeOK, KeysInOrder, [Next]_vars PROVE KeysInOrder'
  OBVIOUS
<1>1. CASE OnTimerWithKey
  BY <1>1, ReadKeepsOrder DEF OnTimerWithKey
<1>2. CASE \E k \in Keys : Press(k)
  BY <1>2, PressKeepsOrder
<1>3. CASE OnTimerRepeat \/ OnTimerDeadman
  BY <1>3 DEF OnTimerRepeat, OnTimerDeadman, NothingToRead, KeysInOrder
<1>4. CASE Interrupt \/ Tick \/ LetGo \/ UNCHANGED vars
  BY <1>4 DEF Interrupt, Tick, LetGo, vars, KeysInOrder
<1> QED
  BY <1>1, <1>2, <1>3, <1>4 DEF Next, OnTimer

\* However presses and timer interleave, and however often the text buffer
\* empties the terminal, the keys read so far, those in the text buffer and
\* those in the terminal are the keys pressed, in that order.
THEOREM KeysInOrderHolds == Spec => []KeysInOrder
<1>1. Init => KeysInOrder
  BY DEF Init, KeysInOrder
<1> QED
  BY <1>1, OrderNext, TypeCorrect, PTL DEF Spec

-----------------------------------------------------------------------------
(* The deadman's flag                                                      *)

\* A flag that says zero was published is set only while the twist is zero.
FlagInv ==
  running = "spins" =>
    /\ zero_published => active_twist = "zero"
    /\ published = active_twist

\* Every step keeps the flag and the twist together.
LEMMA FlagNext == FlagInv /\ [Next]_vars => FlagInv'
<1> SUFFICES ASSUME FlagInv, [Next]_vars PROVE FlagInv'
  OBVIOUS
<1>1. CASE OnTimerWithKey
  BY <1>1 DEF OnTimerWithKey, OnMotionKey, OnStopKey, OnOtherKey, OnQuitKey,
              FlagInv
<1>2. CASE OnTimerRepeat \/ OnTimerDeadman
  BY <1>2 DEF OnTimerRepeat, OnTimerDeadman, FlagInv
<1>3. CASE Interrupt \/ Tick \/ LetGo \/ UNCHANGED vars
  BY <1>3 DEF Interrupt, Tick, LetGo, vars, node, FlagInv
<1>4. CASE \E k \in Keys : Press(k)
  BY <1>4 DEF Press, node, FlagInv
<1> QED
  BY <1>1, <1>2, <1>3, <1>4 DEF Next, OnTimer

\* A motion twist last published is the one repeated, and the flag that would
\* keep the deadman silent is down.
THEOREM MotionIsWatchedHolds == Spec => []MotionIsWatched
<1>1. Init => FlagInv
  BY DEF Init, FlagInv
<1>2. FlagInv => MotionIsWatched
  <2> SUFFICES ASSUME FlagInv, running = "spins", published # "zero"
               PROVE  ~zero_published /\ published = active_twist
    BY DEF MotionIsWatched
  <2> QED
    BY DEF FlagInv
<1> QED
  BY <1>1, <1>2, FlagNext, PTL DEF Spec
=============================================================================
