-------------------------- MODULE MCKeyboardTeleop --------------------------
(* Small instances of KeyboardTeleop for TLC. *)
EXTENDS KeyboardTeleop

MCKeys == {"w", "a", "x", "z", "q"}  \* z has no meaning
=============================================================================
