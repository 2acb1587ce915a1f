------------------------- MODULE MCCommandOdometry -------------------------
(* Small instances of CommandOdometry for TLC: one source, no mode switch. *)
EXTENDS CommandOdometry

MCTopics == {"/cmd_vel_teleop"}
MCPublishes == [t \in MCTopics |-> {<<2, 0>>, <<0, -2>>}]
MCNone == {}
=============================================================================
