---------------------------- MODULE MCAgvBridge ----------------------------
(* A small instance of AgvBridge for TLC. *)
EXTENDS AgvBridge

MCTopics == {"/cmd_vel_nav", "/cmd_vel_teleop"}
MCPublishes == [t \in MCTopics |->
  IF t = "/cmd_vel_nav" THEN {<<2, 0>>} ELSE {<<0, 2>>}]
MCModeRequests == {"nav", "teleop", "auto"}
MCToNav == {"nav"}
MCNone == {}
=============================================================================
