---------------------------- MODULE MCLidarDriver ----------------------------
(* Four scans: one that is dropped by main.cpp, and three to be overwritten *)
(* and published again.                                                     *)
EXTENDS LidarDriver

MCMaxScans == 4
==============================================================================
