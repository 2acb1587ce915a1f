---------------------------- MODULE MCYbImuFrames ----------------------------
(* Frames of 6 and 7 bytes over an alphabet of ten values. As in the real   *)
(* protocol HEAD1 is no length, HEAD2 is one. The last report holds the     *)
(* header among its data.                                                   *)
EXTENDS YbImuFrames

MCNeeded == 3 :> 1 @@ 4 :> 2
MCReports == {[func |-> 3, data |-> <<1>>], [func |-> 4, data |-> <<5, 0>>],
              [func |-> 4, data |-> <<9, 2>>]}
MCStray == {0, 2, 4, 8, 9}
==============================================================================
