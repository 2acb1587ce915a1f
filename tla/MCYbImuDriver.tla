---------------------------- MODULE MCYbImuDriver ----------------------------
(* Frames that feed several vectors (raw) and one vector (quat), and the    *)
(* answers. Two fields show what a torn vector is; vectors and commands of  *)
(* the shape of another (baro, euler, the temperature) are left out.        *)
EXTENDS YbImuDriver

MCAutoKinds == {"raw", "quat"}
MCCommands == {"version", "imu", "mag", "setting"}
MCMaxAxes == [accel |-> 1, gyro |-> 0, mag |-> 1, quat |-> 2, baro |-> 0,
              euler |-> 0, version |-> 2]
==============================================================================
