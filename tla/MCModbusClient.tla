--------------------------- MODULE MCModbusClient ---------------------------
(* Small instances of ModbusClient for TLC. *)
EXTENDS ModbusClient

MCValues == {1, 5}       \* forward and stop
MCOnlyStop == {5}
=============================================================================
