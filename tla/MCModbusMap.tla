----------------------------- MODULE MCModbusMap -----------------------------
(* An instance of ModbusMap for TLC.                                       *)
EXTENDS ModbusMap

CONSTANTS d1

\* All PLCs belong to the one device.
MCDeviceOf == [p \in Plcs |-> d1]
=============================================================================
