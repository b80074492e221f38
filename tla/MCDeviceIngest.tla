--------------------------- MODULE MCDeviceIngest ---------------------------
(* Instances of DeviceIngest for TLC.                                      *)
EXTENDS DeviceIngest

CONSTANTS d1, s1, t1, m1

\* One device with a TCP session and an MQTT client, a reading of each: with
\* the echo of the first and its redelivery four transactions write its row.
MCDeviceOf == [r \in {t1, m1} |-> d1]
MCSessionOf == [r \in {t1} |-> s1]
=============================================================================
