--------------------------- MODULE MCSensorProducer ---------------------------
(* One producer; its rows are out of order in the file and two carry the   *)
(* same timestamp, or its log is empty, or ends before the stall.  Speed   *)
(* 3/2 makes the due times truncate.                                       *)
EXTENDS SensorProducer, TLC

CONSTANT imu

MCLogs == {imu :> <<2, 6, 3, 3>>, imu :> <<5, 0>>, imu :> <<1, 2>>, imu :> <<>>}
MCStallAfter == imu :> 3
MCStallDuration == imu :> 3
=============================================================================
