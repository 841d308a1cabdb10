------------------------ MODULE MCVehicleStateManager ------------------------
(* Two sensors with different thresholds and two possible updates.         *)
EXTENDS VehicleStateManager, TLC

CONSTANTS gps, imu, printer, s1, s2

MCInputs == {[sample |-> s1, source_ts |-> 0], [sample |-> s2, source_ts |-> 1]}
MCStaleAfter == gps :> 1 @@ imu :> 0
=============================================================================
