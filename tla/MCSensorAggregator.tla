-------------------------- MODULE MCSensorAggregator --------------------------
(* The three sensors, with two, one and one fields to a row.  gps has its  *)
(* rows in order; imu's are out of order in the file and it stalls before  *)
(* its last one; encoder's log is empty.                                   *)
EXTENDS SensorAggregator, TLC

CONSTANTS gps, imu, encoder

MCOrder == <<gps, imu, encoder>>
MCArity == gps :> 2 @@ imu :> 1 @@ encoder :> 1

\* Carriage returns, blank lines, a row that ends in a comma, a row that is too short.
MCGood == gps :> <<<<CarriageReturn>>, <<Word, Word>>, <<1, 5>>, <<4, Empty>>,
                   <<5, CarriageReturn>>, <<Empty>>>>
          @@ imu :> <<<<Word>>, <<2>>, <<0>>>>
          @@ encoder :> <<<<Word>>>>
MCDirectories ==
    {MCGood, [MCGood EXCEPT ![imu] = NoFile], [MCGood EXCEPT ![gps] = Append(@, <<2, Word>>)],
     [MCGood EXCEPT ![gps] = Append(@, <<Empty, 3>>)],
     [MCGood EXCEPT ![encoder] = <<>>, ![imu] = <<>>]}

MCStallAfter == gps :> -1 @@ imu :> 1 @@ encoder :> -1
MCStallDuration == gps :> 0 @@ imu :> 1 @@ encoder :> 0
MCStaleAfter == gps :> 1 @@ imu :> 0 @@ encoder :> 0
=============================================================================
