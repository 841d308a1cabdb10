--------------------------- MODULE CanVehicleState ---------------------------
(***************************************************************************)
(* The live state of task 3 (CanVehicleState, VehicleStateUpdater): a      *)
(* function on the fields that are known, named after their signals.       *)
(***************************************************************************)
EXTENDS DbcDatabase, SignalCodec

VARIABLE state

\* The signals a message feeds into the state, by the name of the message.
Fields(name) ==
    CASE name = Str("EngineData") -> {"rpm"}
      [] name = Str("VehicleSpeed") -> {"speed", "gear"}
      [] name = Str("BrakeStatus") -> {"brake_pressed"}
      [] name = Str("SteeringData") -> {"steering_angle"}
      [] OTHER -> {}

Gear(sig, raw) ==
    IF raw \in DOMAIN sig.enum_values THEN sig.enum_values[raw] ELSE <<"UNKNOWN", raw>>

DecodedField(msg, data, field) ==
    LET sig == msg.signals[Str(field)]
    IN  CASE field = "gear" -> Gear(sig, extractRaw(data, sig, msg.byte_order))
          [] field = "brake_pressed" -> extractRaw(data, sig, msg.byte_order) # 0
          [] OTHER -> decodePhysical(data, sig, msg.byte_order)

applyIfUnknown(msg, frame) ==
    state' = PutAll([f \in {s \in Fields(msg.name) : findSignal(msg, s)} |->
                        DecodedField(msg, frame.data, f)], state)
\* The fields of the message are overwritten, whether the frame is faulty or not.
apply(msg, frame) ==
    state' = PutAll(state, [f \in {s \in Fields(msg.name) : findSignal(msg, s)} |->
                               DecodedField(msg, frame.data, f)])
=============================================================================
