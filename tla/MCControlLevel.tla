--------------------------- MODULE MCControlLevel ---------------------------
(* The wiring of the OVCS Mini (vehicles/ovcs_mini/lib/ovcs_mini/vms/       *)
(* composer.ex) with the brake pedal of the OVCS1 added, so that every       *)
(* source the manager can be given is there.                                 *)
EXTENDS ControlLevel

MiniActuators == {"gear", "direction", "throttle", "steering"}

MiniSources == {"radio", "joystick", "velocity"}

MiniMap ==
  [gear      |-> [manual |-> "nil", radio |-> "nil",   teleop |-> "nil",      autonomous |-> "nil"],
   direction |-> [manual |-> "nil", radio |-> "radio", teleop |-> "joystick", autonomous |-> "nil"],
   throttle  |-> [manual |-> "nil", radio |-> "radio", teleop |-> "joystick", autonomous |-> "velocity"],
   steering  |-> [manual |-> "nil", radio |-> "radio", teleop |-> "joystick", autonomous |-> "velocity"]]
============================================================================
