----------------------- MODULE HighVoltageContactors -----------------------
(***************************************************************************)
(* VmsCore.Components.OVCS.HighVoltageContactors: the GenServer that       *)
(* precharges and closes the high voltage contactors, and the part of      *)
(* VmsCore.Components.OVCS.GenericController it talks to: the pins it has  *)
(* requested and the pins it has read back.                                *)
(*                                                                         *)
(* A callback of the loop is not atomic here: each call to the driver is a *)
(* step of its own, since the driver and the CAN emitter run in between.   *)
(* The contactors' process handles no other message until it has returned. *)
(***************************************************************************)
EXTENDS Naturals, Sequences

Relays == {"negative", "precharge", "positive"}
AllOpen == [relay \in Relays |-> FALSE]
Contacts == {"off", "on", "start"}

\* Below required_precharge_output_voltage_v, or not.
Voltages == {"low", "high"}

VARIABLES
  contact, voltage, status,
  delayElapsed,  \* precharge_ending_time_ms is past
  calls,         \* the calls to the driver left in this callback
  readyToDrive,
  requested,     \* GenericController's requested_pins and the frame they update
  received       \* GenericController's received_pins

heard == <<contact, voltage>>
contactorsVars ==
  <<heard, status, delayElapsed, calls, readyToDrive, requested, received>>

ContactorsTypeOK ==
  /\ contact \in Contacts /\ voltage \in Voltages
  /\ status \in {"off", "starting", "precharge_complete", "started"}
  /\ delayElapsed \in BOOLEAN
  /\ calls \in Seq(Relays \X BOOLEAN) /\ Len(calls) <= 3
  /\ readyToDrive \in BOOLEAN
  /\ requested \in [Relays -> BOOLEAN] /\ received \in [Relays -> BOOLEAN]

\* Mutation: no voltage is assumed before the first one is heard.
ContactorsInitUnknown ==
  /\ contact = "off" /\ voltage = "none"
  /\ status = "off"
  /\ delayElapsed = TRUE
  /\ calls = << >>
  /\ readyToDrive = FALSE
  /\ requested = AllOpen /\ received = AllOpen

ContactorsInit ==
  /\ contact = "off" /\ voltage = "low"
  /\ status = "off"
  /\ delayElapsed = TRUE
  /\ calls = << >>
  /\ readyToDrive = FALSE
  /\ requested = AllOpen /\ received = AllOpen

----------------------------------------------------------------------------

Idle == calls = << >>

HandleContact(value) ==
  /\ Idle
  /\ contact' = value
  /\ UNCHANGED <<voltage, status, delayElapsed, calls, readyToDrive, requested, received>>

HandleVoltage(value) ==
  /\ Idle
  /\ voltage' = value
  /\ UNCHANGED <<contact, status, delayElapsed, calls, readyToDrive, requested, received>>

\* The monotonic clock passes precharge_ending_time_ms.
Elapse ==
  /\ ~delayElapsed
  /\ delayElapsed' = TRUE
  /\ UNCHANGED <<heard, status, calls, readyToDrive, requested, received>>

\* toggle_contactors/1: what a branch asks of the driver, in order, and the
\* status it leaves.
StartPrecharge ==
  /\ status = "off" /\ contact = "start"
  /\ calls' = <<<<"negative", TRUE>>, <<"precharge", TRUE>>>>
  /\ status' = "starting"
  /\ UNCHANGED delayElapsed

\* Mutation: the voltage is not looked at.
EndPrechargeBlind ==
  /\ status = "starting" /\ contact # "off"
  /\ calls' = <<<<"positive", TRUE>>>>
  /\ status' = "precharge_complete"
  /\ delayElapsed' = FALSE

EndPrecharge ==
  /\ status = "starting" /\ contact # "off" /\ voltage = "high"
  /\ calls' = <<<<"positive", TRUE>>>>
  /\ status' = "precharge_complete"
  /\ delayElapsed' = FALSE

\* Mutation: the delay is waited for on a :start contact only.
FinishPrechargeOnStart ==
  /\ status = "precharge_complete" /\ contact = "start" /\ delayElapsed
  /\ calls' = <<<<"precharge", FALSE>>>>
  /\ status' = "started"
  /\ UNCHANGED delayElapsed

FinishPrecharge ==
  /\ status = "precharge_complete" /\ contact # "off" /\ delayElapsed
  /\ calls' = <<<<"precharge", FALSE>>>>
  /\ status' = "started"
  /\ UNCHANGED delayElapsed

\* Mutation: the positive relay is left to the controller.
SwitchOffForgetting ==
  /\ status # "off" /\ contact = "off"
  /\ calls' = <<<<"precharge", FALSE>>, <<"negative", FALSE>>>>
  /\ status' = "off"
  /\ UNCHANGED delayElapsed

SwitchOff ==
  /\ status # "off" /\ contact = "off"
  /\ calls' = <<<<"precharge", FALSE>>, <<"negative", FALSE>>, <<"positive", FALSE>>>>
  /\ status' = "off"
  /\ UNCHANGED delayElapsed

Toggle == StartPrecharge \/ EndPrecharge \/ FinishPrecharge \/ SwitchOff

\* check_ready_to_drive/1, on the driver's last readings.
CheckReadyToDrive ==
  readyToDrive' = (received["negative"] /\ received["positive"] /\ ~received["precharge"])

LoopToggling ==
  /\ Idle
  /\ Toggle
  /\ UNCHANGED <<heard, readyToDrive, requested, received>>

LoopWatching ==
  /\ Idle
  /\ ~(status = "off" /\ contact = "start")
  /\ ~(status = "starting" /\ contact # "off" /\ voltage = "high")
  /\ ~(status = "precharge_complete" /\ contact # "off" /\ delayElapsed)
  /\ ~(status # "off" /\ contact = "off")
  /\ CheckReadyToDrive
  /\ UNCHANGED <<heard, status, delayElapsed, calls, requested, received>>

\* One GenericController.set_digital_value; the last one of a callback is
\* followed by check_ready_to_drive/1.
SetDigitalValue ==
  /\ ~Idle
  /\ requested' = [requested EXCEPT ![Head(calls)[1]] = Head(calls)[2]]
  /\ calls' = Tail(calls)
  /\ IF Tail(calls) = << >> THEN CheckReadyToDrive ELSE UNCHANGED readyToDrive
  /\ UNCHANGED <<heard, status, delayElapsed, received>>

\* The driver handles a digital_and_analog_pin_status frame.
HandlePinStatus(levels) ==
  /\ received' = levels
  /\ UNCHANGED <<heard, status, delayElapsed, calls, readyToDrive, requested>>

----------------------------------------------------------------------------

\* Between callbacks, the relays requested of the controller are exactly those
\* the phase of the sequence calls for: no call of an earlier phase is left over,
\* whatever contact, voltage and frames came in between two calls.
RequestedByPhase ==
  CASE status = "off"                -> AllOpen
    [] status = "starting"           -> [AllOpen EXCEPT !["negative"] = TRUE, !["precharge"] = TRUE]
    [] status = "precharge_complete" -> [relay \in Relays |-> TRUE]
    [] status = "started"            -> [AllOpen EXCEPT !["negative"] = TRUE, !["positive"] = TRUE]

RequestsAsDecided == Idle => requested = RequestedByPhase
============================================================================
