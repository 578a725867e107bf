---------------------------- MODULE HighVoltage ----------------------------
(***************************************************************************)
(* The high voltage chain of the OVCS1: the ignition key, the contactors'  *)
(* process and its driver (HighVoltageContactors), the CAN frames between  *)
(* the driver and the generic controller whose digital outputs are the     *)
(* relays (Controller), the inverter's component, which reports the        *)
(* voltage, and the link the relays feed.                                  *)
(*                                                                         *)
(* The controller is adopted, past its boot time, its boards do not fail   *)
(* and its button is not pressed (Controller.tla covers those); the VMS    *)
(* may tell it of a FAILURE, which does to the relays what its silence      *)
(* does, and reset it at any time.                                         *)
(***************************************************************************)
EXTENDS HighVoltageContactors

VARIABLES
  key,              \* the ignition lock, as it broadcasts it
  inverterContact,  \* Inverter's contact
  inverterEnabled,  \* Inverter's enabled: its power relay and frames are on
  measured,         \* Inverter's inverter_output_voltage
  link,             \* the voltage there is on the link
  relays,           \* the controller's digital outputs
  controller,       \* the controller's status
  \* The rest of Controller's variables: nothing changes them here.
  heartbeatAge, other, booting, waiting, wasPressed, configured, stored, retries,
  excuses           \* why a closing relay may find the link discharged

inverterVars == <<inverterContact, inverterEnabled, measured>>
board == <<heartbeatAge, other, booting, waiting, wasPressed, configured, stored, retries>>
firmwareVars == <<relays, controller, board>>
vars == <<contactorsVars, key, inverterVars, link, firmwareVars, excuses>>

Firmware ==
  INSTANCE Controller WITH
    DigitalPins <- Relays, HeartbeatTimeout <- 0, MaxRetries <- 0,
    status <- controller, digital <- relays

Excuses == {"leftover", "shutdown", "outrun"}

TypeOK ==
  /\ ContactorsTypeOK
  /\ key \in Contacts /\ inverterContact \in Contacts
  /\ inverterEnabled \in BOOLEAN
  /\ measured \in Voltages /\ link \in Voltages
  /\ relays \in [Relays -> BOOLEAN]
  /\ controller \in {"ready", "vms_failure"}
  /\ excuses \subseteq Excuses

Init ==
  /\ ContactorsInit
  /\ key = "off" /\ inverterContact = "off"
  /\ inverterEnabled = FALSE
  /\ measured = "low" /\ link = "low"
  /\ relays = AllOpen
  /\ controller = "ready" /\ heartbeatAge = 0
  /\ configured = TRUE /\ stored = TRUE /\ retries = 0
  /\ other = FALSE /\ booting = FALSE /\ waiting = FALSE /\ wasPressed = FALSE
  /\ excuses = {}

----------------------------------------------------------------------------
(* The key, which turns one position at a time, and the link.              *)

\* A position is kept for longer than the 10 ms that rebroadcast it.
TurnKey ==
  /\ contact = key /\ inverterContact = key
  /\ key' \in IF key = "on" THEN {"off", "start"} ELSE {"on"}
  /\ UNCHANGED <<contactorsVars, inverterVars, link, firmwareVars, excuses>>

Fed == relays["negative"] /\ (relays["precharge"] \/ relays["positive"])

Charge ==
  /\ Fed /\ link = "low"
  /\ link' = "high"
  /\ UNCHANGED <<contactorsVars, key, inverterVars, firmwareVars, excuses>>

Discharge ==
  /\ ~Fed /\ link = "high"
  /\ link' = "low"
  /\ UNCHANGED <<contactorsVars, key, inverterVars, firmwareVars, excuses>>

----------------------------------------------------------------------------
(* Inverter: it hears the contact, powers the inverter on an :on contact and *)
(* keeps its last voltage, which it broadcasts for ever.                   *)

InverterHandleContact ==
  /\ inverterContact' = key
  /\ UNCHANGED <<contactorsVars, key, inverterEnabled, measured, link, firmwareVars,
                 excuses>>

ToggleInverter ==
  /\ \/ ~inverterEnabled /\ inverterContact = "on"
     \/ inverterEnabled /\ inverterContact = "off"
  /\ inverterEnabled' = ~inverterEnabled
  /\ UNCHANGED <<contactorsVars, key, inverterContact, measured, link, firmwareVars,
                 excuses>>

\* An inverter_status frame, sent only by an inverter that is powered.
HandleInverterStatus ==
  /\ inverterEnabled
  /\ measured' = link
  /\ UNCHANGED <<contactorsVars, key, inverterContact, inverterEnabled, link,
                 firmwareVars, excuses>>

----------------------------------------------------------------------------
(* The contactors' process.                                                *)

physical == <<key, inverterVars, link, firmwareVars>>

ContactorsHear ==
  /\ HandleContact(key) \/ HandleVoltage(measured)
  /\ UNCHANGED <<physical, excuses>>

\* excuses is a history variable, read by no action.  A session starts with none
\* but a controller that is already down, or a last session it has outrun.
ContactorsToggle ==
  /\ LoopToggling
  /\ excuses' =
       IF status' = "starting"
       THEN {e \in Excuses : \/ e = "shutdown" /\ controller # "ready"
                             \/ e = "outrun" /\ relays # AllOpen}
       ELSE IF status' = "precharge_complete" /\ voltage = "high" /\ ~(Fed /\ link = "high")
       THEN excuses \cup {"leftover"}
       ELSE excuses
  /\ UNCHANGED physical

ContactorsWatch == LoopWatching /\ UNCHANGED <<physical, excuses>>

ContactorsCall == SetDigitalValue /\ UNCHANGED <<physical, excuses>>

ContactorsElapse == Elapse /\ UNCHANGED <<physical, excuses>>

----------------------------------------------------------------------------
(* The bus and the controller.                                            *)

\* A pass of the firmware's loop, whatever it does to the controller.
FirmwareLoop(frame) ==
  /\ Firmware!LoopOn(frame, FALSE, FALSE, FALSE, TRUE)
  /\ excuses' = IF controller' = "ready" THEN excuses ELSE excuses \cup {"shutdown"}
  /\ UNCHANGED <<contactorsVars, key, inverterVars, link>>

\* The driver's frame is emitted every 10 ms with what is requested by then, and
\* may be lost.
ReceiveRequest == FirmwareLoop(Firmware!DigitalRequest(requested))

ReceiveFailure == FirmwareLoop(Firmware!VmsFailure)

ReceiveReset == FirmwareLoop(Firmware!ResetCommand)

\* Only a controller that is READY reports its pins.
EmitPinStatus ==
  /\ controller = "ready"
  /\ HandlePinStatus(relays)
  /\ UNCHANGED <<physical, excuses>>

----------------------------------------------------------------------------

Next ==
  \/ TurnKey \/ Charge \/ Discharge
  \/ InverterHandleContact \/ ToggleInverter \/ HandleInverterStatus
  \/ ContactorsHear \/ ContactorsToggle \/ ContactorsWatch
  \/ ContactorsCall \/ ContactorsElapse
  \/ EmitPinStatus
  \/ ReceiveRequest \/ ReceiveFailure \/ ReceiveReset

Spec == Init /\ [][Next]_vars

\* The loops and the emitters are driven by timers, the key is rebroadcast on
\* every loop of the ignition lock, and a frame emitted again and again is
\* received in the end.
FairSpec ==
  /\ Spec
  /\ WF_vars(HandleContact(key) /\ UNCHANGED <<physical, excuses>>)
  /\ WF_vars(ContactorsToggle) /\ WF_vars(ContactorsCall) /\ WF_vars(ContactorsElapse)
  /\ WF_vars(ReceiveRequest)

----------------------------------------------------------------------------
(* Properties.                                                             *)

\* The main path closes onto a discharged link.
MainPath(levels) == levels["negative"] /\ levels["positive"]
Inrush == link = "low" /\ MainPath(relays') /\ ~MainPath(relays)

\* Precharge protects the link in every session but for three causes: the voltage
\* that ended it was left over from the last session (the inverter, unpowered
\* between sessions, is quoted for ever); the controller was shut down in the
\* session and closes, once reset, whatever the driver still requests; or the key
\* outran the bus, and the last session's relays had not opened by the new start.
InrushExcused == [][Inrush => excuses # {}]_vars

\* "Negative, then precharge, wait for the voltages to equalise, then positive,
\* then drop precharge. Prevents inrush damage."
NoInrush == [][~Inrush]_vars

\* "An :off contact opens all three": a key left off leaves every relay open for
\* good, whatever frames, failures and resets are still on their way.
KeyOffOpens == <>[](key = "off") => <>[](relays = AllOpen)

\* The precharge relay never stays in parallel with the main positive one while
\* the key is on and the controller obeys.
PrechargeDropped ==
  <>[](key # "off" /\ controller = "ready") =>
    <>[](relays["positive"] => ~relays["precharge"])
============================================================================
