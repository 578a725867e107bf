--------------------------- MODULE ControlLevel ---------------------------
(***************************************************************************)
(* VmsCore.Managers.ControlLevel: the GenServer that decides who has       *)
(* authority over the vehicle (:manual, :radio or :ros), which ROS node    *)
(* has the wheel inside :ros (:teleop or :autonomous), and from which      *)
(* component each actuator takes its request.                              *)
(*                                                                         *)
(* A message of the bus is one action, the 10 ms loop is one action: a     *)
(* GenServer runs one callback at a time.  A message may arrive, and time  *)
(* may pass, between any two callbacks.  The refusal log is left out.      *)
(***************************************************************************)
EXTENDS Naturals

CONSTANTS
  Actuators,      \* gear, direction, throttle, steering
  Sources,        \* the components a source map may name
  NoSource,       \* nil: nothing commands the actuator
  SourceMap,      \* the requested_*_sources options, per actuator
  Fitted,         \* the optional sources this vehicle wires
  DefaultLevel,   \* the default_control_level option
  HealthTimeout   \* rotation_health_timeout_ms, in ticks of Tick

Levels == {"manual", "radio", "ros"}
NoLevel == "none"
Rank == [manual |-> 0, radio |-> 1, ros |-> 2]

Commanders == {"teleop", "autonomous"}

\* :ros is keyed by commander, every other level is its own key.
Routes == {"manual", "radio"} \cup Commanders

OptionalSources ==
  {"level_switch", "commander_switch", "brake_pedal", "radio_trigger", "fusion", "speed"}

\* All a test can tell of a speed: nil, zero, or anything else.
Speeds == {"unknown", "zero", "moving"}

ASSUME SourceMapAssumption ==
  SourceMap \in [Actuators -> [Routes -> Sources \cup {NoSource}]]
ASSUME FittedAssumption == Fitted \subseteq OptionalSources
ASSUME DefaultLevelAssumption == DefaultLevel \in Levels
ASSUME HealthTimeoutAssumption == HealthTimeout \in Nat

VARIABLES
  requestedLevel, requestedCommander,
  manualBraking, radioBraking,
  rotationFault, rotationHealthy,
  healthAge,      \* ticks since :rotation_healthy, one past the timeout at most
  readyToDrive, speed,
  selectedLevel, forcedLevel, selectedCommander,
  routed          \* the source in force for each actuator

requests == <<requestedLevel, requestedCommander>>
rotation == <<rotationFault, rotationHealthy, healthAge>>
inputs ==
  <<requests, manualBraking, radioBraking, rotation, readyToDrive, speed>>
decision == <<selectedLevel, forcedLevel, selectedCommander, routed>>
vars == <<inputs, decision>>

TypeOK ==
  /\ requestedLevel \in Levels \cup {NoLevel}
  /\ requestedCommander \in Commanders
  /\ manualBraking \in BOOLEAN /\ radioBraking \in BOOLEAN
  /\ rotationFault \in BOOLEAN /\ rotationHealthy \in BOOLEAN
  /\ healthAge \in 0 .. HealthTimeout + 1
  /\ readyToDrive \in BOOLEAN
  /\ speed \in Speeds
  /\ selectedLevel \in Levels
  /\ forcedLevel \in Levels \cup {NoLevel}
  /\ selectedCommander \in Commanders
  /\ routed \in [Actuators -> Sources \cup {NoSource}]

SourceFor(actuator, level, commander) ==
  SourceMap[actuator][IF level = "ros" THEN commander ELSE level]

RoutesFor(level, commander) ==
  [actuator \in Actuators |-> SourceFor(actuator, level, commander)]

\* Mutation: the commander starts unset.
InitNoCommander ==
  /\ requestedLevel = NoLevel
  /\ requestedCommander = "none"
  /\ manualBraking = FALSE /\ radioBraking = FALSE
  /\ rotationFault = FALSE /\ rotationHealthy = FALSE
  /\ healthAge = HealthTimeout + 1
  /\ readyToDrive = FALSE
  /\ speed = "zero"
  /\ selectedLevel = DefaultLevel
  /\ forcedLevel = NoLevel
  /\ selectedCommander = "teleop"
  /\ routed = RoutesFor(DefaultLevel, "teleop")

Init ==
  /\ requestedLevel = NoLevel
  /\ requestedCommander = "teleop"
  /\ manualBraking = FALSE /\ radioBraking = FALSE
  /\ rotationFault = FALSE /\ rotationHealthy = FALSE
  /\ healthAge = HealthTimeout + 1
  /\ readyToDrive = FALSE
  /\ speed = "zero"
  /\ selectedLevel = DefaultLevel
  /\ forcedLevel = NoLevel
  /\ selectedCommander = "teleop"
  /\ routed = RoutesFor(DefaultLevel, "teleop")

----------------------------------------------------------------------------
(* Messages of the bus.  Each is taken from its configured source only.    *)

HandleRequestedLevel(level) ==
  /\ "level_switch" \in Fitted
  /\ requestedLevel' = level
  /\ UNCHANGED <<requestedCommander, manualBraking, radioBraking, rotation,
                 readyToDrive, speed, decision>>

HandleRequestedCommander(commander) ==
  /\ "commander_switch" \in Fitted
  /\ requestedCommander' = commander
  /\ UNCHANGED <<requestedLevel, manualBraking, radioBraking, rotation,
                 readyToDrive, speed, decision>>

HandleManualBraking(braking) ==
  /\ "brake_pedal" \in Fitted
  /\ manualBraking' = braking
  /\ UNCHANGED <<requests, radioBraking, rotation, readyToDrive, speed, decision>>

HandleRadioBraking(braking) ==
  /\ "radio_trigger" \in Fitted
  /\ radioBraking' = braking
  /\ UNCHANGED <<requests, manualBraking, rotation, readyToDrive, speed, decision>>

HandleCrossCheckFault(fault) ==
  /\ "fusion" \in Fitted
  /\ rotationFault' = fault
  /\ UNCHANGED <<requests, manualBraking, radioBraking, rotationHealthy, healthAge,
                 readyToDrive, speed, decision>>

HandleRotationHealthy(healthy) ==
  /\ "fusion" \in Fitted
  /\ rotationHealthy' = healthy
  /\ healthAge' = 0
  /\ UNCHANGED <<requests, manualBraking, radioBraking, rotationFault,
                 readyToDrive, speed, decision>>

HandleReadyToDrive(ready) ==
  /\ readyToDrive' = ready
  /\ UNCHANGED <<requests, manualBraking, radioBraking, rotation, speed, decision>>

HandleSpeed(value) ==
  /\ "speed" \in Fitted
  /\ speed' = value
  /\ UNCHANGED <<requests, manualBraking, radioBraking, rotation, readyToDrive, decision>>

\* The monotonic clock, as far as the health heartbeat can tell it.
Tick ==
  /\ healthAge <= HealthTimeout
  /\ healthAge' = healthAge + 1
  /\ UNCHANGED <<requests, manualBraking, radioBraking, rotationFault, rotationHealthy,
                 readyToDrive, speed, decision>>

----------------------------------------------------------------------------
(* The loop: select_control_level, select_ros_commander, select_sources.   *)

Standstill == speed = "zero"

\* Mutation: the last heartbeat is believed for ever.
HealthyRotationOnce == "fusion" \in Fitted => rotationHealthy

HealthyRotation ==
  "fusion" \in Fitted => rotationHealthy /\ healthAge <= HealthTimeout

RosOverridden ==
  radioBraking \/ rotationFault \/ ~HealthyRotation \/ speed = "unknown"

\* Mutation: readiness is not watched once under way.
MustGoManualOnBrakeOnly == selectedLevel # "manual" /\ manualBraking

\* Mutation: the brake pedal is read in :ros only.
MustGoManualFromRosOnly == selectedLevel = "ros" /\ (manualBraking \/ ~readyToDrive)

MustGoManual == selectedLevel # "manual" /\ (manualBraking \/ ~readyToDrive)

MustGoRadio == selectedLevel = "ros" /\ RosOverridden /\ ~MustGoManual

MayTakeManual == requestedLevel = "manual" /\ selectedLevel # "manual"

MayTakeRadio ==
  /\ requestedLevel = "radio" /\ selectedLevel # "radio"
  /\ forcedLevel = NoLevel
  /\ readyToDrive /\ ~manualBraking
  /\ Standstill

MayTakeRos ==
  /\ requestedLevel = "ros" /\ selectedLevel = "radio"
  /\ forcedLevel = NoLevel
  /\ ~manualBraking /\ ~RosOverridden
  /\ Standstill

\* Mutation: the switch must go strictly below the forced level.
MayLiftForceStrictly ==
  /\ forcedLevel # NoLevel
  /\ requestedLevel = selectedLevel
  /\ Rank[selectedLevel] < Rank[forcedLevel]

MayLiftForce ==
  /\ forcedLevel # NoLevel
  /\ requestedLevel = selectedLevel
  /\ Rank[selectedLevel] <= Rank[forcedLevel]

\* Mutation: a forced fall leaves no latch behind.
ForceToUnlatched(level) == selectedLevel' = level /\ UNCHANGED forcedLevel

ForceTo(level) == selectedLevel' = level /\ forcedLevel' = level

Take(level) == selectedLevel' = level /\ UNCHANGED forcedLevel

\* The switch is heard only when nothing forces the level down.
HonourSwitch ==
  \/ MayTakeManual /\ Take("manual")
  \/ MayTakeRadio /\ Take("radio")
  \/ MayTakeRos /\ Take("ros")
  \/ MayLiftForce /\ forcedLevel' = NoLevel /\ UNCHANGED selectedLevel
  \/ /\ ~(MayTakeManual \/ MayTakeRadio \/ MayTakeRos \/ MayLiftForce)
     /\ UNCHANGED <<selectedLevel, forcedLevel>>

SelectControlLevel ==
  IF "level_switch" \in Fitted
  THEN \/ MustGoManual /\ ForceTo("manual")
       \/ MustGoRadio /\ ForceTo("radio")
       \/ ~MustGoManual /\ ~MustGoRadio /\ HonourSwitch
  ELSE UNCHANGED <<selectedLevel, forcedLevel>>

\* Evaluated on the level just selected.
SelectRosCommander ==
  selectedCommander' =
    IF \/ "commander_switch" \notin Fitted
       \/ requestedCommander = "teleop"
       \/ selectedLevel' # "ros"
    THEN "teleop"
    ELSE IF Standstill THEN "autonomous" ELSE selectedCommander

\* Mutation: the sources are routed before the commander is selected.
SelectSourcesFirst ==
  routed' = IF "level_switch" \in Fitted
            THEN RoutesFor(selectedLevel', selectedCommander)
            ELSE routed

SelectSources ==
  routed' = IF "level_switch" \in Fitted
            THEN RoutesFor(selectedLevel', selectedCommander')
            ELSE routed

Loop ==
  /\ SelectControlLevel
  /\ SelectRosCommander
  /\ SelectSources
  /\ UNCHANGED inputs

Next ==
  \/ \E level \in Levels : HandleRequestedLevel(level)
  \/ \E commander \in Commanders : HandleRequestedCommander(commander)
  \/ \E b \in BOOLEAN :
       \/ HandleManualBraking(b)
       \/ HandleRadioBraking(b)
       \/ HandleCrossCheckFault(b)
       \/ HandleRotationHealthy(b)
       \/ HandleReadyToDrive(b)
  \/ \E value \in Speeds : HandleSpeed(value)
  \/ Tick
  \/ Loop

Spec == Init /\ [][Next]_vars

\* :timer.send_interval keeps the loop coming and the clock never stops.
FairSpec == Spec /\ WF_vars(Loop) /\ WF_vars(Tick)

----------------------------------------------------------------------------
(* Properties.                                                             *)

\* The actuators obey the level and commander the manager announces, and the
\* planner holds the wheel in :ros only: whatever callback ran last, no
\* actuator is routed by an earlier decision.  (emit_metrics broadcasts the
\* level, the commander and the sources as one picture.)
RoutedAsDecided ==
  "level_switch" \in Fitted =>
    /\ routed = RoutesFor(selectedLevel, selectedCommander)
    /\ selectedCommander = "autonomous" => selectedLevel = "ros"

\* "A level whose cause is still active is refused on entry rather than entered
\* for the one tick it takes to force it again": no loop ends in a level that
\* the next loop would force down on the same inputs, by whichever branch.  (Of the
\* loops that change nothing, BrakeWins and SilentFusionEndsRos speak.)
JustifiedAfterLoop ==
  [][ Loop /\ "level_switch" \in Fitted =>
        /\ selectedLevel' # "manual" => readyToDrive /\ ~manualBraking
        /\ selectedLevel' = "ros" => ~RosOverridden ]_vars

\* The manager keeps the promise of Authority: climbs of one rung, at a
\* standstill, unlatched; falls at once; the planner armed at a standstill and
\* disarmed off :ros; a forced level held until the switch comes down to it.
Promise ==
  INSTANCE Authority WITH
    level <- selectedLevel,
    latch <- forcedLevel,
    planner <- (selectedCommander = "autonomous"),
    vehicle <- [still |-> Standstill,
                drivable |-> readyToDrive /\ ~manualBraking,
                trusted |-> ~RosOverridden]

RefinesAuthority == Promise!Spec

\* A brake held, or a readiness lost, for good takes the vehicle to :manual for
\* good, whatever the switches, the planner and the other messages do meanwhile.
BrakeWins ==
  <>[](manualBraking \/ ~readyToDrive) => <>[](selectedLevel = "manual")

\* A switch left in :manual always ends unlatched in :manual, even with the
\* cause of the force still active: the operator is never locked out.
SwitchDownUnlatches ==
  <>[](requestedLevel = "manual") =>
    <>[](selectedLevel = "manual" /\ forcedLevel = NoLevel)

\* A rotation fusion that has gone silent cannot leave ROS in command, however
\* healthy its last word was.
SilentFusionEndsRos ==
  <>[][~\E b \in BOOLEAN : HandleRotationHealthy(b)]_vars => <>[](selectedLevel # "ros")

\* "The force is lifted by the switch returning to the forced level or below":
\* a switch left there does not leave the force standing for ever.
ForceLiftedBySwitch ==
  \A level \in Levels :
    <>[](requestedLevel = level) =>
      ~<>[](forcedLevel # NoLevel /\ Rank[level] <= Rank[forcedLevel])
============================================================================
