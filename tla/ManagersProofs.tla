--------------------------- MODULE ManagersProofs ---------------------------
(***************************************************************************)
(* The safety of the two managers of the VMS, each by itself.              *)
(*                                                                         *)
(* The control level manager, for every wiring: any actuators and sources, *)
(* any map between them, any subset of the optional sources, any default   *)
(* level and any health timeout.                                           *)
(*                                                                         *)
(* The gear manager, for any set of components it may be told to listen    *)
(* to: whatever ControlLevel names, in whatever order its messages         *)
(* interleave with the requests, the vehicle's and the loop.               *)
(***************************************************************************)
EXTENDS ControlLevel, Gear, TLAPS


ConstantsOK ==
  /\ SourceMap \in [Actuators -> [Routes -> Sources \cup {NoSource}]]
  /\ Fitted \subseteq OptionalSources
  /\ DefaultLevel \in Levels
  /\ HealthTimeout \in Nat

LEMMA ConstantsAreOK == ConstantsOK
  BY SourceMapAssumption, FittedAssumption, DefaultLevelAssumption,
     HealthTimeoutAssumption
  DEF ConstantsOK

\* A level and a commander resolve to a source for every actuator.
LEMMA RoutesForType ==
  ASSUME NEW level \in Levels, NEW commander \in Commanders
  PROVE  RoutesFor(level, commander) \in [Actuators -> Sources \cup {NoSource}]
<1>1. (IF level = "ros" THEN commander ELSE level) \in Routes
  BY DEF Levels, Commanders, Routes
<1>2. QED
  BY <1>1, ConstantsAreOK DEF ConstantsOK, RoutesFor, SourceFor

----------------------------------------------------------------------------
(* What a loop does to the decision.                                       *)

LEMMA LoopLevelType ==
  ASSUME TypeOK, SelectControlLevel
  PROVE  selectedLevel' \in Levels /\ forcedLevel' \in Levels \cup {NoLevel}
  BY DEF TypeOK, SelectControlLevel, HonourSwitch, ForceTo, Take, Levels

LEMMA LoopCommanderType ==
  ASSUME TypeOK, SelectRosCommander
  PROVE  selectedCommander' \in Commanders
  BY DEF TypeOK, SelectRosCommander, Commanders

\* The manager's state is well typed in every reachable state, whatever the
\* order of the messages, the ticks and the loops.
THEOREM TypeCorrect == Spec => []TypeOK
<1>1. Init => TypeOK
  <2> SUFFICES ASSUME Init PROVE TypeOK
    OBVIOUS
  <2>1. DefaultLevel \in Levels /\ HealthTimeout \in Nat
    BY ConstantsAreOK DEF ConstantsOK
  <2>2. routed \in [Actuators -> Sources \cup {NoSource}]
    BY <2>1, RoutesForType DEF Init, Commanders
  <2>3. healthAge \in 0 .. HealthTimeout + 1
    BY <2>1 DEF Init
  <2>4. QED
    BY <2>1, <2>2, <2>3 DEF Init, TypeOK, Commanders, Speeds
<1>2. TypeOK /\ [Next]_vars => TypeOK'
  <2> SUFFICES ASSUME TypeOK, [Next]_vars PROVE TypeOK'
    OBVIOUS
  <2>1. ASSUME NEW level \in Levels, HandleRequestedLevel(level) PROVE TypeOK'
    BY <2>1 DEF TypeOK, HandleRequestedLevel, rotation, decision
  <2>2. ASSUME NEW commander \in Commanders, HandleRequestedCommander(commander)
        PROVE  TypeOK'
    BY <2>2 DEF TypeOK, HandleRequestedCommander, rotation, decision
  <2>3. ASSUME NEW b \in BOOLEAN, HandleManualBraking(b) PROVE TypeOK'
    BY <2>3 DEF TypeOK, HandleManualBraking, requests, rotation, decision
  <2>4. ASSUME NEW b \in BOOLEAN, HandleRadioBraking(b) PROVE TypeOK'
    BY <2>4 DEF TypeOK, HandleRadioBraking, requests, rotation, decision
  <2>5. ASSUME NEW b \in BOOLEAN, HandleCrossCheckFault(b) PROVE TypeOK'
    BY <2>5 DEF TypeOK, HandleCrossCheckFault, requests, decision
  <2>6. ASSUME NEW b \in BOOLEAN, HandleRotationHealthy(b) PROVE TypeOK'
    BY <2>6, ConstantsAreOK
    DEF TypeOK, HandleRotationHealthy, requests, decision, ConstantsOK
  <2>7. ASSUME NEW b \in BOOLEAN, HandleReadyToDrive(b) PROVE TypeOK'
    BY <2>7 DEF TypeOK, HandleReadyToDrive, requests, rotation, decision
  <2>8. ASSUME NEW value \in Speeds, HandleSpeed(value) PROVE TypeOK'
    BY <2>8 DEF TypeOK, HandleSpeed, requests, rotation, decision
  <2>9. CASE Tick
    BY <2>9, ConstantsAreOK DEF TypeOK, Tick, requests, decision, ConstantsOK
  <2>10. CASE Loop
    <3>1. /\ selectedLevel' \in Levels
          /\ forcedLevel' \in Levels \cup {NoLevel}
          /\ selectedCommander' \in Commanders
      BY <2>10, LoopLevelType, LoopCommanderType DEF Loop
    <3>2. RoutesFor(selectedLevel', selectedCommander')
            \in [Actuators -> Sources \cup {NoSource}]
      BY <3>1, RoutesForType
    <3>3. routed' \in [Actuators -> Sources \cup {NoSource}]
      BY <2>10, <3>2 DEF Loop, SelectSources, TypeOK
    <3>4. QED
      BY <2>10, <3>1, <3>3 DEF TypeOK, Loop, inputs, requests, rotation
  <2>11. CASE UNCHANGED vars
    BY <2>11 DEF TypeOK, vars, inputs, requests, rotation, decision
  <2>12. QED
    BY <2>1, <2>2, <2>3, <2>4, <2>5, <2>6, <2>7, <2>8, <2>9, <2>10, <2>11 DEF Next
<1>3. QED
  BY <1>1, <1>2, PTL DEF Spec

----------------------------------------------------------------------------
(* The inductive invariant.  RoutedAsDecided is its last two conjuncts.     *)
(* LatchHolds is what the refinement needs besides: a force is lifted in a  *)
(* loop that may also set the commander, and only because a latch is never  *)
(* :ros, and never overtaken, is that loop known to leave the planner       *)
(* disarmed.                                                                *)

LatchHolds ==
  /\ forcedLevel # "ros"
  /\ forcedLevel # NoLevel => Rank[selectedLevel] <= Rank[forcedLevel]

PlannerInRos == selectedCommander = "autonomous" => selectedLevel = "ros"

Routed ==
  "level_switch" \in Fitted => routed = RoutesFor(selectedLevel, selectedCommander)

IInv == TypeOK /\ LatchHolds /\ PlannerInRos /\ Routed

\* Every message and every tick leaves the decision alone.
LEMMA OnlyLoopDecides ==
  ASSUME [Next]_vars
  PROVE  Loop \/ UNCHANGED decision
<1>1. ASSUME NEW level \in Levels, HandleRequestedLevel(level)
      PROVE  UNCHANGED decision
  BY <1>1 DEF HandleRequestedLevel
<1>2. ASSUME NEW commander \in Commanders, HandleRequestedCommander(commander)
      PROVE  UNCHANGED decision
  BY <1>2 DEF HandleRequestedCommander
<1>3. ASSUME NEW b \in BOOLEAN,
             \/ HandleManualBraking(b) \/ HandleRadioBraking(b)
             \/ HandleCrossCheckFault(b) \/ HandleRotationHealthy(b)
             \/ HandleReadyToDrive(b)
      PROVE  UNCHANGED decision
  BY <1>3 DEF HandleManualBraking, HandleRadioBraking, HandleCrossCheckFault,
              HandleRotationHealthy, HandleReadyToDrive
<1>4. ASSUME NEW value \in Speeds, HandleSpeed(value)
      PROVE  UNCHANGED decision
  BY <1>4 DEF HandleSpeed
<1>5. Tick => UNCHANGED decision
  BY DEF Tick
<1>6. UNCHANGED vars => UNCHANGED decision
  BY DEF vars
<1>7. QED
  BY <1>1, <1>2, <1>3, <1>4, <1>5, <1>6 DEF Next

LEMMA LoopKeepsLatch ==
  ASSUME TypeOK, LatchHolds, SelectControlLevel
  PROVE  LatchHolds'
<1> USE DEF Rank, NoLevel, Levels, TypeOK, LatchHolds
<1>1. CASE "level_switch" \notin Fitted
  BY <1>1 DEF SelectControlLevel
<1>2. CASE (MustGoManual /\ ForceTo("manual")) \/ (MustGoRadio /\ ForceTo("radio"))
  BY <1>2 DEF ForceTo
<1>3. CASE HonourSwitch
  BY <1>3 DEF HonourSwitch, Take, MayTakeManual, MayTakeRadio, MayTakeRos
<1>4. QED
  BY <1>1, <1>2, <1>3 DEF SelectControlLevel

LEMMA LoopKeepsPlannerInRos ==
  ASSUME PlannerInRos, SelectRosCommander
  PROVE  PlannerInRos'
  BY DEF PlannerInRos, SelectRosCommander

LEMMA InductiveInvariant == Spec => []IInv
<1>1. Init => LatchHolds /\ PlannerInRos /\ Routed
  BY DEF Init, LatchHolds, PlannerInRos, Routed, NoLevel
<1>2. TypeOK /\ LatchHolds /\ PlannerInRos /\ Routed /\ [Next]_vars
        => LatchHolds' /\ PlannerInRos' /\ Routed'
  <2> SUFFICES ASSUME TypeOK, LatchHolds, PlannerInRos, Routed, [Next]_vars
               PROVE  LatchHolds' /\ PlannerInRos' /\ Routed'
    OBVIOUS
  <2>1. CASE Loop
    <3>1. LatchHolds' /\ PlannerInRos'
      BY <2>1, LoopKeepsLatch, LoopKeepsPlannerInRos DEF Loop
    <3>2. Routed'
      BY <2>1 DEF Loop, SelectSources, Routed, RoutesFor, SourceFor
    <3>3. QED
      BY <3>1, <3>2
  <2>2. CASE UNCHANGED decision
    BY <2>2 DEF decision, LatchHolds, PlannerInRos, Routed, RoutesFor, SourceFor
  <2>3. QED
    BY <2>1, <2>2, OnlyLoopDecides
<1>3. QED
  BY <1>1, <1>2, TypeCorrect, PTL DEF Spec, IInv

\* No actuator is ever routed by an earlier decision, and the planner has the
\* wheel in :ros only, whichever callback ran last.
THEOREM RoutingIsCurrent == Spec => []RoutedAsDecided
<1>1. IInv => RoutedAsDecided
  BY DEF IInv, PlannerInRos, Routed, RoutedAsDecided
<1>2. QED
  BY <1>1, InductiveInvariant, PTL

----------------------------------------------------------------------------

\* A loop of the manager never ends in a level whose cause of refusal is active.
THEOREM LoopEndsJustified == Spec => JustifiedAfterLoop
<1>1. ASSUME TypeOK, Loop, "level_switch" \in Fitted
      PROVE  /\ selectedLevel' # "manual" => readyToDrive /\ ~manualBraking
             /\ selectedLevel' = "ros" => ~RosOverridden
  <2>1. SelectControlLevel
    BY <1>1 DEF Loop
  <2>2. CASE (MustGoManual /\ ForceTo("manual")) \/ (MustGoRadio /\ ForceTo("radio"))
    BY <2>2 DEF ForceTo, MustGoRadio, MustGoManual
  <2>3. CASE ~MustGoManual /\ ~MustGoRadio /\ HonourSwitch
    BY <2>3 DEF MustGoManual, MustGoRadio, HonourSwitch, Take, MayTakeManual,
                MayTakeRadio, MayTakeRos
  <2>4. QED
    BY <1>1, <2>1, <2>2, <2>3 DEF SelectControlLevel
<1>2. TypeOK /\ [Next]_vars =>
        [Loop /\ "level_switch" \in Fitted =>
           /\ selectedLevel' # "manual" => readyToDrive /\ ~manualBraking
           /\ selectedLevel' = "ros" => ~RosOverridden]_vars
  BY <1>1
<1>3. QED
  BY <1>2, TypeCorrect, PTL DEF Spec, JustifiedAfterLoop

----------------------------------------------------------------------------
(* The manager implements Authority.                                        *)

LEMMA LoopImplements ==
  ASSUME IInv, Loop
  PROVE  Promise!Next \/ UNCHANGED Promise!vars
<1> DEFINE planner == selectedCommander = "autonomous"
<1>1. /\ SelectControlLevel /\ SelectRosCommander
      /\ UNCHANGED inputs
      /\ selectedLevel \in Levels /\ forcedLevel \in Levels \cup {NoLevel}
      /\ LatchHolds
  BY DEF Loop, IInv, TypeOK
<1>2. /\ Standstill' = Standstill
      /\ (readyToDrive /\ ~manualBraking)' = (readyToDrive /\ ~manualBraking)
      /\ RosOverridden' = RosOverridden
  BY <1>1 DEF inputs, requests, rotation, Standstill, RosOverridden, HealthyRotation
<1>3. selectedLevel' # "ros" => ~planner'
  BY <1>1 DEF SelectRosCommander
<1>4. CASE MustGoManual /\ ForceTo("manual")
  <2>1. Promise!Rank["manual"] < Promise!Rank[selectedLevel]
    BY <1>1, <1>4 DEF Promise!Rank, MustGoManual, Levels
  <2>2. Promise!ForceTo("manual")
    BY <1>2, <1>3, <1>4, <2>1 DEF Promise!ForceTo, MustGoManual, ForceTo
  <2>3. QED
    BY <2>2 DEF Promise!Next, Promise!Levels
<1>5. CASE MustGoRadio /\ ForceTo("radio")
  <2>1. Promise!Rank["radio"] < Promise!Rank[selectedLevel]
    BY <1>5 DEF Promise!Rank, MustGoRadio
  <2>2. Promise!ForceTo("radio")
    BY <1>2, <1>3, <1>5, <2>1 DEF Promise!ForceTo, MustGoRadio, ForceTo
  <2>3. QED
    BY <2>2 DEF Promise!Next, Promise!Levels
<1>6. CASE MayTakeManual /\ Take("manual")
  <2>1. Promise!GiveUp
    BY <1>2, <1>3, <1>6 DEF Promise!GiveUp, Take
  <2>2. QED
    BY <2>1 DEF Promise!Next
<1>7. CASE MayTakeRadio /\ Take("radio")
  <2>1. Promise!Step("radio")
    BY <1>2, <1>3, <1>7 DEF Promise!Step, Promise!NoLevel, NoLevel, MayTakeRadio, Take
  <2>2. QED
    BY <2>1 DEF Promise!Next, Promise!Levels
<1>8. CASE ~MustGoManual /\ MayTakeRos /\ Take("ros")
  <2>1. Promise!Step("ros")
    BY <1>2, <1>8 DEF Promise!Step, Promise!NoLevel, NoLevel, MustGoManual, MayTakeRos, Take
  <2>2. QED
    BY <2>1 DEF Promise!Next, Promise!Levels
<1>9. CASE MayLiftForce /\ forcedLevel' = NoLevel /\ UNCHANGED selectedLevel
  <2>1. selectedLevel # "ros"
    BY <1>1, <1>9 DEF LatchHolds, MayLiftForce, Rank, Levels, NoLevel
  <2>2. Promise!Acknowledge
    BY <1>2, <1>3, <1>9, <2>1
    DEF Promise!Acknowledge, Promise!NoLevel, Promise!Rank, NoLevel, Rank, MayLiftForce
  <2>3. QED
    BY <2>2 DEF Promise!Next
<1>10. CASE UNCHANGED <<selectedLevel, forcedLevel>>
  <2>1. CASE planner' = planner
    BY <1>2, <1>10, <2>1 DEF Promise!vars
  <2>2. CASE planner /\ ~planner'
    BY <1>2, <1>10, <2>2 DEF Promise!Next, Promise!Disarm
  <2>3. CASE ~planner /\ planner'
    <3>1. selectedLevel = "ros" /\ Standstill
      BY <1>1, <1>10, <2>3 DEF SelectRosCommander
    <3>2. Promise!Arm
      BY <1>2, <1>10, <2>3, <3>1 DEF Promise!Arm
    <3>3. QED
      BY <3>2 DEF Promise!Next
  <2>4. QED
    BY <2>1, <2>2, <2>3
<1>11. QED
  BY <1>1, <1>4, <1>5, <1>6, <1>7, <1>8, <1>9, <1>10 DEF SelectControlLevel, HonourSwitch

\* Every behaviour of the manager is one of Authority: one rung at a time and at
\* a standstill, forced falls at once and latched, the planner in :ros only.
THEOREM ImplementsAuthority == Spec => RefinesAuthority
<1>1. Init => Promise!Init
  <2> SUFFICES ASSUME Init PROVE Promise!Init
    OBVIOUS
  <2>1. DefaultLevel \in Levels
    BY ConstantsAreOK DEF ConstantsOK
  <2>2. QED
    BY <2>1 DEF Init, Promise!Init, Promise!Levels, Promise!NoLevel, Levels, NoLevel,
                Promise!VehicleFacts, Standstill, RosOverridden, HealthyRotation
<1>2. IInv /\ IInv' /\ [Next]_vars => [Promise!Next]_(Promise!vars)
  <2> SUFFICES ASSUME IInv, IInv', [Next]_vars
               PROVE  Promise!Next \/ UNCHANGED Promise!vars
    OBVIOUS
  <2>1. CASE Loop
    BY <2>1, LoopImplements
  <2>2. CASE UNCHANGED decision
    <3>1. Promise!Observe
      BY <2>2
      DEF Promise!Observe, Promise!VehicleFacts, decision, IInv, TypeOK, Standstill,
          RosOverridden, HealthyRotation
    <3>2. QED
      BY <3>1 DEF Promise!Next
  <2>3. QED
    BY <2>1, <2>2, OnlyLoopDecides
<1>3. QED
  BY <1>1, <1>2, InductiveInvariant, PTL DEF Spec, RefinesAuthority, Promise!Spec

\* What Authority guarantees, the manager therefore guarantees: neither a higher
\* level nor the planner's wheel is ever given to a vehicle that may be moving.
THEOREM NoHandoverWhileMoving == Spec => Promise!NoHandoverWhileMoving
<1>1. ASSUME IInv, IInv', Promise!Next, Promise!Handover
      PROVE  Promise!KnownStill
  <2> USE DEF Promise!Rank, Promise!Levels
  <2>1. /\ selectedLevel \in Levels /\ selectedLevel' \in Levels
        /\ \/ Promise!Rank[selectedLevel'] > Promise!Rank[selectedLevel]
           \/ selectedCommander' = "autonomous" /\ selectedCommander # "autonomous"
    BY <1>1 DEF IInv, TypeOK, Promise!Handover
  <2>2. ~Promise!Observe /\ ~Promise!Acknowledge /\ ~Promise!Disarm
    BY <1>1, <2>1 DEF Promise!Observe, Promise!Acknowledge, Promise!Disarm, Levels
  <2>3. ~Promise!GiveUp
    BY <1>1, <2>1 DEF Promise!GiveUp, Levels
  <2>4. ASSUME NEW l \in Promise!Levels PROVE ~Promise!ForceTo(l)
    BY <1>1, <2>1, <2>4 DEF Promise!ForceTo, Levels
  <2>5. ASSUME NEW l \in Promise!Levels, Promise!Step(l) PROVE Promise!KnownStill
    BY <2>5 DEF Promise!Step, Promise!KnownStill
  <2>6. Promise!Arm => Promise!KnownStill
    BY DEF Promise!Arm, Promise!KnownStill
  <2>7. QED
    BY <1>1, <2>2, <2>3, <2>4, <2>5, <2>6 DEF Promise!Next
<1>2. IInv /\ IInv' /\ [Promise!Next]_(Promise!vars) =>
        [Promise!Handover => Promise!KnownStill]_(Promise!vars)
  BY <1>1
<1>3. QED
  BY <1>2, InductiveInvariant, ImplementsAuthority, PTL
  DEF RefinesAuthority, Promise!Spec, Promise!NoHandoverWhileMoving

----------------------------------------------------------------------------
(* The gear manager                                                         *)


\* A gear manager's step is a loop, or a message that leaves the gear alone.
LEMMA OnlyLoopShifts ==
  ASSUME [GearNext]_gearVars
  PROVE  GearLoop \/ selectedGear' = selectedGear
<1>1. ASSUME NEW source \in Components \cup {NoComponent},
             \/ HandleGearSource(source) \/ HandleDirectionSource(source)
             \/ HandleThrottleSource(source)
      PROVE  selectedGear' = selectedGear
  BY <1>1 DEF HandleGearSource, HandleDirectionSource, HandleThrottleSource
<1>2. ASSUME NEW source \in Components,
             \/ \E gear \in Gears : HandleRequestedGear(source, gear)
             \/ \E direction \in Directions : HandleRequestedDirection(source, direction)
             \/ \E throttle \in Throttles : HandleRequestedThrottle(source, throttle)
      PROVE  selectedGear' = selectedGear
  BY <1>2 DEF HandleRequestedGear, HandleRequestedDirection, HandleRequestedThrottle
<1>3. ASSUME \/ \E value \in SpeedBands : HandleVehicleSpeed(value)
             \/ \E ready \in BOOLEAN : HandleVehicleReady(ready)
             \/ \E value \in Contacts : HandleContact(value)
      PROVE  selectedGear' = selectedGear
  BY <1>3 DEF HandleVehicleSpeed, HandleVehicleReady, HandleContact
<1>4. Message => selectedGear' = selectedGear
  BY <1>1, <1>2, <1>3 DEF Message
<1>5. UNCHANGED gearVars => selectedGear' = selectedGear
  BY DEF gearVars
<1>6. QED
  BY <1>4, <1>5 DEF GearNext

----------------------------------------------------------------------------

LEMMA NextGearType ==
  ASSUME GearTypeOK
  PROVE  NextGear \in Gears
  BY DEF GearTypeOK, NextGear, Gears, Engages

\* The manager's state is well typed in every reachable state.
THEOREM GearTypeCorrect == GearSpec => []GearTypeOK
<1>1. GearInit => GearTypeOK
  BY DEF GearInit, GearTypeOK, Gears, SpeedBands, Throttles
<1>2. GearTypeOK /\ [GearNext]_gearVars => GearTypeOK'
  <2> SUFFICES ASSUME GearTypeOK, [GearNext]_gearVars PROVE GearTypeOK'
    OBVIOUS
  <2> USE DEF GearTypeOK
  <2>1. ASSUME NEW source \in Components \cup {NoComponent}, HandleGearSource(source)
        PROVE  GearTypeOK'
    BY <2>1 DEF HandleGearSource, vehicle
  <2>2. ASSUME NEW source \in Components \cup {NoComponent}, HandleDirectionSource(source)
        PROVE  GearTypeOK'
    BY <2>2 DEF HandleDirectionSource, vehicle
  <2>3. ASSUME NEW source \in Components \cup {NoComponent}, HandleThrottleSource(source)
        PROVE  GearTypeOK'
    BY <2>3 DEF HandleThrottleSource, vehicle, Throttles
  <2>4. ASSUME NEW source \in Components, NEW gear \in Gears, HandleRequestedGear(source, gear)
        PROVE  GearTypeOK'
    BY <2>4 DEF HandleRequestedGear, sources, vehicle
  <2>5. ASSUME NEW source \in Components, NEW direction \in Directions,
               HandleRequestedDirection(source, direction)
        PROVE  GearTypeOK'
    BY <2>5 DEF HandleRequestedDirection, sources, vehicle, Gears
  <2>6. ASSUME NEW source \in Components, NEW throttle \in Throttles,
               HandleRequestedThrottle(source, throttle)
        PROVE  GearTypeOK'
    BY <2>6 DEF HandleRequestedThrottle, sources, vehicle
  <2>7. ASSUME NEW value \in SpeedBands, HandleVehicleSpeed(value) PROVE GearTypeOK'
    BY <2>7 DEF HandleVehicleSpeed, sources
  <2>8. ASSUME NEW ready \in BOOLEAN, HandleVehicleReady(ready) PROVE GearTypeOK'
    BY <2>8 DEF HandleVehicleReady, sources
  <2>9. ASSUME NEW value \in Contacts, HandleContact(value) PROVE GearTypeOK'
    BY <2>9 DEF HandleContact, sources
  <2>10. CASE GearLoop
    BY <2>10, NextGearType DEF GearLoop, sources, vehicle
  <2>11. CASE UNCHANGED gearVars
    BY <2>11 DEF gearVars, sources, vehicle
  <2>12. QED
    BY <2>1, <2>2, <2>3, <2>4, <2>5, <2>6, <2>7, <2>8, <2>9, <2>10, <2>11
    DEF GearNext, Message
<1>3. QED
  BY <1>1, <1>2, PTL DEF GearSpec

----------------------------------------------------------------------------

\* A throttle nobody commands is released: what a hand held as its source went
\* away neither refuses a gear nor waits for the next source.
NothingHeld == requestedThrottleSource = NoComponent => requestedThrottle = "released"

THEOREM UncommandedThrottleIsReleased == GearSpec => []NothingHeld
<1>1. GearInit => NothingHeld
  BY DEF GearInit, NothingHeld
<1>2. NothingHeld /\ [GearNext]_gearVars => NothingHeld'
  <2> SUFFICES ASSUME NothingHeld, [GearNext]_gearVars PROVE NothingHeld'
    OBVIOUS
  <2> USE DEF NothingHeld
  <2>1. ASSUME NEW source \in Components \cup {NoComponent},
               \/ HandleGearSource(source) \/ HandleDirectionSource(source)
        PROVE  NothingHeld'
    BY <2>1 DEF HandleGearSource, HandleDirectionSource
  <2>2. ASSUME NEW source \in Components \cup {NoComponent}, HandleThrottleSource(source)
        PROVE  NothingHeld'
    BY <2>2 DEF HandleThrottleSource
  <2>3. ASSUME NEW source \in Components, NEW throttle \in Throttles,
               HandleRequestedThrottle(source, throttle)
        PROVE  NothingHeld'
    BY <2>3, NoComponentAssumption DEF HandleRequestedThrottle, sources
  <2>4. ASSUME UNCHANGED <<requestedThrottleSource, requestedThrottle>>
        PROVE  NothingHeld'
    BY <2>4
  <2>5. ASSUME NEW source \in Components,
               \/ \E gear \in Gears : HandleRequestedGear(source, gear)
               \/ \E direction \in Directions : HandleRequestedDirection(source, direction)
        PROVE  NothingHeld'
    BY <2>5, <2>4 DEF HandleRequestedGear, HandleRequestedDirection, sources
  <2>6. ASSUME \/ \E value \in SpeedBands : HandleVehicleSpeed(value)
               \/ \E ready \in BOOLEAN : HandleVehicleReady(ready)
               \/ \E value \in Contacts : HandleContact(value)
        PROVE  NothingHeld'
    BY <2>6, <2>4 DEF HandleVehicleSpeed, HandleVehicleReady, HandleContact, sources
  <2>7. CASE GearLoop \/ UNCHANGED gearVars
    BY <2>7, <2>4 DEF GearLoop, gearVars, sources
  <2>8. QED
    BY <2>1, <2>2, <2>3, <2>5, <2>6, <2>7 DEF GearNext, Message
<1>3. QED
  BY <1>1, <1>2, PTL DEF GearSpec

----------------------------------------------------------------------------

\* No gear but neutral is engaged unless the vehicle is known to be near
\* standstill with the throttle released, or the contact is off.
THEOREM EngagementIsSafe == GearSpec => EngagedOnlyNearStandstill
<1>1. ASSUME GearTypeOK, GearLoop, selectedGear' # selectedGear
      PROVE  \/ selectedGear' = "neutral"
             \/ selectedGear' = "parking" /\ contact = "off"
             \/ vehicleSpeed = "near_zero" /\ requestedThrottle = "released"
  BY <1>1 DEF GearLoop, NextGear, Parks, Engages, CanEngage
<1>2. GearTypeOK /\ [GearNext]_gearVars =>
        [ selectedGear' # selectedGear =>
            \/ selectedGear' = "neutral"
            \/ selectedGear' = "parking" /\ contact = "off"
            \/ vehicleSpeed = "near_zero" /\ requestedThrottle = "released" ]_gearVars
  BY <1>1, OnlyLoopShifts
<1>3. QED
  BY <1>2, GearTypeCorrect, PTL DEF GearSpec, EngagedOnlyNearStandstill

\* From any reachable state the next loop ends neither in the gear opposite to the
\* one requested, nor in a driving gear on a vehicle that is not ready.
THEOREM GearLoopIsSafe == GearSpec => []LoopEndsSafe
<1>1. ASSUME GearTypeOK PROVE ~Reversal(NextGear, requestedGear)
  <2>1. CASE NextGear = selectedGear
    <3>1. SUFFICES ASSUME Reversal(selectedGear, requestedGear) PROVE FALSE
      BY <2>1
    <3>2. /\ selectedGear # requestedGear
          /\ requestedGear \in {"reverse", "drive"}
          /\ selectedGear \in {"reverse", "drive"}
      BY <3>1 DEF Reversal
    <3>3. QED
      BY <2>1, <3>1, <3>2 DEF NextGear, Engages
  <2>2. CASE NextGear # selectedGear
    <3>1. NextGear \in {"parking", "neutral"} \/ NextGear = requestedGear
      BY <2>2 DEF NextGear
    <3>2. QED
      BY <3>1 DEF Reversal
  <2>3. QED
    BY <2>1, <2>2
<1>2. ASSUME GearTypeOK, NextGear \in {"reverse", "drive"} PROVE vehicleReady
  BY <1>2 DEF NextGear, GearTypeOK, Gears, Engages
<1>3. GearTypeOK => LoopEndsSafe
  BY <1>1, <1>2 DEF LoopEndsSafe
<1>4. QED
  BY <1>3, GearTypeCorrect, PTL
============================================================================
