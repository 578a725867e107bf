------------------------------- MODULE Gear -------------------------------
(***************************************************************************)
(* VmsCore.Managers.Gear: the GenServer that selects the gear from the one *)
(* requested, the speed, the throttle, the contact and the vehicle's       *)
(* readiness.  Which component requests the gear, the direction and the    *)
(* throttle is named by VmsCore.Managers.ControlLevel, in messages that    *)
(* arrive on their own.                                                    *)
(*                                                                         *)
(* Each message is one action and the 10 ms loop is one action.            *)
(***************************************************************************)
CONSTANTS
  Components,  \* the components ControlLevel may name
  NoComponent  \* nil

ASSUME NoComponentAssumption == NoComponent \notin Components

Gears == {"parking", "reverse", "neutral", "drive"}
NoContact == "none"
Contacts == {"off", "on", "start"}
Directions == {"forward", "backward"}

\* A speed is unknown (nil), below @gear_shift_speed_limit_km_h, or above.
SpeedBands == {"unknown", "near_zero", "moving"}

\* A throttle is below @gear_shift_throttle_limit, a brake included, or above.
Throttles == {"released", "pressed"}

VARIABLES
  requestedGearSource, requestedDirectionSource, requestedThrottleSource,
  requestedGear, requestedThrottle,
  vehicleSpeed, vehicleReady, contact,
  selectedGear

sources == <<requestedGearSource, requestedDirectionSource, requestedThrottleSource>>
vehicle == <<vehicleSpeed, vehicleReady, contact>>
gearVars == <<sources, requestedGear, requestedThrottle, vehicle, selectedGear>>

GearTypeOK ==
  /\ requestedGearSource \in Components \cup {NoComponent}
  /\ requestedDirectionSource \in Components \cup {NoComponent}
  /\ requestedThrottleSource \in Components \cup {NoComponent}
  /\ requestedGear \in Gears
  /\ requestedThrottle \in Throttles
  /\ vehicleSpeed \in SpeedBands
  /\ vehicleReady \in BOOLEAN
  /\ contact \in Contacts \cup {NoContact}
  /\ selectedGear \in Gears

GearInit ==
  /\ requestedGearSource = NoComponent
  /\ requestedDirectionSource = NoComponent
  /\ requestedThrottleSource = NoComponent
  /\ requestedGear = "parking"
  /\ requestedThrottle = "released"
  /\ vehicleSpeed = "near_zero"
  /\ vehicleReady = FALSE
  /\ contact = NoContact
  /\ selectedGear = "parking"

----------------------------------------------------------------------------
(* Where the requests come from, as ControlLevel last said.                *)

HandleGearSource(source) ==
  /\ requestedGearSource' = source
  /\ UNCHANGED <<requestedDirectionSource, requestedThrottleSource, requestedGear,
                 requestedThrottle, vehicle, selectedGear>>

HandleDirectionSource(source) ==
  /\ requestedDirectionSource' = source
  /\ UNCHANGED <<requestedGearSource, requestedThrottleSource, requestedGear,
                 requestedThrottle, vehicle, selectedGear>>

\* Mutation: a throttle nobody commands any more is held.
HandleThrottleSourceHolding(source) ==
  /\ requestedThrottleSource' = source
  /\ UNCHANGED <<requestedGearSource, requestedDirectionSource, requestedGear,
                 requestedThrottle, vehicle, selectedGear>>

\* With no source no request would match, and the last one would be held.
HandleThrottleSource(source) ==
  /\ requestedThrottleSource' = source
  /\ requestedThrottle' = IF source = NoComponent THEN "released" ELSE requestedThrottle
  /\ UNCHANGED <<requestedGearSource, requestedDirectionSource, requestedGear,
                 vehicle, selectedGear>>

----------------------------------------------------------------------------
(* The requests.  A gear is heard only while no direction source is named, *)
(* a direction only while no gear source is.                               *)

HandleRequestedGear(source, gear) ==
  /\ source = requestedGearSource
  /\ requestedDirectionSource = NoComponent
  /\ requestedGear' = gear
  /\ UNCHANGED <<sources, requestedThrottle, vehicle, selectedGear>>

HandleRequestedDirection(source, direction) ==
  /\ source = requestedDirectionSource
  /\ requestedGearSource = NoComponent
  /\ requestedGear' = IF direction = "forward" THEN "drive" ELSE "reverse"
  /\ UNCHANGED <<sources, requestedThrottle, vehicle, selectedGear>>

HandleRequestedThrottle(source, throttle) ==
  /\ source = requestedThrottleSource
  /\ requestedThrottle' = throttle
  /\ UNCHANGED <<sources, requestedGear, vehicle, selectedGear>>

----------------------------------------------------------------------------
(* The vehicle.                                                            *)

HandleVehicleSpeed(value) ==
  /\ vehicleSpeed' = value
  /\ UNCHANGED <<sources, requestedGear, requestedThrottle, vehicleReady, contact,
                 selectedGear>>

HandleVehicleReady(ready) ==
  /\ vehicleReady' = ready
  /\ UNCHANGED <<sources, requestedGear, requestedThrottle, vehicleSpeed, contact, selectedGear>>

HandleContact(value) ==
  /\ contact' = value
  /\ UNCHANGED <<sources, requestedGear, requestedThrottle, vehicleSpeed, vehicleReady,
                 selectedGear>>

----------------------------------------------------------------------------
(* The loop.                                                               *)

\* Mutation: an unknown speed passes for a standstill.
CanEngageUnknown == vehicleSpeed # "moving" /\ requestedThrottle = "released"

CanEngage == vehicleSpeed = "near_zero" /\ requestedThrottle = "released"

Reversal(from, to) == {from, to} = {"drive", "reverse"}

Parks == selectedGear # "parking" /\ requestedGear = "parking" /\ CanEngage

GoesNeutral == selectedGear # "neutral" /\ requestedGear = "neutral" /\ vehicleReady

Engages ==
  /\ selectedGear # requestedGear
  /\ requestedGear \in {"reverse", "drive"}
  /\ CanEngage /\ vehicleReady

\* Mutation: a request for the other direction waits in the present gear.
NextGearHoldingReversal ==
  IF contact = "off" /\ selectedGear # "parking" THEN "parking"
  ELSE IF ~vehicleReady /\ selectedGear \in {"reverse", "drive"} THEN "neutral"
  ELSE IF Parks THEN "parking"
  ELSE IF GoesNeutral THEN "neutral"
  ELSE IF Engages THEN requestedGear
  ELSE selectedGear

\* Mutation: readiness is tested before the contact.
NextGearReadyFirst ==
  IF ~vehicleReady /\ selectedGear # "neutral" THEN "neutral"
  ELSE IF contact = "off" /\ selectedGear # "parking" THEN "parking"
  ELSE IF Parks THEN "parking"
  ELSE IF GoesNeutral \/ (Reversal(selectedGear, requestedGear) /\ ~CanEngage) THEN "neutral"
  ELSE IF Engages THEN requestedGear
  ELSE selectedGear

\* next_gear/1, with the selected gear for its nil.
NextGear ==
  IF contact = "off" /\ selectedGear # "parking" THEN "parking"
  ELSE IF ~vehicleReady /\ selectedGear \in {"reverse", "drive"} THEN "neutral"
  ELSE IF Parks THEN "parking"
  ELSE IF GoesNeutral \/ (Reversal(selectedGear, requestedGear) /\ ~CanEngage) THEN "neutral"
  ELSE IF Engages THEN requestedGear
  ELSE selectedGear

GearLoop ==
  /\ selectedGear' = NextGear
  /\ UNCHANGED <<sources, requestedGear, requestedThrottle, vehicle>>

\* The messages of the bus, from the configured components.
Message ==
  \/ \E source \in Components \cup {NoComponent} :
       \/ HandleGearSource(source)
       \/ HandleDirectionSource(source)
       \/ HandleThrottleSource(source)
  \/ \E source \in Components :
       \/ \E gear \in Gears : HandleRequestedGear(source, gear)
       \/ \E direction \in Directions : HandleRequestedDirection(source, direction)
       \/ \E throttle \in Throttles : HandleRequestedThrottle(source, throttle)
  \/ \E value \in SpeedBands : HandleVehicleSpeed(value)
  \/ \E ready \in BOOLEAN : HandleVehicleReady(ready)
  \/ \E value \in Contacts : HandleContact(value)

GearNext == Message \/ GearLoop

GearSpec == GearInit /\ [][GearNext]_gearVars

\* :timer.send_interval keeps the loop coming.
FairGearSpec == GearSpec /\ WF_gearVars(GearLoop)

----------------------------------------------------------------------------
(* Properties.                                                             *)

\* "Parking, reverse and drive are engaged only near standstill with the throttle
\* released; the contact off forces parking": whatever was requested, by whom and
\* in what order, no gear is engaged on a vehicle that moves, whose speed is
\* unknown, or whose throttle is pressed, unless the contact is off.
EngagedOnlyNearStandstill ==
  [][ selectedGear' # selectedGear =>
        \/ selectedGear' = "neutral"
        \/ selectedGear' = "parking" /\ contact = "off"
        \/ vehicleSpeed = "near_zero" /\ requestedThrottle = "released" ]_gearVars

\* "A request for the opposite direction that cannot be served yet also drops to
\* neutral, so the throttle meant for it never drives the vehicle the other way":
\* from any state the next loop, the one that leaves the gear as it is included,
\* ends neither in the gear opposite to the one requested nor in a driving gear on
\* a vehicle that is not ready.
LoopEndsSafe ==
  /\ ~Reversal(NextGear, requestedGear)
  /\ NextGear \in {"reverse", "drive"} => vehicleReady

\* A contact off on a vehicle that is not ready ends in parking for good, from
\* any gear and at any speed: the branches do not pull the gear to and fro.
ContactOffParks ==
  <>[](contact = "off" /\ ~vehicleReady) => <>[](selectedGear = "parking")

\* A request that stays servable is served for good, even when the throttle was
\* pressed as its source went away: what nobody commands any more blocks nothing.
RequestServed ==
  \A gear \in Gears :
    <>[](/\ requestedGear = gear
         /\ requestedThrottleSource = NoComponent
         /\ vehicleSpeed = "near_zero"
         /\ vehicleReady /\ contact # "off") =>
      <>[](selectedGear = gear)
============================================================================
