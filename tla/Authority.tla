----------------------------- MODULE Authority -----------------------------
(***************************************************************************)
(* What VmsCore.Managers.ControlLevel promises the rest of the vehicle,    *)
(* whatever the order in which its tests are written: authority climbs one *)
(* rung at a time and only on a vehicle that stands still and may drive,   *)
(* falls at once when it must, and a fall that was forced stays latched    *)
(* until it is acknowledged.                                               *)
(*                                                                         *)
(* ControlLevel.tla implements this specification.                         *)
(***************************************************************************)
EXTENDS Naturals

VARIABLES
  level,    \* who has authority
  latch,    \* the level a fall was forced to, until it is acknowledged
  planner,  \* TRUE while the ROS commander is the planner
  vehicle   \* what the manager knows of the vehicle

vars == <<level, latch, planner, vehicle>>

Levels == {"manual", "radio", "ros"}
NoLevel == "none"
Rank == [manual |-> 0, radio |-> 1, ros |-> 2]

\* still: known to stand still; drivable: ready and nobody on the brake;
\* trusted: nothing overrides ROS.
VehicleFacts == [still : BOOLEAN, drivable : BOOLEAN, trusted : BOOLEAN]

TypeOK ==
  /\ level \in Levels
  /\ latch \in Levels \cup {NoLevel}
  /\ planner \in BOOLEAN
  /\ vehicle \in VehicleFacts

Init ==
  /\ level \in Levels
  /\ latch = NoLevel
  /\ planner = FALSE
  /\ vehicle \in VehicleFacts

----------------------------------------------------------------------------

\* The vehicle changes under the manager's feet.
Observe ==
  /\ vehicle' \in VehicleFacts
  /\ UNCHANGED <<level, latch, planner>>

\* Falls are taken at once, moving or not, and latched.
ForceTo(l) ==
  /\ Rank[l] < Rank[level]
  /\ \/ l = "manual" /\ ~vehicle.drivable
     \/ l = "radio" /\ ~vehicle.trusted
  /\ level' = l
  /\ latch' = l
  /\ planner' = FALSE
  /\ UNCHANGED vehicle

\* The operator gives the vehicle back to its own controls.
GiveUp ==
  /\ level' = "manual"
  /\ planner' = FALSE
  /\ UNCHANGED <<latch, vehicle>>

\* Any other change is one rung, at a standstill, with nothing latched.
Step(l) ==
  /\ latch = NoLevel
  /\ vehicle.still /\ vehicle.drivable
  /\ l = "radio" \/ (l = "ros" /\ level = "radio" /\ vehicle.trusted)
  /\ level' = l
  /\ planner' = FALSE \/ l = "ros"
  /\ planner' \in BOOLEAN
  /\ UNCHANGED <<latch, vehicle>>

Acknowledge ==
  /\ latch # NoLevel
  /\ Rank[level] <= Rank[latch]
  /\ latch' = NoLevel
  /\ planner' = FALSE
  /\ UNCHANGED <<level, vehicle>>

\* The planner takes the wheel inside :ros and at a standstill only.
Arm ==
  /\ level = "ros" /\ vehicle.still
  /\ planner' = TRUE
  /\ UNCHANGED <<level, latch, vehicle>>

Disarm ==
  /\ planner' = FALSE
  /\ UNCHANGED <<level, latch, vehicle>>

Next ==
  \/ Observe
  \/ \E l \in Levels : ForceTo(l)
  \/ GiveUp
  \/ \E l \in Levels : Step(l)
  \/ Acknowledge
  \/ Arm
  \/ Disarm

Spec == Init /\ [][Next]_vars

----------------------------------------------------------------------------

\* A forced fall holds: no level above the latch until it is acknowledged.
LatchHolds == latch # NoLevel => Rank[level] <= Rank[latch]

\* The planner never has the wheel outside :ros.
PlannerOnlyInRos == planner => level = "ros"

\* Somebody is given more of the vehicle than before.
Handover == Rank[level'] > Rank[level] \/ (planner' /\ ~planner)

KnownStill == vehicle.still

\* Authority is never raised, nor the wheel given to the planner, on a
\* vehicle that may be moving.
NoHandoverWhileMoving == [][Handover => KnownStill]_vars
============================================================================
