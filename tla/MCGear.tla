------------------------------- MODULE MCGear -------------------------------
(* Two components to choose from are enough for every way a source can be    *)
(* named: the one a message comes from, another one, or none.                *)
EXTENDS Gear

Hands == {"radio", "joystick"}
============================================================================
