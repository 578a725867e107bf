---------------------------- MODULE MCVmsHealth ----------------------------
(* A controller that fails and one that is told; a tick of half a second, so *)
(* that the reset, the boot reset and the boot period keep their 1, 3 and 5 s. *)
EXTENDS VmsHealth

CONSTANTS front, rear, request

Pair == {front, rear}
Requests == {request}
============================================================================
