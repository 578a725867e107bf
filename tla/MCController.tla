---------------------------- MODULE MCController ----------------------------
(* Two digital outputs tell one request from another; one retry and one tick *)
(* of heartbeat are enough for each to run out.                              *)
EXTENDS Controller

TwoPins == {0, 1}
============================================================================
