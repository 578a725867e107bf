----------------------------- MODULE PlannerDrive -----------------------------
(***************************************************************************)
(* A planner drives the motor: its velocity samples go through the bridge  *)
(* (consumers/velocity.ex, input_watchdog.ex), whose emitter repeats the   *)
(* last frame on a bus that may lose it; the VMS                           *)
(* (ros_velocity_command.ex, ros_command/freshness.ex) turns them into     *)
(* requests; the motor controller (vesc/motor_controller.ex) obeys those   *)
(* of the source the control level names, a planner's or a hand's.         *)
(*                                                                         *)
(* Velocities and requests keep their sign, and a nonzero one its source   *)
(* and its age.  Steering goes the same way.  Each loop runs once between  *)
(* two ticks, in any order; a process of the VMS that crashes is restarted *)
(* at once by its supervisor, the bridge's later, and its emitter outlives *)
(* it; a bus cut for good is one that loses every frame.                   *)
(***************************************************************************)
EXTENDS Integers, FiniteSetsExt

CONSTANTS
  BridgeTimeout, Grace, Timeout,  \* ticks
  Velocities, HandRequests, Gears,
  SequenceSize,      \* the sequence numbers there are, 0 to one less
  Levels,         \* sources the control level names: "none", "hand", "ros"
  Crashing,       \* processes that may crash: "bridge", "ros", "motor"
  MaxDisruptions  \* bound: crashes, and changes of the control level

VARIABLES
  bridgeUp, frame,  \* the sample and sequence the bridge's emitter repeats
  orphaned,       \* ticks for which the VMS has had the frame of a bridge that is down
  seen, created, inputStale, inputReported,  \* its watchdog
  observed, freshFor, tracked, stale, reported,  \* the VMS's freshness
  linear,         \* the velocity it follows
  level,          \* the throttle source the control level names
  source, request, gear, command, enabled,  \* the motor controller's
  since,          \* ticks since its source changed
  due,            \* loops that are to run in this tick
  disruptions

watchdog == <<seen, created, inputStale, inputReported>>
freshness == <<observed, freshFor, tracked, stale, reported>>
motor == <<source, request, gear, command, enabled, since>>
bridge == <<bridgeUp, frame, orphaned, watchdog>>
vms == <<freshness, linear>>
driveVars == <<bridge, vms, level, motor, due, disruptions>>

Loops == {"bridge", "ros", "hand", "motor"}
Never == -1
Zero == [of |-> "none", value |-> 0, age |-> 0]
Amount(of, value) == IF value = 0 THEN Zero ELSE [of |-> of, value |-> value, age |-> 0]
NoCommand == [frame |-> "none", amount |-> Zero]

\* Longest a sample may drive the motor, its repetition by a bridge that is
\* down left out: it is repeated until the bridge's watchdog, followed until
\* the VMS's, and each loop is a period late at most.
Bound == BridgeTimeout + Timeout + 3

DriveInit ==
  /\ bridgeUp = TRUE /\ frame = [sample |-> Zero, sequence |-> 0] /\ orphaned = 0
  /\ seen = Never /\ created = 0 /\ inputStale = TRUE /\ inputReported = FALSE
  /\ observed = Never /\ freshFor = Never /\ tracked = 0 /\ stale = TRUE /\ reported = FALSE
  /\ linear = Zero
  /\ level \in Levels
  /\ source = "none" /\ request = Zero /\ gear = "unknown" /\ command = NoCommand /\ enabled = {} /\ since = 0
  /\ due = Loops /\ disruptions = 0

Disrupted == disruptions < MaxDisruptions /\ disruptions' = disruptions + 1
Loop(l) == l \in due /\ due' = due \ {l}

-----------------------------------------------------------------------------
(* The bridge                                                              *)

NextSequence == (frame.sequence + 1) % SequenceSize
EmitNew(sample) == frame' = [sample |-> sample, sequence |-> NextSequence]

Sample(v) ==
  /\ bridgeUp
  /\ EmitNew(Amount("ros", v))
  /\ seen' = 0
  /\ UNCHANGED <<bridgeUp, orphaned, created, inputStale, inputReported, vms, level, motor, due, disruptions>>

InputExpired == seen = Never \/ seen > BridgeTimeout

\* A zero takes a sequence, as a sample does.
CheckInput ==
  /\ bridgeUp /\ Loop("bridge")
  /\ LET fresh == ~InputExpired /\ (inputStale \/ ~inputReported)
         silent == seen = Never /\ ~inputReported /\ created > Max({BridgeTimeout, Grace})
         lost == InputExpired /\ ~inputStale
     IN  /\ inputStale' = (~fresh /\ (silent \/ lost \/ inputStale))
         /\ inputReported' = (inputReported \/ fresh \/ silent \/ lost)
         /\ IF silent \/ lost THEN EmitNew(Zero) ELSE UNCHANGED frame
  /\ UNCHANGED <<bridgeUp, orphaned, seen, created, vms, level, motor, disruptions>>

\* Its emitter goes on.
BridgeDies ==
  /\ bridgeUp /\ "bridge" \in Crashing /\ Disrupted
  /\ bridgeUp' = FALSE
  /\ UNCHANGED <<frame, orphaned, watchdog, vms, level, motor, due>>

BridgeStarts ==
  /\ ~bridgeUp /\ bridgeUp' = TRUE /\ orphaned' = 0
  /\ frame' = [sample |-> Zero, sequence |-> 0]
  /\ seen' = Never /\ created' = 0 /\ inputStale' = TRUE /\ inputReported' = FALSE
  /\ UNCHANGED <<vms, level, motor, due, disruptions>>

-----------------------------------------------------------------------------
(* The velocity command of the VMS                                         *)

\* A frame gets through.
Observe ==
  /\ frame.sequence # observed
  /\ observed' = frame.sequence /\ freshFor' = 0 /\ linear' = frame.sample
  /\ UNCHANGED <<bridge, tracked, stale, reported, level, motor, due, disruptions>>

Expired == IF freshFor = Never THEN tracked > Timeout ELSE freshFor > Timeout

RosLoop ==
  /\ Loop("ros")
  /\ LET fresh == ~Expired /\ stale /\ freshFor # Never
         lost == Expired /\ (~stale \/ ~reported)
     IN  /\ stale' = (IF fresh THEN FALSE ELSE lost \/ stale)
         /\ reported' = (reported \/ fresh \/ lost)
         /\ linear' = IF lost THEN Zero ELSE linear
  /\ request' = IF source = "ros" THEN linear' ELSE request
  /\ UNCHANGED <<bridge, observed, freshFor, tracked, level, source, gear, command, enabled, since, disruptions>>

RestartRos ==
  /\ "ros" \in Crashing /\ Disrupted
  /\ observed' = Never /\ freshFor' = Never /\ tracked' = 0 /\ stale' = TRUE /\ reported' = FALSE
  /\ linear' = Zero /\ orphaned' = 0
  /\ UNCHANGED <<bridgeUp, frame, watchdog, level, motor, due>>

-----------------------------------------------------------------------------
(* The control level and the hand                                          *)

HandLoop ==
  /\ source = "hand" /\ Loop("hand")
  /\ \E v \in HandRequests : request' = Amount("hand", v)
  /\ UNCHANGED <<bridge, vms, level, source, gear, command, enabled, since, disruptions>>

\* The manager names the source in force in each of its loops; the motor
\* controller holds a request from one source to the next, unless there is
\* none.
NameSource ==
  /\ \/ level # source /\ UNCHANGED <<level, disruptions>>
     \/ level = source /\ Disrupted /\ level' \in Levels \ {level}
  /\ source' = level' /\ since' = 0
  /\ request' = IF source' = "none" THEN Zero ELSE request
  /\ UNCHANGED <<bridge, vms, gear, command, enabled, due>>

-----------------------------------------------------------------------------
(* The motor controller                                                    *)

SelectGear(g) ==
  /\ gear' = g /\ gear # g
  /\ UNCHANGED <<bridge, vms, level, source, request, command, enabled, since, due, disruptions>>

Release == [frame |-> "set_current", amount |-> Zero]

\* A velocity's sign is its direction; a hand's negative request brakes, and
\* its positive one drives in the gear's direction.
Command ==
  CASE source = "none" -> Release
    [] source = "ros" ->
         [frame |-> IF request = Zero THEN "set_duty" ELSE "set_rpm", amount |-> request]
    [] source = "hand" /\ request.value < 0 ->
         [frame |-> "set_current_brake", amount |-> [request EXCEPT !.value = -@]]
    [] source = "hand" /\ request.value >= 0 ->
         IF gear \notin {"drive", "reverse"} \/ request = Zero THEN Release
         ELSE [frame |-> "set_duty",
               amount |-> [request EXCEPT !.value = IF gear = "drive" THEN @ ELSE -@]]

MotorLoop ==
  /\ Loop("motor")
  /\ command' = Command
  /\ enabled' = IF Command.frame = command.frame THEN enabled
                ELSE (enabled \ {command.frame}) \cup {Command.frame}
  /\ UNCHANGED <<bridge, vms, level, source, request, gear, since, disruptions>>

\* Its emitters outlive it.
RestartMotor ==
  /\ "motor" \in Crashing /\ Disrupted
  /\ source' = "none" /\ request' = Zero /\ gear' = "unknown" /\ command' = NoCommand
  /\ enabled' = {} /\ since' = 0
  /\ UNCHANGED <<bridge, vms, level, due>>

-----------------------------------------------------------------------------
(* Time                                                                    *)

Older(amount) == IF amount = Zero THEN Zero ELSE [amount EXCEPT !.age = Min({@ + 1, Bound + 1})]
Later(ticks, limit) == IF ticks = Never THEN Never ELSE Min({ticks + 1, limit})

Tick ==
  /\ \A l \in due : (l = "hand" /\ source # "hand") \/ (l = "bridge" /\ ~bridgeUp)
  /\ source = level
  /\ due' = Loops
  /\ frame' = [frame EXCEPT !.sample = IF bridgeUp THEN Older(@) ELSE @]
  /\ orphaned' = IF bridgeUp \/ observed # frame.sequence THEN 0 ELSE Min({orphaned + 1, Timeout + 3})
  /\ linear' = Older(linear) /\ request' = Older(request)
  /\ command' = [command EXCEPT !.amount = Older(@)]
  /\ seen' = Later(seen, BridgeTimeout + 1)
  /\ created' = IF seen = Never THEN Later(created, Max({BridgeTimeout, Grace}) + 1) ELSE created
  /\ freshFor' = Later(freshFor, Timeout + 1)
  /\ tracked' = IF freshFor = Never THEN Later(tracked, Timeout + 1) ELSE tracked
  /\ since' = Min({since + 1, 3})
  /\ UNCHANGED <<bridgeUp, inputStale, inputReported, observed, stale, reported, level, source, gear, enabled, disruptions>>

DriveNext ==
  \/ CheckInput \/ Observe \/ RosLoop \/ HandLoop \/ NameSource \/ MotorLoop \/ Tick
  \/ BridgeDies \/ BridgeStarts \/ RestartRos \/ RestartMotor
  \/ \E v \in Velocities : Sample(v)
  \/ \E g \in Gears : SelectGear(g)

-----------------------------------------------------------------------------
(* Properties                                                              *)

\* What the motor is told to do, other than to stop, is what the source in
\* force asked for, up to two periods after a switch, and a planner's
\* velocity no older than both watchdogs allow, nor for longer than the
\* VMS's once its bridge is down; and one command at most is repeated to it,
\* the one it was given last.
DriveIsTrue ==
  /\ command.amount # Zero /\ command.amount.of # source => since <= 2
  /\ command.amount.of = "ros" => command.amount.age <= Bound /\ orphaned <= Timeout + 2
  /\ enabled = {command.frame} \ {"none"}
=============================================================================
