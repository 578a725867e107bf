------------------------------- MODULE MCLinks -------------------------------
(***************************************************************************)
(* What one end of a link takes for true of the other, on small instances: *)
(* the user of `./ovcs attach` of the nodes (its panes, with one thing to  *)
(* use at a time, or its supervisors), the gateway of the nodes' signals,  *)
(* the motor of what its commander wants, and the consumers of a rotation  *)
(* of the sensors.  The part chosen at the start says which.               *)
(***************************************************************************)
EXTENDS Integers, Sequences, FiniteSets, TLC

CONSTANTS
  Locals, BackoffCap, MaxDisruptions, MaxTyped,
  Devices, BackoffLimit, MaxLosses, MaxLinesTyped,
  Peers, Values, StaleAfter, MaxMail, MaxGatewayDisruptions,
  BridgeTimeout, Grace, Timeout, SequenceSize, MaxCrashes, MaxSwitches,
  Sensors, Signed, Noise, Readings, CheckFrom, Tolerance, SilentAfter, Hold,
  NodeOrder, TextOf, LogCap, ShellCap, FeedCap, ColumnCap, NormalRect, MaximizedRect,
  HistoryCap, PageRows, Bytes, MaxInput,
  Uses         \* by name, the uses of the panes

ASSUME LinksAssumption ==
  /\ "nothing" \notin Values /\ MaxMail \in Nat
  \* The cache is checked twice at least before a value counts as stale.
  /\ StaleAfter \in Nat /\ StaleAfter >= 2
  \* pos_integer(), in input_watchdog.ex and freshness.ex.
  /\ BridgeTimeout \in Nat \ {0} /\ Timeout \in Nat \ {0} /\ Grace \in Nat
  /\ MaxCrashes \in Nat /\ MaxSwitches \in Nat /\ SequenceSize \in Nat \ {0}
  /\ Sensors \in Seq(STRING) /\ Sensors # <<>>
  /\ \A i \in DOMAIN Sensors : Sensors[i] # "none"
  /\ SilentAfter \in Nat /\ Hold \in Nat

VARIABLES
  part,        \* what this behaviour is about
  rows, shellOut, up, order, latest, columns, view, mode, canView, focus, maximized, current,
  input, cursor, history, recalled, stdin, selection, quit,
  registered, answering, remsh, at, backoff, typedLines, staleLine, halted, broken, sentUp, shown,
  disruptions, lines, closed, shutdown,
  reachable, task, delay, handles, aborted, quitting, typedIn, bridge, slot, reports, connected,
  losses, typedCount,
  isPeer, conn, published, forwarding, pending, sent, republished, mail, pid, known, respawns,
  presence, cached, received, stale, due, steady, spoke, rough, upsets,
  bridgeUp, frame, orphaned, seen, created, inputStale, inputReported, observed, freshFor, tracked, lost, reported, linear,
  level, source, request, gear, command, enabled, since, loops, crashes,
  readings, receivedAgo, sign, mismatchFor, fault, out, healthy, outAgo, apart, checked, still

panesOnly == <<rows, shellOut, up, order, latest, columns, view, mode, canView, focus, maximized,
               current, input, cursor, history, recalled, stdin, selection, quit>>
localOnly == <<registered, answering, remsh, at, backoff, typedLines, staleLine, halted, broken,
               sentUp, shown, disruptions, lines, closed, shutdown>>
deviceOnly == <<reachable, task, delay, handles, aborted, quitting, typedIn, bridge, slot,
                reports, connected, losses, typedCount>>
gatewayOnly == <<isPeer, conn, published, forwarding, pending, sent, republished, mail, pid, known,
                 respawns, presence, cached, received, stale, due, steady, spoke, rough, upsets>>
driveOnly == <<bridgeUp, frame, orphaned, seen, created, inputStale, inputReported, observed, freshFor, tracked, lost, reported,
               linear, level, source, request, gear, command, enabled, since, loops, crashes>>
fusionOnly == <<readings, receivedAgo, sign, mismatchFor, fault, out, healthy, outAgo, apart, checked, still>>
attachOnly == <<panesOnly, localOnly, deviceOnly>>
vehicleOnly == <<gatewayOnly, driveOnly, fusionOnly>>
allVars == <<part, attachOnly, vehicleOnly>>

Local == INSTANCE LocalAttach
Device == INSTANCE DeviceAttach
Gateway == INSTANCE BusGateway WITH Nodes <- Peers, MaxDisruptions <- MaxGatewayDisruptions, disruptions <- upsets

\* A planner drives, or the control level goes from one commander to another.
Planner == INSTANCE PlannerDrive WITH Velocities <- {1}, HandRequests <- {}, Gears <- {}, Levels <- {"ros"},
  Crashing <- {"bridge", "ros"}, MaxDisruptions <- MaxCrashes, disruptions <- crashes, stale <- lost, due <- loops
Switch == INSTANCE PlannerDrive WITH Velocities <- {}, HandRequests <- {-1, 1}, Gears <- {"reverse"},
  Levels <- {"none", "hand", "ros"}, Crashing <- {"motor"}, MaxDisruptions <- MaxSwitches, disruptions <- crashes, stale <- lost,
  due <- loops

\* The motor's VESC and the pulse sensor of its spur, as on the OVCS Mini,
\* and the same two without an actuator that tells the direction.
MiniSensors == <<"vesc", "pulse">>
MiniNoise == [vesc |-> 1, pulse |-> 0]
MiniReadings == [vesc |-> {-10, 1, 10}, pulse |-> {0, 10}]
Mini == INSTANCE RotationFusion WITH
  Sources <- Sensors, DirectionSource <- TRUE, StaleAfter <- SilentAfter, quiet <- still
Undirected == INSTANCE RotationFusion WITH
  Sources <- Sensors, DirectionSource <- FALSE, StaleAfter <- SilentAfter, quiet <- still

-----------------------------------------------------------------------------
(* The panes                                                               *)

Ui == INSTANCE AttachUi

\* The parts that are not uses of the panes.
Links == {"local", "devices", "gateway", "planner", "switch", "rotation", "undirected"}

\* A line, without tabs or blanks at its end.
Lines == Seq(Nat \X (Nat \ {0}))

\* Caps are not zero, a character takes a byte at least and is typed by none of
\* the keys that end or edit a text, the terminal is large enough for each pane
\* to have a row and a column within its borders, and what is sent is lines and
\* rows of texts, a frame's signals of different names.
ASSUME PanesAssumption ==
  /\ NodeOrder \in Seq(STRING) /\ NodeOrder # <<>>
  /\ {LogCap, ShellCap, FeedCap, HistoryCap} \subseteq Nat \ {0} /\ PageRows \in Nat
  /\ TextOf \in [DOMAIN TextOf -> Lines] /\ Bytes \in [DOMAIN Bytes -> Nat \ {0}]
  /\ {"Esc", "Enter", "AltEnter", "Backspace"} \cap DOMAIN Bytes = {}
  /\ ColumnCap \in [Ui!Feeds -> Seq(Nat) \ {<<>>}]
  /\ DOMAIN NormalRect = Ui!Panes
  /\ \A r \in Ui!Range(NormalRect) \cup {MaximizedRect} :
       r.top \in Nat /\ r.height \in Nat /\ r.height >= 3 /\ r.width \in Nat /\ r.width >= 3
  /\ DOMAIN Uses \cap Links = {}
  /\ \A u \in DOMAIN Uses :
       /\ Uses[u].sent.nodes \subseteq Ui!Nodes
       /\ Uses[u].sent.log \subseteq Lines /\ Uses[u].sent.shell \subseteq Lines
       /\ \A f \in Ui!Feeds : \A row \in Uses[u].sent[f] :
            /\ row.key \in Seq(DOMAIN TextOf) /\ Len(row.key) = Len(ColumnCap[f])
            /\ \A i \in DOMAIN row.key : TextOf[row.key[i]] # <<>>
            /\ row.rate \in Nat
       /\ \A row \in Uses[u].sent.Bus : row.body \in DOMAIN TextOf /\ TextOf[row.body] # <<>>
       /\ \A row \in Uses[u].sent.Can :
            /\ row.body \in [signals : Seq((DOMAIN TextOf) \X (DOMAIN TextOf)), raw : DOMAIN TextOf]
            /\ \A i, j \in DOMAIN row.body.signals :
                 row.body.signals[i][1] = row.body.signals[j][1] => i = j
       /\ \A click \in Uses[u].clicks : click[2] \in Int
       /\ Uses[u].drags \subseteq Int

\* The user goes to a pane, and stays there, or goes from pane to pane.
PanesNext ==
  \E u \in DOMAIN Uses : part = u /\
    IF Uses[u].pane # "any" /\ focus # Uses[u].pane THEN Ui!Press("Tab")
    ELSE Ui!UiNext(Uses[u]) /\ (Uses[u].pane # "any" => focus' = Uses[u].pane)

\* The texts: a value that no pane holds, one whose words take a row more than
\* is estimated, and others of one word.
OneWord(letters) == <<<<0, letters>>>>
Texts == [list |-> OneWord(200), d |-> <<<<0, 5>>, <<1, 16>>, <<1, 16>>>>, o |-> OneWord(9),
          throttle |-> OneWord(5), speed |-> OneWord(3), gear |-> OneWord(2), bytes |-> OneWord(2)]
         @@ [t \in {"vms", "vcan0", "status", "vehicle", "a", "b", "on", "off"} |-> OneWord(1)]
Columns == [Bus |-> <<1, 4>>, Can |-> <<1, 1, 2>>]
Rects ==
  [Log |-> [top |-> 0, height |-> 5, width |-> 22], Bus |-> [top |-> 0, height |-> 4, width |-> 32],
   Can |-> [top |-> 4, height |-> 4, width |-> 35], Shell |-> [top |-> 9, height |-> 5, width |-> 22]]
Maximized == [top |-> 0, height |-> 5, width |-> 62]
Typed == [o |-> 1, y |-> 1, q |-> 1, e |-> 2]
TwoNodes == <<"vms", "vision">>

\* A user who does nothing.
Idle == [pane |-> "any", keys |-> {}, clicks |-> {}, drags |-> {},
         sent |-> [nodes |-> {"vms"}, log |-> {}, shell |-> {}, Bus |-> {}, Can |-> {}]]

Gear(value) == [key |-> <<"vehicle", "gear">>, body |-> value, rate |-> 5]
Throttle(value) == [key |-> <<"vehicle", "throttle">>, body |-> value, rate |-> 0]
BusRows == {Gear("o"), Gear("list"), Throttle("d")}
UseOfBus == [Idle EXCEPT !.pane = "Bus", !.sent.Bus = BusRows,
  !.keys = {"o", "/", "space", "Up", "Down", "PageUp", "End", "AltEnter", "Enter", "Esc", "Backspace"}]

Frame(name, signals) ==
  [key |-> <<"vms", "vcan0", name>>, body |-> [signals |-> signals, raw |-> "bytes"], rate |-> 0]
CanRows == {Frame("status", s) : s \in {<<<<"a", "on">>>>, <<<<"a", "off">>>>, <<<<"a", "off">>, <<"b", "on">>>>}}
           \cup {Frame("speed", <<>>)}
UseOfCan == [Idle EXCEPT !.pane = "Can", !.sent.Can = CanRows,
  !.keys = {"o", "i", "p", "k", "j", "PageDown", "g", "G", "Esc"}]

UseOfShell == [Idle EXCEPT !.pane = "Shell", !.sent.shell = {OneWord(3)},
  !.keys = {"o", "e", "Left", "Right", "Home", "End", "Up", "Down", "Backspace", "Enter"}]

\* Lines of the log, selected with the mouse: one that fits, one that words
\* wrap on as many rows as the width would, and one on a row more.
Short == <<<<0, 5>>, <<1, 4>>>>
Wrapped == <<<<0, 5>>, <<1, 14>>, <<1, 9>>>>
Ragged == <<<<0, 5>>, <<1, 15>>, <<1, 15>>>>
UseOfMouse == [Idle EXCEPT !.sent.log = {Short, Wrapped, Ragged},
  !.clicks = {<<"Log", 1>>, <<"Log", 3>>, <<"Can", 5>>}, !.drags = {0, 4},
  !.keys = {"Tab", "AltEnter", "Up", "PageUp", "End"}]

\* Going from pane to pane and from node to node.
UseOfAll == [Idle EXCEPT !.sent.nodes = {"vms", "vision"}, !.sent.log = {Short},
  !.sent.Bus = {Gear("o")},
  !.keys = {"Tab", "/", "Esc", "CtrlN", "CtrlP", "CtrlC", "CtrlY", "F2", "F3", "AltEnter", "Enter"}]

MiniUses == [bus |-> UseOfBus, can |-> UseOfCan, shell |-> UseOfShell, mouse |-> UseOfMouse, all |-> UseOfAll]

-----------------------------------------------------------------------------

Parts == DOMAIN Uses \cup Links

Init ==
  /\ part \in Parts
  /\ Ui!UiInit
  /\ Local!LocalInit /\ Device!DeviceInit
  /\ Gateway!GatewayInit /\ (part # "gateway" => \A n \in Peers : isPeer[n])
  /\ IF part = "switch" THEN Switch!DriveInit ELSE Planner!DriveInit
  /\ Mini!FusionInit

Panes == PanesNext /\ UNCHANGED <<part, localOnly, deviceOnly, vehicleOnly>>
LocalPart(A) == part = "local" /\ A /\ UNCHANGED <<part, panesOnly, deviceOnly, vehicleOnly>>
DevicePart(A) == part = "devices" /\ A /\ UNCHANGED <<part, panesOnly, localOnly, vehicleOnly>>
GatewayPart(A) == part = "gateway" /\ A /\ UNCHANGED <<part, attachOnly, driveOnly, fusionOnly>>
DrivePart(p, A) == part = p /\ A /\ UNCHANGED <<part, attachOnly, gatewayOnly, fusionOnly>>
FusionPart(p, A) == part = p /\ A /\ UNCHANGED <<part, attachOnly, gatewayOnly, driveOnly>>

Next ==
  \/ Panes \/ LocalPart(Local!LocalNext) \/ DevicePart(Device!DeviceNext)
  \/ GatewayPart(Gateway!GatewayNext)
  \/ DrivePart("planner", Planner!DriveNext) \/ DrivePart("switch", Switch!DriveNext)
  \/ FusionPart("rotation", Mini!FusionNext) \/ FusionPart("undirected", Undirected!FusionNext)

\* Each thread and task goes on while it can, the panes take in what they
\* are sent, quitting, once begun, is seen through, and timers fire.
Fairness ==
  /\ \A n \in Locals :
       /\ WF_allVars(LocalPart(Local!SupervisorStep(n)))
       /\ WF_allVars(LocalPart(Local!HandleMessage(n)))
       /\ WF_allVars(LocalPart(Local!EofHalts(n)))
  /\ WF_allVars(LocalPart(closed /\ Local!Quit))
  /\ \A d \in Devices :
       /\ WF_allVars(DevicePart(Device!TaskStep(d)))
       /\ WF_allVars(DevicePart(Device!Bridge(d)))
       /\ WF_allVars(DevicePart(Device!ShowReport(d)))
  /\ WF_allVars(DevicePart(quitting # "no" /\ Device!QuitStep))
  /\ \A n \in Peers :
       /\ WF_allVars(GatewayPart(Gateway!HandleMail(n)))
       /\ WF_allVars(GatewayPart(Gateway!Respawn(n)))
  /\ WF_allVars(FusionPart("rotation", Mini!CheckFreshness)) /\ WF_allVars(FusionPart("rotation", Mini!Tick))

Spec == Init /\ [][Next]_allVars /\ Fairness

-----------------------------------------------------------------------------
(* Properties                                                              *)

\* The panes show, mark and copy what arrived and is drawn, through scrolling,
\* pauses, filters and full buffers: copy it so far as lines wrap as they are
\* counted, and show the newest but for what wraps beyond its estimate.
PanesAreTrue == part \in DOMAIN Uses => Ui!PanesAreTrue

\* Typed lines and remshes belong to one session of their node, through
\* reconnections and spawns that fail; the gateway's last word of a signal is
\* the last one published, of a forwarder it knows; the motor does what its
\* source wanted lately; and a rotation is of a sensor that is alive, checked
\* by the others.
LinksAreTrue ==
  /\ part = "local" => Local!LocalIsTrue
  /\ part = "gateway" => Gateway!GatewayIsTrue
  /\ part = "planner" => Planner!DriveIsTrue
  /\ part = "switch" => Switch!DriveIsTrue
  /\ part = "rotation" => Mini!RotationIsTrue
  /\ part = "undirected" => Undirected!RotationIsTrue

\* Once nothing disturbs them any more, attach has stopped every supervisor
\* of a user who quit, whenever it was, or shows of each node whether it is
\* there; the gateway collects from each node that is there; and sensors
\* that fell silent have no rotation.
LinksSettle ==
  <>[](/\ part = "local" => Local!LocalSettled
       /\ part = "devices" => Device!DevicesSettled
       /\ part = "gateway" => Gateway!GatewaySettled
       /\ part = "rotation" => Mini!RotationSettled)

=============================================================================
