------------------------------ MODULE CaptureStart ------------------------------
(***************************************************************************)
(* The start of the capture programs, v4l2_capture (main.rs, v4l2.rs) on a *)
(* pair of sensors and camera_capture (main.rs, capture.rs) on one camera. *)
(* Both may start before the kernel has found the sensors, while an        *)
(* earlier process still has the devices, and after their host left.       *)
(*                                                                         *)
(* Time is counted in tries, which are as far apart as the programs wait.  *)
(***************************************************************************)
EXTENDS Integers, FiniteSets, Sequences

CONSTANTS
  V4l2s,      \* processes of v4l2_capture
  Cameras,    \* processes of camera_capture
  Patience    \* tries within a program's timeout

VARIABLES
  found,      \* the nodes registered, and Listed if libcamera lists the camera
  hosted,     \* processes whose host is there
  process

startVars == <<found, hosted, process>>

Listed == <<"camera", "listed">>
Device == <<"camera", "device">>
Nodes == ({"left", "right"} \X {"sensor", "video"}) \union {Listed}
Programs == V4l2s \union Cameras

\* What camera_capture does between the camera's listing and its loop, and
\* the exit status when it fails.
SetUp == <<
  [step |-> "acquire", status |-> 1], [step |-> "generate", status |-> 1],
  [step |-> "rotation", status |-> 2], [step |-> "validate", status |-> 1],
  [step |-> "format", status |-> 1], [step |-> "configure", status |-> 1],
  [step |-> "buffers", status |-> 1], [step |-> "requests", status |-> 1],
  [step |-> "encoder", status |-> 1], [step |-> "start", status |-> 1],
  [step |-> "queue", status |-> 0] >>

Running == -1

\* A process opens `side`, has waited for a node and since its first try.
Started(kind) ==
  [kind |-> kind, pc |-> "arguments", side |-> "left", nodeTries |-> 0, tries |-> 0, step |-> 1,
   holds |-> {}, status |-> Running]

StartInit ==
  /\ found \in {{}, Nodes}
  /\ hosted = Programs
  /\ process = [p \in Programs |-> Started(IF p \in V4l2s THEN "v4l2" ELSE "camera")]

Become(p, next) == process' = [process EXCEPT ![p] = next] /\ UNCHANGED <<found, hosted>>
Exit(p, status) == Become(p, [process[p] EXCEPT !.pc = "ended", !.holds = {}, !.status = status])

HeldElsewhere(p, device) == \E q \in Programs \ {p} : device \in process[q].holds

-----------------------------------------------------------------------------

Find == /\ \E node \in Nodes \ found : found' = found \union {node}
        /\ UNCHANGED <<hosted, process>>

HostLeaves == /\ \E p \in hosted : hosted' = hosted \ {p}
              /\ UNCHANGED <<found, process>>

\* Arguments it does not take end either program.
ReadArguments(p) ==
  /\ process[p].pc = "arguments"
  /\ LET v4l2 == process[p].kind = "v4l2"
     IN  \/ Become(p, [process[p] EXCEPT !.pc = IF v4l2 THEN "open" ELSE "list"])
         \/ Exit(p, IF v4l2 THEN 1 ELSE 2)

\* Opening one side: the host first.
OpenSide(p) ==
  /\ process[p].pc = "open"
  /\ IF p \notin hosted THEN Exit(p, 0)
     ELSE Become(p, [process[p] EXCEPT !.pc = "sensor", !.nodeTries = 0])

\* The sensor's node, then the video node, each waited for and opened.
WaitForNode(p) ==
  LET now == process[p]
      node == <<now.side, now.pc>>
  IN  /\ now.pc \in {"sensor", "video"}
      /\ CASE p \notin hosted -> Exit(p, 0)
           [] p \in hosted /\ node \in found ->
                \/ Become(p, [now EXCEPT !.pc = IF now.pc = "sensor" THEN "video" ELSE "stream",
                                         !.nodeTries = 0, !.holds = @ \union {node}])
                \/ Exit(p, 1)
           [] p \in hosted /\ node \notin found /\ now.nodeTries < Patience ->
                Become(p, [now EXCEPT !.nodeTries = @ + 1, !.tries = IF @ < Patience THEN @ + 1 ELSE @])
           [] OTHER -> Exit(p, 1)

\* The format is set, the buffers mapped and queued and the stream started,
\* unless another process has the node: the side is then closed and tried
\* again.  Any other refusal ends the program.
StartStream(p) ==
  LET now == process[p]
      node == <<now.side, "video">>
      stream == <<now.side, "stream">>
  IN  /\ now.pc = "stream"
      /\ \/ /\ HeldElsewhere(p, stream)
            /\ IF now.tries < Patience
                 THEN Become(p, [now EXCEPT !.pc = "open", !.tries = @ + 1,
                                            !.holds = @ \ {<<now.side, what>> : what \in {"sensor", "video"}}])
                 ELSE Exit(p, 1)
         \/ /\ ~HeldElsewhere(p, stream)
            /\ Become(p, [now EXCEPT !.pc = IF now.side = "left" THEN "open" ELSE "running",
                                     !.side = "right", !.tries = 0, !.holds = @ \union {stream}])
         \/ Exit(p, 1)

\* libcamera is started anew until it lists the camera.
ListCameras(p) ==
  LET now == process[p]
  IN  /\ now.pc = "list"
      /\ CASE p \notin hosted -> Exit(p, 0)
           [] p \in hosted /\ Listed \in found -> Become(p, [now EXCEPT !.pc = "setup"]) \/ Exit(p, 1)
           [] p \in hosted /\ Listed \notin found /\ now.tries < Patience ->
                Become(p, [now EXCEPT !.tries = @ + 1]) \/ Exit(p, 1)
           [] OTHER -> Exit(p, 1)

SetUpCamera(p) ==
  LET now == process[p]
  IN  /\ now.pc = "setup"
      /\ \/ /\ now.step = 1 => ~HeldElsewhere(p, Device)
            /\ Become(p, [now EXCEPT !.step = @ + 1, !.holds = @ \union {Device},
                                     !.pc = IF now.step = Len(SetUp) THEN "running" ELSE @])
         \/ Exit(p, SetUp[now.step].status)

\* The loop of either program ends with its input, or with an error.
Stop(p) == process[p].pc = "running" /\ p \notin hosted /\ Exit(p, 0)
Break(p) == process[p].pc = "running" /\ Exit(p, IF process[p].kind = "v4l2" THEN 1 ELSE 0)

StartStep(p) ==
  \/ ReadArguments(p) \/ OpenSide(p) \/ WaitForNode(p) \/ StartStream(p)
  \/ ListCameras(p) \/ SetUpCamera(p) \/ Stop(p)

StartNext == Find \/ HostLeaves \/ \E p \in Programs : StartStep(p) \/ Break(p)

-----------------------------------------------------------------------------

\* Each process runs or has given up, and has ended if its host has left: it
\* does not keep the devices from the next one.
Settled ==
  \A p \in Programs :
    /\ process[p].pc \in {"running", "ended"}
    /\ p \notin hosted => process[p].pc = "ended"
=============================================================================
