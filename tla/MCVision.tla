------------------------------- MODULE MCVision -------------------------------
(***************************************************************************)
(* The programs of vision/rust on small instances: one of the processes    *)
(* and the servers that own them, or a computation, chosen at the start.   *)
(***************************************************************************)
EXTENDS VisionCases

CONSTANTS
  Segments, MaxRuns, MaxReloads, RefusedVersions, Depth, MaxPorts,
  MaxFrames, MaxDetectors,
  Period, NominalVblank, VblankMin, VblankMax, Deadband, LockedBelow, OutlierAbove,
  OutliersToRelock, HistoryLength, LateBy, MaxLate,
  Buffers, MaxExposed, FramePeriod, Skews, PairTolerance, MaxLines, MaxCommands,
  Requests, ControlIds, MaxControls, MaxTaken,
  Captures, Patience

\* The instances are of at least one buffer and one process, and a sensor's
\* frames stay in order when the other one is moved.
ASSUME VisionAssumption ==
  /\ MaxDetectors \in Nat \ {0} /\ MaxPorts \in Nat
  /\ Buffers \in Nat /\ MaxLines \in Nat \ {0} /\ PairTolerance \in Nat
  /\ FramePeriod \in Nat /\ Skews \subseteq 0..(FramePeriod - 1)
  /\ IsFiniteSet(Requests)

VARIABLES
  part,        \* what this behaviour is about
  case,        \* the input of a computation
  version, queue, answers, running, port, configured, watched, pending, inbox, opened,
  up, input, parsed, computed, held,
  frames, inflight, link, reopening, messages, delivered, started, process,
  phase, blanking, settling, history, outliers, late,
  exposed, queued, filled, content, skew, at, hand, newest, pairs,
  settings, exposing, sensors, commands,
  sent, pendingSet, queuedAt, completed, inHand, applied, lost, frame, written, taken, stop, ended,
  found, hosted, starting

P == INSTANCE StereoPort
D == INSTANCE Detector
L == INSTANCE PhaseLock
C == INSTANCE PairCapture
B == INSTANCE LibCapture
V4l2 == INSTANCE CaptureStart WITH V4l2s <- Captures, Cameras <- {}, process <- starting
Camera == INSTANCE CaptureStart WITH V4l2s <- {}, Cameras <- Captures, process <- starting

portOnly == <<version, queue, answers, running, port, configured, watched, pending, inbox, opened,
              up, input, parsed, computed, held>>
detectorOnly == <<frames, inflight, link, reopening, messages, delivered, started, process>>
lockOnly == <<phase, blanking, settling, history, outliers, late>>
pairsOnly == <<exposed, queued, filled, content, skew, at, hand, newest, pairs,
               settings, exposing, sensors, commands>>
libOnly == <<sent, pendingSet, queuedAt, completed, inHand, applied, lost, frame, written, taken, stop, ended>>
startOnly == <<found, hosted, starting>>
allVars == <<part, case, portOnly, detectorOnly, lockOnly, pairsOnly, libOnly, startOnly>>

Parts == {"computation", "port", "detector", "lock", "pairs", "lib", "v4l2", "camera"}

Init ==
  /\ part \in Parts
  /\ case = [kind |-> "none"]
  /\ P!PortInit /\ D!DetectorInit /\ B!LibInit
  /\ L!LockInit /\ (part # "lock" => phase = 0 /\ Len(blanking) = 2)
  /\ C!CaptureInit /\ (part # "pairs" => skew = Min(Skews))
  /\ IF part = "camera" THEN Camera!StartInit ELSE V4l2!StartInit
  /\ part \notin {"v4l2", "camera"} => found = {}

Compute ==
  /\ part = "computation" /\ case.kind = "none"
  /\ Case(case')
  /\ UNCHANGED <<part, portOnly, detectorOnly, lockOnly, pairsOnly, libOnly, startOnly>>

PortPart(A) == part = "port" /\ A
  /\ UNCHANGED <<part, case, detectorOnly, lockOnly, pairsOnly, libOnly, startOnly>>
DetectorPart(A) == part = "detector" /\ A
  /\ UNCHANGED <<part, case, portOnly, lockOnly, pairsOnly, libOnly, startOnly>>
LockPart(A) == part = "lock" /\ A
  /\ UNCHANGED <<part, case, portOnly, detectorOnly, pairsOnly, libOnly, startOnly>>
PairsPart(A) == part = "pairs" /\ A
  /\ UNCHANGED <<part, case, portOnly, detectorOnly, lockOnly, libOnly, startOnly>>
LibPart(A) == part = "lib" /\ A
  /\ UNCHANGED <<part, case, portOnly, detectorOnly, lockOnly, pairsOnly, startOnly>>
StartPart(which, A) == part = which /\ A
  /\ UNCHANGED <<part, case, portOnly, detectorOnly, lockOnly, pairsOnly, libOnly>>

Next ==
  \/ Compute
  \/ PortPart(P!PortNext)
  \/ DetectorPart(D!DetectorNext)
  \/ LockPart(L!Frame)
  \/ PairsPart(C!CaptureNext)
  \/ LibPart(B!LibNext)
  \/ StartPart("v4l2", V4l2!StartNext)
  \/ StartPart("camera", Camera!StartNext)

\* The servers handle their messages and their timers fire, the sensors go
\* on taking frames, and a process that can take a step takes it.
Fairness ==
  /\ \A s \in Segments :
       WF_allVars(PortPart(P!HandleRun(s) \/ P!ReopenAndRun(s) \/ P!NoMatcher(s) \/ P!CommandRaises(s)))
  /\ WF_allVars(PortPart(P!HandleReply \/ P!HandleExit \/ P!Ignore))
  /\ WF_allVars(PortPart(P!Deadline))
  /\ WF_allVars(DetectorPart(D!HandleMessage))
  /\ WF_allVars(DetectorPart(D!InferTimeout \/ D!Raise))
  /\ WF_allVars(LockPart(L!Frame))
  /\ \A c \in Captures :
       /\ WF_allVars(StartPart("v4l2", V4l2!StartStep(c)))
       /\ WF_allVars(StartPart("camera", Camera!StartStep(c)))

Spec == Init /\ [][Next]_allVars /\ Fairness

-----------------------------------------------------------------------------
(* Properties                                                              *)

\* Each computation and record of the vision programs is what VisionCases
\* states it has to be, without its steps: the matcher's filters, measures
\* and segments, the records between the programs and their servers, the
\* detector's boxes, the captures' images, settings and requests.  It is
\* about the step that takes the inputs of a computation.
ComputesAsDefined == [][part = "computation" => ComputationCorrect(case')]_allVars

\* Replies are matched to requests by their order alone, over refusals,
\* timeouts, exits and Ports that are closed and opened again: still what a
\* pipeline gets was computed from its own run, in the configuration it was
\* sent with, and the server is not wrong about what the Port holds.
AnswersOwnRun == part = "port" => P!AnswersOwnRun /\ P!ConfiguredIsHeld

\* Detections passed on for a frame were made in that frame, though frames
\* stay in the accelerator's streams when a read fails and a process that
\* was given up goes on answering.
DetectionsOfFrame == part = "detector" => D!DetectionsOfFrame

\* A capture's pair is of frames that started together and were not yet
\* overwritten, buffers and requests are not lost on the way round, and the
\* controls in force in the end are the last ones sent.
CapturesAreTrue ==
  /\ part = "pairs" => C!PairsAreTrue /\ C!BuffersKept /\ C!ExposureContinues
  /\ part = "lib" => B!LastControlWins /\ B!FramesAsTaken /\ B!RequestsKept

\* Neither a caller nor a device waits for ever.  Runs, frames and hosts are
\* few, so this is that each run and each frame in flight is answered or
\* given up whatever the process does, that a capture comes to run or ends,
\* and that one whose host has left ends.
RequestsEnd ==
  []<>(/\ part = "port" => P!RunsAnswered
       /\ part = "detector" => inflight = 0
       /\ part = "v4l2" => V4l2!Settled
       /\ part = "camera" => Camera!Settled)

\* After the last disturbance the right sensor's frames come to start with
\* the left one's, within the deadband, and stay so, although a blanking is
\* in force only a frame or two after it is set.
PhaseLocks == part = "lock" => L!PhaseLocks
=============================================================================
