-------------------------- MODULE ControllerProofs --------------------------
(***************************************************************************)
(* What holds of the generic controller's firmware for any set of outputs, *)
(* any heartbeat timeout and any number of retries.                        *)
(*                                                                         *)
(* A controller that is not READY drives nothing (OffUnlessReady) because  *)
(* every way out of READY goes through shutdown() and no other branch      *)
(* writes an output.  It is inductive as it stands, and the guards of a    *)
(* single pass of the loop (GuardedLoop) rest on it: the branches that     *)
(* leave the outputs as they are, are those of a controller that was not   *)
(* READY.                                                                  *)
(***************************************************************************)
EXTENDS Controller, TLAPS

LEMMA AllLowTyped == AllLow \in Levels
  BY DEF AllLow, Levels

\* What a request asks for is a level for each output.
LEMMA RequestedTyped ==
  ASSUME NEW frame \in Frames, NEW heard \in BOOLEAN,
         NEW given, given.digital \in Levels, given.other \in BOOLEAN
  PROVE  /\ Requested(frame, given, heard).digital \in Levels
         /\ Requested(frame, given, heard).other \in BOOLEAN
<1>1. frame.kind = "digital_request" => frame.levels \in Levels
  BY DEF Frames, NoFrame, VmsAlive, VmsFailure, ResetCommand, Adoption, DigitalRequest,
         OtherRequest
<1>2. frame.kind = "other_request" => frame.on \in BOOLEAN
  BY DEF Frames, NoFrame, VmsAlive, VmsFailure, ResetCommand, Adoption, DigitalRequest,
         OtherRequest
<1>3. QED
  BY <1>1, <1>2 DEF Requested

----------------------------------------------------------------------------

\* The steps that are not a pass of the loop leave the outputs as they are or, on
\* a power cycle, lower them all.
LEMMA LoopOrQuiet ==
  ASSUME [Next]_vars
  PROVE  Loop \/ PowerCycle \/ UNCHANGED <<status, outputs>>
  BY DEF Next, Tick, FinishBootTime, vars, outputs

\* A pass of the loop is one of the three things it can do, on some frame.
LEMMA LoopCases ==
  ASSUME NEW frame, LoopWith(frame)
  PROVE  \/ AwaitAdoption(frame)
         \/ \E error, quiet, heard \in BOOLEAN : ~waiting /\ Run(frame, error, quiet, heard)
  BY DEF LoopWith, LoopOn

----------------------------------------------------------------------------

LEMMA ShutdownTyped ==
  ASSUME NEW reason \in Statuses, Shutdown(reason)
  PROVE  status' \in Statuses /\ digital' \in Levels /\ other' \in BOOLEAN
  BY AllLowTyped DEF Shutdown

LEMMA WatchTyped ==
  ASSUME NEW frame, NEW failing, NEW given,
         given.digital \in Levels, given.other \in BOOLEAN,
         Watch(frame, failing, given)
  PROVE  status' \in Statuses /\ digital' \in Levels /\ other' \in BOOLEAN
<1>1. CASE \E reason \in {"expansion_boards", "vms_missing", "vms_failure"} : Shutdown(reason)
  <2>1. PICK reason \in {"expansion_boards", "vms_missing", "vms_failure"} : Shutdown(reason)
    BY <1>1
  <2>2. reason \in Statuses
    BY DEF Statuses
  <2>3. QED
    BY <2>1, <2>2, ShutdownTyped
<1>2. CASE status' = "ready" /\ digital' = given.digital /\ other' = given.other
  BY <1>2 DEF Statuses
<1>3. QED
  BY <1>1, <1>2 DEF Watch

LEMMA RunTyped ==
  ASSUME TypeOK, NEW frame \in Frames, NEW error \in BOOLEAN, NEW quiet \in BOOLEAN,
         NEW heard \in BOOLEAN, Run(frame, error, quiet, heard)
  PROVE  /\ status' \in Statuses /\ digital' \in Levels /\ other' \in BOOLEAN
         /\ retries' \in 0 .. MaxRetries
         /\ UNCHANGED <<waiting, configured, stored>>
<1> DEFINE faulty == error /\ configured
           failing == faulty /\ RetriesSpent
           given == [digital |-> IF faulty /\ ~failing THEN AllLow ELSE digital,
                     other |-> other]
<1>1. given.digital \in Levels /\ given.other \in BOOLEAN
  BY AllLowTyped DEF TypeOK
<1>2. retries' = IF faulty /\ ~failing THEN retries + 1
                 ELSE IF ~faulty /\ quiet THEN 0
                 ELSE retries
  BY DEF Run
<1>3. retries' \in 0 .. MaxRetries
  BY <1>2, MaxRetriesAssumption DEF TypeOK, RetriesSpent
<1>4. UNCHANGED <<waiting, configured, stored>>
  BY DEF Run, memory
<1> HIDE DEF given, failing
<1>5. CASE status = "ready"
  <2>1. Watch(frame, failing, Requested(frame, given, heard))
    BY <1>5 DEF Run, given, failing
  <2>2. /\ Requested(frame, given, heard).digital \in Levels
        /\ Requested(frame, given, heard).other \in BOOLEAN
    BY <1>1, RequestedTyped
  <2>3. QED
    BY <1>3, <1>4, <2>1, <2>2, WatchTyped
<1>6. CASE status # "ready"
  <2>1. HandleVmsCommandFrame(frame) /\ digital' = given.digital /\ other' = given.other
    BY <1>6 DEF Run, given, failing
  <2>2. QED
    BY <1>1, <1>3, <1>4, <2>1 DEF HandleVmsCommandFrame, TypeOK, Statuses
<1>7. QED
  BY <1>5, <1>6

LEMMA AwaitAdoptionTyped ==
  ASSUME TypeOK, NEW frame, AwaitAdoption(frame)
  PROVE  /\ status' \in Statuses /\ digital' \in Levels /\ other' \in BOOLEAN
         /\ waiting' \in BOOLEAN /\ configured' \in BOOLEAN /\ stored' \in BOOLEAN
         /\ retries' = retries
  BY AllLowTyped DEF AwaitAdoption, TypeOK, Statuses

\* The firmware's state is well typed in every reachable state; above all the
\* board is never reset more than MAX_I2C_RETRY times in a row.
THEOREM TypeCorrect == Spec => []TypeOK
<1>1. Init => TypeOK
  <2> SUFFICES ASSUME NEW valid \in BOOLEAN, Setup(valid) PROVE TypeOK
    BY DEF Init
  <2>1. status \in Statuses /\ digital \in Levels
    BY AllLowTyped DEF Setup, Statuses
  <2>2. heartbeatAge \in 0 .. HeartbeatTimeout + 1 /\ retries \in 0 .. MaxRetries
    BY HeartbeatTimeoutAssumption, MaxRetriesAssumption DEF Setup
  <2>3. /\ other \in BOOLEAN /\ booting \in BOOLEAN /\ waiting \in BOOLEAN
        /\ wasPressed \in BOOLEAN /\ configured \in BOOLEAN /\ stored \in BOOLEAN
    BY DEF Setup
  <2>4. QED
    BY <2>1, <2>2, <2>3 DEF TypeOK
<1>2. TypeOK /\ [Next]_vars => TypeOK'
  <2> SUFFICES ASSUME TypeOK, [Next]_vars PROVE TypeOK'
    OBVIOUS
  <2>1. CASE Loop
    <3>1. PICK frame \in Frames : LoopWith(frame)
      BY <2>1 DEF Loop
    <3>2. PICK pressed \in BOOLEAN, error \in BOOLEAN, quiet \in BOOLEAN, heard \in BOOLEAN :
            LoopOn(frame, pressed, error, quiet, heard)
      BY <3>1 DEF LoopWith
    <3>3. heartbeatAge' \in 0 .. HeartbeatTimeout + 1 /\ wasPressed' \in BOOLEAN
          /\ booting' \in BOOLEAN
      BY <3>2, HeartbeatTimeoutAssumption DEF LoopOn, TypeOK
    <3>4. CASE AwaitAdoption(frame)
      BY <3>3, <3>4, AwaitAdoptionTyped DEF TypeOK
    <3>5. CASE Run(frame, error, quiet, heard)
      BY <3>3, <3>5, RunTyped DEF TypeOK
    <3>6. QED
      BY <3>2, <3>4, <3>5 DEF LoopOn
  <2>2. CASE PowerCycle
    <3>1. PICK valid \in BOOLEAN : PowerUp(valid)
      BY <2>2 DEF PowerCycle, TypeOK
    <3>2. status' \in Statuses /\ digital' \in Levels
      BY <3>1, AllLowTyped DEF PowerUp, Statuses
    <3>3. heartbeatAge' \in 0 .. HeartbeatTimeout + 1 /\ retries' \in 0 .. MaxRetries
      BY <3>1, HeartbeatTimeoutAssumption, MaxRetriesAssumption DEF PowerUp
    <3>4. QED
      BY <3>1, <3>2, <3>3 DEF PowerUp, TypeOK
  <2>3. CASE Tick
    BY <2>3, HeartbeatTimeoutAssumption DEF Tick, TypeOK, outputs, button, memory
  <2>4. CASE FinishBootTime
    BY <2>4 DEF FinishBootTime, TypeOK, outputs, button, memory
  <2>5. CASE UNCHANGED vars
    BY <2>5 DEF TypeOK, vars, outputs, button, memory
  <2>6. QED
    BY <2>1, <2>2, <2>3, <2>4, <2>5 DEF Next
<1>3. QED
  BY <1>1, <1>2, PTL DEF Spec

----------------------------------------------------------------------------

\* A controller that was not READY, or that is shut down, drives nothing after a
\* pass of the loop that does not end in READY.
LEMMA LoopKeepsOff ==
  ASSUME OffUnlessReady, NEW frame, LoopWith(frame)
  PROVE  \/ AllOff'
         \/ /\ status' = "ready" /\ ~waiting' /\ frame # VmsFailure
            /\ ~(~booting' /\ heartbeatAge' > HeartbeatTimeout)
<1>1. CASE AwaitAdoption(frame)
  BY <1>1 DEF AwaitAdoption, OffUnlessReady, AllOff
<1>2. CASE \E error, quiet, heard \in BOOLEAN : ~waiting /\ Run(frame, error, quiet, heard)
  <2>1. PICK error \in BOOLEAN, quiet \in BOOLEAN, heard \in BOOLEAN :
          ~waiting /\ Run(frame, error, quiet, heard)
    BY <1>2
  <2>2. ~waiting' /\ booting' = booting
    BY <2>1 DEF Run, LoopWith, LoopOn
  <2>3. CASE status # "ready"
    BY <2>1, <2>3 DEF Run, OffUnlessReady, AllOff
  <2>4. CASE status = "ready"
    <3>1. PICK failing, given : Watch(frame, failing, given)
      BY <2>1, <2>4 DEF Run
    <3>2. QED
      BY <2>2, <3>1 DEF Watch, Shutdown, MissingNow, AllOff
  <2>5. QED
    BY <2>3, <2>4
<1>3. QED
  BY <1>1, <1>2, LoopCases

LEMMA OffUnlessReadyInductive ==
  ASSUME OffUnlessReady, [Next]_vars
  PROVE  OffUnlessReady'
<1>1. CASE Loop
  <2>1. PICK frame \in Frames : LoopWith(frame)
    BY <1>1 DEF Loop
  <2>2. AllOff' \/ status' = "ready"
    BY <2>1, LoopKeepsOff
  <2>3. QED
    BY <2>2 DEF OffUnlessReady
<1>2. CASE PowerCycle
  BY <1>2 DEF PowerCycle, PowerUp, OffUnlessReady, AllOff
<1>3. CASE UNCHANGED <<status, outputs>>
  BY <1>3 DEF OffUnlessReady, AllOff, outputs
<1>4. QED
  BY <1>1, <1>2, <1>3, LoopOrQuiet

\* A controller that is not READY drives nothing, whatever frames, button
\* presses, board errors and power cycles it has been through.
THEOREM DrivesNothingUnlessReady == Spec => []OffUnlessReady
<1>1. Init => OffUnlessReady
  BY DEF Init, Setup, OffUnlessReady, AllOff
<1>2. OffUnlessReady /\ [Next]_vars => OffUnlessReady'
  BY OffUnlessReadyInductive
<1>3. QED
  BY <1>1, <1>2, PTL DEF Spec

\* No pass of the loop ends with an output on when the heartbeat is missing, the
\* VMS has just reported FAILURE or an adoption is awaited.
THEOREM LoopIsGuarded == Spec => GuardedLoop
<1>1. ASSUME OffUnlessReady,
             LoopWith(VmsFailure) \/ (Loop /\ (Missing' \/ waiting'))
      PROVE  AllOff'
  <2>1. CASE LoopWith(VmsFailure)
    BY <1>1, <2>1, LoopKeepsOff
  <2>2. CASE Loop /\ (Missing' \/ waiting')
    <3>1. PICK frame \in Frames : LoopWith(frame)
      BY <2>2 DEF Loop
    <3>2. QED
      BY <1>1, <2>2, <3>1, LoopKeepsOff DEF Missing
  <2>3. QED
    BY <1>1, <2>1, <2>2
<1>2. OffUnlessReady =>
        [LoopWith(VmsFailure) \/ (Loop /\ (Missing' \/ waiting')) => AllOff']_vars
  BY <1>1
<1>3. QED
  BY <1>2, DrivesNothingUnlessReady, PTL DEF GuardedLoop
=============================================================================
