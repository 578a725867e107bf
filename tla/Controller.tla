----------------------------- MODULE Controller -----------------------------
(***************************************************************************)
(* The generic controller's firmware: Controller::setup and                *)
(* Controller::loop, with the adoption button, the configuration stored in *)
(* EEPROM and the I2C expansion board they depend on.                      *)
(*                                                                         *)
(* One pass of the Arduino's loop is one action: it takes the frame in the *)
(* receive FIFO, if any, and nothing interrupts it.  The FIFO holds one    *)
(* frame, so any frame may be lost.  VMS_LATENCY_ERROR is out of reach of  *)
(* the code (loop() stamps an alive frame before watchVms measures its     *)
(* age) and is left out.  What lastError() returns is any value: its body  *)
(* has no return.                                                          *)
(***************************************************************************)
EXTENDS Naturals

CONSTANTS
  DigitalPins,       \* the digital outputs of the configuration
  HeartbeatTimeout,  \* (VMS_ALIVE_MS + TOLERANCE_MS) * 4, in ticks of Tick
  MaxRetries         \* MAX_I2C_RETRY

ASSUME HeartbeatTimeoutAssumption == HeartbeatTimeout \in Nat
ASSUME MaxRetriesAssumption == MaxRetries \in Nat

Statuses ==
  {"adoption_required", "ready", "vms_missing", "vms_failure", "expansion_boards"}

Levels == [DigitalPins -> BOOLEAN]
AllLow == [pin \in DigitalPins |-> FALSE]

NoFrame == [kind |-> "none"]
VmsAlive == [kind |-> "vms_alive", failure |-> FALSE]
VmsFailure == [kind |-> "vms_alive", failure |-> TRUE]
ResetCommand == [kind |-> "reset_command"]
Adoption == [kind |-> "adoption"]
DigitalRequest(levels) == [kind |-> "digital_request", levels |-> levels]
OtherRequest(on) == [kind |-> "other_request", on |-> on]

Frames ==
  {NoFrame, VmsAlive, VmsFailure, ResetCommand, Adoption}
    \cup {DigitalRequest(levels) : levels \in Levels}
    \cup {OtherRequest(on) : on \in BOOLEAN}

VARIABLES
  status,
  digital,      \* the level of every digital output
  other,        \* TRUE while a PWM, the DAC or an external PWM is on
  heartbeatAge, \* ticks since a VMS alive frame, one past the timeout at most
  booting,      \* VMS_ALLOWED_BOOT_TIME has not elapsed
  waiting,      \* AdoptionButton::_waitingAdoption
  wasPressed,   \* AdoptionButton::_buttonWasPressed
  configured,   \* a configuration has been loaded since power-up
  stored,       \* the EEPROM holds a configuration that matches its CRC
  retries       \* _i2cRetryCount

outputs == <<digital, other>>
button == <<waiting, wasPressed>>
memory == <<configured, stored>>
vars == <<status, outputs, heartbeatAge, booting, button, memory, retries>>

TypeOK ==
  /\ status \in Statuses
  /\ digital \in Levels /\ other \in BOOLEAN
  /\ heartbeatAge \in 0 .. HeartbeatTimeout + 1
  /\ booting \in BOOLEAN
  /\ waiting \in BOOLEAN /\ wasPressed \in BOOLEAN
  /\ configured \in BOOLEAN /\ stored \in BOOLEAN
  /\ retries \in 0 .. MaxRetries

\* setup(), with what the EEPROM holds.
Setup(valid) ==
  /\ status = IF valid THEN "ready" ELSE "adoption_required"
  /\ digital = AllLow /\ other = FALSE
  /\ heartbeatAge = 0 /\ booting = TRUE
  /\ waiting = FALSE /\ wasPressed = FALSE
  /\ configured = valid
  /\ stored = valid
  /\ retries = 0

Init == \E valid \in BOOLEAN : Setup(valid)

----------------------------------------------------------------------------
(* The steps of loop().                                                    *)

\* Mutation: the analog, PWM and external outputs are forgotten.
ShutdownDigitalOnly(reason) ==
  /\ status' = reason
  /\ digital' = AllLow
  /\ UNCHANGED other

\* shutdown(): every output off.
Shutdown(reason) ==
  /\ status' = reason
  /\ digital' = AllLow
  /\ other' = FALSE

\* writeDigitalPins(), writeOtherPins() and setExternalPwm().  Without a
\* configuration the frame ids and pin modes were never initialized: a request
\* may be taken or not.
Requested(frame, given, heard) ==
  LET taken(kind) == frame.kind = kind /\ (configured \/ heard)
  IN [digital |-> IF taken("digital_request") THEN frame.levels ELSE given.digital,
      other   |-> IF taken("other_request") THEN frame.on ELSE given.other]

\* The age of the heartbeat as this pass of the loop knows it.
MissingNow == ~booting /\ heartbeatAge' > HeartbeatTimeout

\* Mutation: a failure is looked for in place of a missing heartbeat.
WatchDeafToSilence(frame, failing, given) ==
  IF failing THEN Shutdown("expansion_boards")
  ELSE IF frame = VmsFailure THEN Shutdown("vms_failure")
  ELSE status' = "ready" /\ digital' = given.digital /\ other' = given.other

\* watchVms() and then watchExpansionBoards(), once the frame is handled.
Watch(frame, failing, given) ==
  IF failing THEN Shutdown("expansion_boards")
  ELSE IF MissingNow THEN Shutdown("vms_missing")
  ELSE IF frame = VmsFailure THEN Shutdown("vms_failure")
  ELSE status' = "ready" /\ digital' = given.digital /\ other' = given.other

\* Mutation: the reset command is heard in error states only.
HandleVmsCommandFrameInError(frame) ==
  status' = IF frame = ResetCommand /\ status # "vms_failure" THEN "ready" ELSE status

HandleVmsCommandFrame(frame) ==
  status' = IF frame = ResetCommand THEN "ready" ELSE status

\* adoptConfiguration(), or the shutdown that precedes it: while an adoption is
\* awaited nothing but an adoption frame is heard.
AwaitAdoption(frame) ==
  /\ digital' = IF status = "adoption_required" /\ frame # Adoption THEN digital ELSE AllLow
  /\ other' = (status = "adoption_required" /\ other)
  /\ status' = IF frame = Adoption THEN "ready" ELSE "adoption_required"
  /\ waiting' = (frame # Adoption)
  /\ configured' = (configured \/ frame = Adoption)
  /\ stored' = (stored \/ frame = Adoption)
  /\ UNCHANGED retries

\* Mutation: one retry too many.
RetriesSpentLate == retries > MaxRetries

RetriesSpent == retries = MaxRetries

\* verifyExpansionBoardErrors(): an error resets the boards, which lowers every
\* digital output; only one that outlasts the retries is reported.
Run(frame, error, quiet, heard) ==
  LET faulty == error /\ configured
      failing == faulty /\ RetriesSpent
      given == [digital |-> IF faulty /\ ~failing THEN AllLow ELSE digital, other |-> other]
  IN /\ retries' = IF faulty /\ ~failing THEN retries + 1
                   ELSE IF ~faulty /\ quiet THEN 0
                   ELSE retries
     /\ IF status = "ready"
        THEN Watch(frame, failing, Requested(frame, given, heard))
        ELSE /\ HandleVmsCommandFrame(frame)
             /\ digital' = given.digital /\ other' = given.other
     /\ UNCHANGED <<waiting, memory>>

\* loop(), with the frame received, the button's level, the board's last error,
\* whether the last error is older than ALLOWED_I2C_ERROR_TIMEFRAME, and what
\* uninitialized memory makes of a request.
LoopOn(frame, pressed, error, quiet, heard) ==
  /\ heartbeatAge' = IF frame.kind = "vms_alive" THEN 0 ELSE heartbeatAge
  /\ wasPressed' = IF waiting THEN wasPressed ELSE pressed
  /\ UNCHANGED booting
  /\ \/ (waiting \/ (pressed /\ ~wasPressed)) /\ AwaitAdoption(frame)
     \/ ~(waiting \/ (pressed /\ ~wasPressed)) /\ Run(frame, error, quiet, heard)

LoopWith(frame) ==
  \E pressed, error, quiet, heard \in BOOLEAN : LoopOn(frame, pressed, error, quiet, heard)

Loop == \E frame \in Frames : LoopWith(frame)

----------------------------------------------------------------------------

\* millis(), as far as the heartbeat can tell it.
Tick ==
  /\ heartbeatAge <= HeartbeatTimeout
  /\ heartbeatAge' = heartbeatAge + 1
  /\ UNCHANGED <<status, outputs, booting, button, memory, retries>>

FinishBootTime ==
  /\ booting
  /\ booting' = FALSE
  /\ UNCHANGED <<status, outputs, heartbeatAge, button, memory, retries>>

\* setup() again, from whatever state the power was lost in.
PowerUp(valid) ==
  /\ status' = IF valid THEN "ready" ELSE "adoption_required"
  /\ digital' = AllLow /\ other' = FALSE
  /\ heartbeatAge' = 0 /\ booting' = TRUE
  /\ waiting' = FALSE /\ wasPressed' = FALSE
  /\ configured' = valid
  /\ stored' = valid
  /\ retries' = 0

\* Power is lost and comes back.  Lost while Configuration::store() writes the
\* bytes of a new configuration, it leaves a CRC that does not match.
PowerCycle == PowerUp(stored) \/ (waiting /\ PowerUp(FALSE))

Next == Loop \/ Tick \/ FinishBootTime \/ PowerCycle

Spec == Init /\ [][Next]_vars

\* The Arduino runs loop() for ever, and time passes.
FairSpec ==
  Spec /\ WF_vars(Loop) /\ WF_vars(Tick) /\ WF_vars(FinishBootTime)

----------------------------------------------------------------------------
(* Properties.                                                             *)

AllOff == digital = AllLow /\ other = FALSE

Missing == ~booting /\ heartbeatAge > HeartbeatTimeout

\* "If the VMS heartbeat stops, it shuts every output", and so does every other
\* way out of READY: a controller that is not READY drives nothing, whatever
\* took it out and whatever it is told while it is out.
OffUnlessReady == status # "ready" => AllOff

\* No pass of the loop leaves an output on when the heartbeat is missing, when
\* the VMS has just reported FAILURE or while an adoption is awaited: not even
\* the pass in which a request, or the reset command before it, was obeyed.  (Of
\* the passes that change nothing, SilenceShutsDown speaks.)
GuardedLoop ==
  [][ LoopWith(VmsFailure) \/ (Loop /\ (Missing' \/ waiting')) => AllOff' ]_vars

\* The steps of a controller that no longer hears the VMS alive frame.
Unheard ==
  Tick \/ FinishBootTime \/ \E frame \in Frames \ {VmsAlive, VmsFailure} : LoopWith(frame)

\* A VMS whose heartbeat goes silent for good leaves every output off for good,
\* even while requests, resets, adoptions and board errors go on.
SilenceShutsDown == <>[][Unheard]_vars => <>[]AllOff

\* The steps of a controller that is neither adopted nor failing, nor told of a
\* failure.
Calm ==
  \/ Tick \/ FinishBootTime
  \/ \E frame \in Frames \ {VmsFailure}, quiet, heard \in BOOLEAN :
       LoopOn(frame, FALSE, FALSE, quiet, heard)

\* The reset command, heard with nothing else going on.
Reset == LoopOn(ResetCommand, FALSE, FALSE, FALSE, TRUE)

\* "returning every controller to READY": with the VMS alive and nothing failing
\* any more, a reset command that keeps coming takes a controller out of any
\* error for good.
ResetRecovers ==
  (<>[](~Missing /\ ~waiting) /\ <>[][Calm]_vars /\ SF_vars(Reset))
    => <>[](status = "ready")

\* "A configuration whose CRC does not match is rejected, and the controller asks
\* for adoption again": a controller is READY only once it has a configuration.
ReadyOnlyAdopted == status = "ready" => configured
============================================================================
