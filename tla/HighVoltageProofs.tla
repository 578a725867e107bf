-------------------------- MODULE HighVoltageProofs --------------------------
(***************************************************************************)
(* The relays the VMS requests are those of the phase it believes to be in.*)
(*                                                                         *)
(* RequestsAsDecided speaks of the moments between two callbacks only, and *)
(* the calls of one callback are separate steps: Outstanding carries it    *)
(* through them.  Every call that is left asks for what the phase calls    *)
(* for, and every relay without a call left already has it.                *)
(*                                                                         *)
(* The link is precharged in every session without an excuse: Protected    *)
(* follows one from the end of its precharge until its main path is taken  *)
(* back.                                                                   *)
(***************************************************************************)
EXTENDS HighVoltage, TLAPS

Outstanding ==
  /\ \A i \in 1 .. Len(calls) : calls[i][2] = RequestedByPhase[calls[i][1]]
  /\ \A relay \in Relays :
       (\A i \in 1 .. Len(calls) : calls[i][1] # relay) =>
         requested[relay] = RequestedByPhase[relay]

IInv == ContactorsTypeOK /\ Outstanding

----------------------------------------------------------------------------

LEMMA PhaseTyped ==
  ASSUME ContactorsTypeOK
  PROVE  RequestedByPhase \in [Relays -> BOOLEAN]
  BY DEF ContactorsTypeOK, RequestedByPhase, AllOpen, Relays

\* The steps of the bus, the key, the inverter and the firmware, and those of the
\* contactors' process that make no call.
LEMMA OthersKeepCalls ==
  ASSUME [Next]_vars
  PROVE  \/ ContactorsToggle \/ ContactorsCall
         \/ UNCHANGED <<status, calls, requested>>
<1>1. CASE TurnKey \/ Charge \/ Discharge
  BY <1>1 DEF TurnKey, Charge, Discharge, contactorsVars
<1>2. CASE InverterHandleContact \/ ToggleInverter \/ HandleInverterStatus
  BY <1>2 DEF InverterHandleContact, ToggleInverter, HandleInverterStatus, contactorsVars
<1>3. CASE ContactorsHear \/ ContactorsWatch \/ ContactorsElapse
  BY <1>3 DEF ContactorsHear, ContactorsWatch, ContactorsElapse, HandleContact,
              HandleVoltage, LoopWatching, Elapse
<1>4. CASE EmitPinStatus
  BY <1>4 DEF EmitPinStatus, HandlePinStatus
<1>5. CASE ReceiveRequest \/ ReceiveFailure \/ ReceiveReset
  BY <1>5 DEF ReceiveRequest, ReceiveFailure, ReceiveReset, FirmwareLoop, contactorsVars
<1>6. CASE UNCHANGED vars
  BY <1>6 DEF vars, contactorsVars
<1>7. QED
  BY <1>1, <1>2, <1>3, <1>4, <1>5, <1>6 DEF Next

----------------------------------------------------------------------------

\* The calls of a callback, as sequences.
LEMMA OneCall ==
  ASSUME NEW c
  PROVE  Len(<<c>>) = 1 /\ <<c>>[1] = c /\ (c \in Relays \X BOOLEAN => <<c>> \in Seq(Relays \X BOOLEAN))
  OBVIOUS

LEMMA TwoCalls ==
  ASSUME NEW c, NEW d
  PROVE  /\ Len(<<c, d>>) = 2 /\ <<c, d>>[1] = c /\ <<c, d>>[2] = d
         /\ c \in Relays \X BOOLEAN /\ d \in Relays \X BOOLEAN
              => <<c, d>> \in Seq(Relays \X BOOLEAN)
  OBVIOUS

LEMMA ThreeCalls ==
  ASSUME NEW c, NEW d, NEW e
  PROVE  /\ Len(<<c, d, e>>) = 3
         /\ <<c, d, e>>[1] = c /\ <<c, d, e>>[2] = d /\ <<c, d, e>>[3] = e
         /\ c \in Relays \X BOOLEAN /\ d \in Relays \X BOOLEAN /\ e \in Relays \X BOOLEAN
              => <<c, d, e>> \in Seq(Relays \X BOOLEAN)
  OBVIOUS

LEMMA CallsOfRelays ==
  ASSUME NEW relay \in {"negative", "precharge", "positive"}, NEW on \in BOOLEAN
  PROVE  <<relay, on>> \in Relays \X BOOLEAN
  BY DEF Relays

LEMMA ToggleTyped ==
  ASSUME ContactorsTypeOK, Toggle
  PROVE  /\ calls' \in Seq(Relays \X BOOLEAN) /\ Len(calls') <= 3
         /\ status' \in {"off", "starting", "precharge_complete", "started"}
         /\ delayElapsed' \in BOOLEAN
<1>1. CASE StartPrecharge
  <2>1. calls' = <<<<"negative", TRUE>>, <<"precharge", TRUE>>>>
    BY <1>1 DEF StartPrecharge
  <2>2. calls' \in Seq(Relays \X BOOLEAN) /\ Len(calls') = 2
    BY <2>1, CallsOfRelays, TwoCalls
  <2>3. QED
    BY <1>1, <2>2 DEF StartPrecharge, ContactorsTypeOK
<1>2. CASE EndPrecharge
  <2>1. calls' = <<<<"positive", TRUE>>>>
    BY <1>2 DEF EndPrecharge
  <2>2. calls' \in Seq(Relays \X BOOLEAN) /\ Len(calls') = 1
    BY <2>1, CallsOfRelays, OneCall
  <2>3. status' = "precharge_complete" /\ delayElapsed' \in BOOLEAN
    BY <1>2 DEF EndPrecharge
  <2>4. Len(calls') <= 3
    BY <2>2
  <2>5. QED
    BY <2>2, <2>3, <2>4
<1>3. CASE FinishPrecharge
  <2>1. calls' = <<<<"precharge", FALSE>>>>
    BY <1>3 DEF FinishPrecharge
  <2>2. calls' \in Seq(Relays \X BOOLEAN) /\ Len(calls') = 1
    BY <2>1, CallsOfRelays, OneCall
  <2>3. QED
    BY <1>3, <2>2 DEF FinishPrecharge, ContactorsTypeOK
<1>4. CASE SwitchOff
  <2>1. calls' = <<<<"precharge", FALSE>>, <<"negative", FALSE>>, <<"positive", FALSE>>>>
    BY <1>4 DEF SwitchOff
  <2>2. calls' \in Seq(Relays \X BOOLEAN) /\ Len(calls') = 3
    BY <2>1, CallsOfRelays, ThreeCalls
  <2>3. QED
    BY <1>4, <2>2 DEF SwitchOff, ContactorsTypeOK
<1>5. QED
  BY <1>1, <1>2, <1>3, <1>4 DEF Toggle

\* What each phase calls for, relay by relay.
LEMMA Phases ==
  ASSUME NEW relay \in Relays
  PROVE  /\ status = "off" => RequestedByPhase[relay] = FALSE
         /\ status = "starting" => RequestedByPhase[relay] = (relay # "positive")
         /\ status = "precharge_complete" => RequestedByPhase[relay] = TRUE
         /\ status = "started" => RequestedByPhase[relay] = (relay # "precharge")
  BY DEF RequestedByPhase, AllOpen, Relays

LEMMA PhasesNext ==
  ASSUME NEW relay \in Relays
  PROVE  /\ status' = "off" => RequestedByPhase'[relay] = FALSE
         /\ status' = "starting" => RequestedByPhase'[relay] = (relay # "positive")
         /\ status' = "precharge_complete" => RequestedByPhase'[relay] = TRUE
         /\ status' = "started" => RequestedByPhase'[relay] = (relay # "precharge")
  BY DEF RequestedByPhase, AllOpen, Relays

LEMMA ToggleOutstanding ==
  ASSUME IInv, Idle, Toggle, UNCHANGED requested
  PROVE  Outstanding'
<1>1. \A relay \in Relays : requested'[relay] = RequestedByPhase[relay]
  BY DEF IInv, Outstanding, Idle
<1>2. CASE StartPrecharge
  <2>1. /\ status = "off" /\ status' = "starting" /\ Len(calls') = 2
        /\ calls'[1][1] = "negative" /\ calls'[1][2] = TRUE
        /\ calls'[2][1] = "precharge" /\ calls'[2][2] = TRUE
    BY <1>2, TwoCalls DEF StartPrecharge
  <2>2. \A i \in 1 .. 2 : i = 1 \/ i = 2
    OBVIOUS
  <2>3. \A i \in 1 .. Len(calls') : calls'[i][2] = RequestedByPhase'[calls'[i][1]]
    BY <2>1, <2>2, PhasesNext DEF Relays
  <2>4. ASSUME NEW relay \in Relays, \A i \in 1 .. Len(calls') : calls'[i][1] # relay
        PROVE  requested'[relay] = RequestedByPhase'[relay]
    <3>1. relay # "negative" /\ relay # "precharge"
      BY <2>1, <2>4
    <3>2. QED
      BY <1>1, <2>1, <3>1, Phases, PhasesNext DEF Relays
  <2>5. QED
    BY <2>3, <2>4 DEF Outstanding
<1>3. CASE EndPrecharge
  <2>1. /\ status = "starting" /\ status' = "precharge_complete" /\ Len(calls') = 1
        /\ calls'[1][1] = "positive" /\ calls'[1][2] = TRUE
    BY <1>3, OneCall DEF EndPrecharge
  <2>2. \A i \in 1 .. 1 : i = 1
    OBVIOUS
  <2>3. \A i \in 1 .. Len(calls') : calls'[i][2] = RequestedByPhase'[calls'[i][1]]
    BY <2>1, <2>2, PhasesNext DEF Relays
  <2>4. ASSUME NEW relay \in Relays, \A i \in 1 .. Len(calls') : calls'[i][1] # relay
        PROVE  requested'[relay] = RequestedByPhase'[relay]
    <3>1. relay # "positive"
      BY <2>1, <2>4
    <3>2. QED
      BY <1>1, <2>1, <3>1, Phases, PhasesNext DEF Relays
  <2>5. QED
    BY <2>3, <2>4 DEF Outstanding
<1>4. CASE FinishPrecharge
  <2>1. /\ status = "precharge_complete" /\ status' = "started" /\ Len(calls') = 1
        /\ calls'[1][1] = "precharge" /\ calls'[1][2] = FALSE
    BY <1>4, OneCall DEF FinishPrecharge
  <2>2. \A i \in 1 .. 1 : i = 1
    OBVIOUS
  <2>3. \A i \in 1 .. Len(calls') : calls'[i][2] = RequestedByPhase'[calls'[i][1]]
    BY <2>1, <2>2, PhasesNext DEF Relays
  <2>4. ASSUME NEW relay \in Relays, \A i \in 1 .. Len(calls') : calls'[i][1] # relay
        PROVE  requested'[relay] = RequestedByPhase'[relay]
    <3>1. relay # "precharge"
      BY <2>1, <2>4
    <3>2. QED
      BY <1>1, <2>1, <3>1, Phases, PhasesNext DEF Relays
  <2>5. QED
    BY <2>3, <2>4 DEF Outstanding
<1>5. CASE SwitchOff
  <2>1. /\ status' = "off" /\ Len(calls') = 3
        /\ calls'[1][1] = "precharge" /\ calls'[1][2] = FALSE
        /\ calls'[2][1] = "negative" /\ calls'[2][2] = FALSE
        /\ calls'[3][1] = "positive" /\ calls'[3][2] = FALSE
    BY <1>5, ThreeCalls DEF SwitchOff
  <2>2. \A i \in 1 .. 3 : i = 1 \/ i = 2 \/ i = 3
    OBVIOUS
  <2>3. \A i \in 1 .. Len(calls') : calls'[i][2] = RequestedByPhase'[calls'[i][1]]
    BY <2>1, <2>2, PhasesNext DEF Relays
  <2>4. ASSUME NEW relay \in Relays, \A i \in 1 .. Len(calls') : calls'[i][1] # relay
        PROVE  requested'[relay] = RequestedByPhase'[relay]
    <3>1. relay # "precharge" /\ relay # "negative" /\ relay # "positive"
      BY <2>1, <2>4
    <3>2. QED
      BY <1>1, <2>1, <3>1, Phases, PhasesNext DEF Relays
  <2>5. QED
    BY <2>3, <2>4 DEF Outstanding
<1>6. QED
  BY <1>2, <1>3, <1>4, <1>5 DEF Toggle

LEMMA CallOutstanding ==
  ASSUME IInv, SetDigitalValue
  PROVE  Outstanding'
<1>1. /\ calls # << >> /\ calls' = Tail(calls) /\ status' = status
      /\ requested' = [requested EXCEPT ![Head(calls)[1]] = Head(calls)[2]]
  BY DEF SetDigitalValue, Idle
<1>2. calls \in Seq(Relays \X BOOLEAN) /\ requested \in [Relays -> BOOLEAN]
  BY DEF IInv, ContactorsTypeOK
<1>3. /\ Head(calls) = calls[1] /\ 1 \in 1 .. Len(calls)
      /\ Len(calls') = Len(calls) - 1
      /\ \A i \in 1 .. Len(calls') : calls'[i] = calls[i + 1] /\ i + 1 \in 1 .. Len(calls)
  BY <1>1, <1>2
<1>4. RequestedByPhase' = RequestedByPhase
  BY <1>1 DEF RequestedByPhase, AllOpen
<1>5. \A i \in 1 .. Len(calls') : calls'[i][2] = RequestedByPhase[calls'[i][1]]
  BY <1>3 DEF IInv, Outstanding
<1>6. ASSUME NEW relay \in Relays, \A i \in 1 .. Len(calls') : calls'[i][1] # relay
      PROVE  requested'[relay] = RequestedByPhase[relay]
  <2>1. CASE relay = calls[1][1]
    BY <1>1, <1>2, <1>3, <2>1 DEF IInv, Outstanding
  <2>2. CASE relay # calls[1][1]
    <3>1. \A i \in 1 .. Len(calls) : i = 1 \/ (i - 1 \in 1 .. Len(calls') /\ (i - 1) + 1 = i)
      BY <1>2, <1>3
    <3>2. \A i \in 1 .. Len(calls) : calls[i][1] # relay
      BY <1>3, <1>6, <2>2, <3>1
    <3>3. QED
      BY <1>1, <1>2, <1>3, <2>2, <3>2 DEF IInv, Outstanding
  <2>3. QED
    BY <2>1, <2>2
<1>7. QED
  BY <1>4, <1>5, <1>6 DEF Outstanding

----------------------------------------------------------------------------

\* The part of the contactors' state that a step of the bus may set.
LEMMA OthersTyped ==
  ASSUME TypeOK, [Next]_vars
  PROVE  /\ contact' \in Contacts /\ voltage' \in Voltages
         /\ key' \in Contacts /\ inverterContact' \in Contacts
         /\ inverterEnabled' \in BOOLEAN
         /\ measured' \in Voltages /\ link' \in Voltages
<1> USE DEF TypeOK, ContactorsTypeOK, Contacts, Voltages
<1>1. CASE TurnKey \/ Charge \/ Discharge
  BY <1>1 DEF TurnKey, Charge, Discharge, contactorsVars, heard, inverterVars
<1>2. CASE InverterHandleContact \/ ToggleInverter \/ HandleInverterStatus
  BY <1>2 DEF InverterHandleContact, ToggleInverter, HandleInverterStatus, contactorsVars,
              heard
<1>3. CASE ContactorsHear \/ ContactorsToggle \/ ContactorsWatch \/ ContactorsCall
             \/ ContactorsElapse
  BY <1>3 DEF ContactorsHear, ContactorsToggle, ContactorsWatch, ContactorsCall,
              ContactorsElapse, HandleContact, HandleVoltage, LoopToggling, LoopWatching,
              SetDigitalValue, Elapse, heard, physical, inverterVars
<1>4. CASE EmitPinStatus
  BY <1>4 DEF EmitPinStatus, HandlePinStatus, heard, physical, inverterVars
<1>5. CASE ReceiveRequest \/ ReceiveFailure \/ ReceiveReset
  BY <1>5 DEF ReceiveRequest, ReceiveFailure, ReceiveReset, FirmwareLoop, contactorsVars,
              heard, inverterVars
<1>6. CASE UNCHANGED vars
  BY <1>6 DEF vars, contactorsVars, heard, inverterVars
<1>7. QED
  BY <1>1, <1>2, <1>3, <1>4, <1>5, <1>6 DEF Next

----------------------------------------------------------------------------

\* The controller is past its boot time, adopted and hears the VMS.
BoardQuiet == ~booting /\ heartbeatAge = 0 /\ ~waiting

\* What a pass of the firmware's loop does to the relays and the status.
LEMMA FirmwareTyped ==
  ASSUME TypeOK, BoardQuiet,
         ReceiveRequest \/ ReceiveFailure \/ ReceiveReset
  PROVE  /\ relays' \in [Relays -> BOOLEAN]
         /\ controller' \in {"ready", "vms_failure"}
         /\ BoardQuiet'
         /\ excuses' \in SUBSET Excuses
         /\ controller = "ready" /\ controller' = "ready" => relays' \in {relays, requested}
         /\ controller = "ready" /\ controller' # "ready" => relays' = AllOpen
<1> DEFINE frames == {Firmware!DigitalRequest(requested), Firmware!VmsFailure,
                      Firmware!ResetCommand}
           given == [digital |-> relays, other |-> other]
<1>1. PICK frame \in frames : FirmwareLoop(frame)
  BY DEF ReceiveRequest, ReceiveFailure, ReceiveReset
<1>2. Firmware!LoopOn(frame, FALSE, FALSE, FALSE, TRUE)
  BY <1>1 DEF FirmwareLoop
<1>3. heartbeatAge' = 0 /\ booting' = booting
  BY <1>2 DEF Firmware!LoopOn, BoardQuiet
<1>4. Firmware!Run(frame, FALSE, FALSE, TRUE)
  BY <1>2 DEF Firmware!LoopOn, BoardQuiet
<1>5. BoardQuiet'
  BY <1>3, <1>4 DEF Firmware!Run, BoardQuiet
<1>6. excuses' \in SUBSET Excuses
  BY <1>1 DEF FirmwareLoop, TypeOK, Excuses
<1>7. CASE controller = "ready"
  <2>1. Firmware!Watch(frame, FALSE, Firmware!Requested(frame, given, TRUE))
    BY <1>4, <1>7 DEF Firmware!Run
  <2>2. Firmware!Requested(frame, given, TRUE).digital \in {relays, requested}
    BY <1>1 DEF Firmware!Requested, Firmware!DigitalRequest, Firmware!VmsFailure,
                Firmware!ResetCommand
  <2>3. ~Firmware!MissingNow
    BY <1>3 DEF Firmware!MissingNow
  <2>4. \/ Firmware!Shutdown("vms_failure")
        \/ /\ controller' = "ready"
           /\ relays' = Firmware!Requested(frame, given, TRUE).digital
    BY <2>1, <2>3 DEF Firmware!Watch
  <2>5. Firmware!AllLow = AllOpen /\ AllOpen \in [Relays -> BOOLEAN]
    BY DEF Firmware!AllLow, AllOpen
  <2>6. CASE Firmware!Shutdown("vms_failure")
    BY <1>5, <1>6, <2>5, <2>6 DEF Firmware!Shutdown
  <2>7. QED
    BY <1>5, <1>6, <2>2, <2>4, <2>6 DEF TypeOK, ContactorsTypeOK
<1>8. CASE controller # "ready"
  <2>1. relays' = relays /\ Firmware!HandleVmsCommandFrame(frame)
    BY <1>4, <1>8 DEF Firmware!Run
  <2>2. QED
    BY <1>5, <1>6, <2>1 DEF Firmware!HandleVmsCommandFrame, TypeOK
<1>9. QED
  BY <1>7, <1>8

\* The steps that leave the controller alone.
LEMMA FirmwareUntouched ==
  ASSUME TypeOK, BoardQuiet, [Next]_vars,
         ~(ReceiveRequest \/ ReceiveFailure \/ ReceiveReset)
  PROVE  /\ UNCHANGED <<relays, controller>>
         /\ BoardQuiet'
         /\ excuses' \in SUBSET Excuses
<1> USE DEF TypeOK, BoardQuiet, firmwareVars, board
<1>1. CASE TurnKey \/ Charge \/ Discharge
  BY <1>1 DEF TurnKey, Charge, Discharge
<1>2. CASE InverterHandleContact \/ ToggleInverter \/ HandleInverterStatus
  BY <1>2 DEF InverterHandleContact, ToggleInverter, HandleInverterStatus
<1>3. CASE ContactorsHear \/ ContactorsWatch \/ ContactorsCall \/ ContactorsElapse
             \/ EmitPinStatus
  BY <1>3 DEF ContactorsHear, ContactorsWatch, ContactorsCall, ContactorsElapse,
              EmitPinStatus, physical
<1>4. CASE ContactorsToggle
  <2>1. UNCHANGED firmwareVars
    BY <1>4 DEF ContactorsToggle, physical
  <2>2. excuses' \in SUBSET Excuses
    BY <1>4 DEF ContactorsToggle, Excuses
  <2>3. QED
    BY <2>1, <2>2
<1>5. CASE UNCHANGED vars
  BY <1>5 DEF vars
<1>6. QED
  BY <1>1, <1>2, <1>3, <1>4, <1>5 DEF Next

\* The sequence's own variables, whoever takes the step.
LEMMA ContactorsTyped ==
  ASSUME TypeOK, [Next]_vars
  PROVE  ContactorsTypeOK'
<1>1. contact' \in Contacts /\ voltage' \in Voltages
  BY OthersTyped
<1> USE DEF TypeOK, ContactorsTypeOK
<1>2. CASE ContactorsToggle
  <2>1. Toggle /\ UNCHANGED <<readyToDrive, requested, received>>
    BY <1>2 DEF ContactorsToggle, LoopToggling
  <2>2. QED
    BY <1>1, <2>1, ToggleTyped
<1>3. CASE ContactorsCall
  <2>1. /\ calls # << >> /\ calls' = Tail(calls)
        /\ requested' = [requested EXCEPT ![Head(calls)[1]] = Head(calls)[2]]
        /\ UNCHANGED <<status, delayElapsed, received>>
    BY <1>3 DEF ContactorsCall, SetDigitalValue, Idle
  <2>2. /\ Head(calls) \in Relays \X BOOLEAN
        /\ calls' \in Seq(Relays \X BOOLEAN) /\ Len(calls') <= 3
    BY <2>1
  <2>3. requested' \in [Relays -> BOOLEAN]
    BY <2>1, <2>2
  <2>4. readyToDrive' \in BOOLEAN
    BY <1>3 DEF ContactorsCall, SetDigitalValue, CheckReadyToDrive, Relays
  <2>5. QED
    BY <1>1, <2>1, <2>2, <2>3, <2>4
<1>4. CASE ContactorsWatch
  <2>1. readyToDrive' \in BOOLEAN
    BY <1>4 DEF ContactorsWatch, LoopWatching, CheckReadyToDrive, Relays
  <2>2. QED
    BY <1>1, <1>4, <2>1 DEF ContactorsWatch, LoopWatching
<1>5. CASE ContactorsHear \/ ContactorsElapse
  BY <1>1, <1>5 DEF ContactorsHear, ContactorsElapse, HandleContact, HandleVoltage, Elapse
<1>6. CASE EmitPinStatus
  BY <1>1, <1>6 DEF EmitPinStatus, HandlePinStatus
<1>7. CASE UNCHANGED contactorsVars
  BY <1>7 DEF contactorsVars, heard
<1>8. CASE UNCHANGED vars
  BY <1>7, <1>8 DEF vars
<1>9. QED
  BY <1>2, <1>3, <1>4, <1>5, <1>6, <1>7, <1>8
  DEF Next, TurnKey, Charge, Discharge, InverterHandleContact, ToggleInverter,
      HandleInverterStatus, ReceiveRequest, ReceiveFailure, ReceiveReset, FirmwareLoop

LEMMA TypeInductive ==
  ASSUME TypeOK, BoardQuiet, [Next]_vars
  PROVE  TypeOK' /\ BoardQuiet'
  BY OthersTyped, ContactorsTyped, FirmwareTyped, FirmwareUntouched DEF TypeOK

LEMMA TypeInitially == Init => TypeOK /\ BoardQuiet
<1> SUFFICES ASSUME Init PROVE TypeOK /\ BoardQuiet
  OBVIOUS
<1>1. /\ calls \in Seq(Relays \X BOOLEAN) /\ Len(calls) <= 3
      /\ contact \in Contacts /\ voltage \in Voltages
      /\ status \in {"off", "starting", "precharge_complete", "started"}
  BY DEF Init, ContactorsInit, Contacts, Voltages
<1>2. delayElapsed \in BOOLEAN /\ readyToDrive \in BOOLEAN
  BY DEF Init, ContactorsInit
<1>3. requested \in [Relays -> BOOLEAN] /\ received \in [Relays -> BOOLEAN]
  BY DEF Init, ContactorsInit, AllOpen
<1>4. ContactorsTypeOK
  BY <1>1, <1>2, <1>3 DEF ContactorsTypeOK
<1>5. QED
  BY <1>4 DEF Init, TypeOK, BoardQuiet, AllOpen, Contacts, Voltages, Excuses

\* Every variable of the chain is well typed in every reachable state: above all no
\* callback ever has more than its three calls to make, and the controller is
\* never in a status the chain does not account for.
THEOREM TypeCorrect == Spec => []TypeOK
<1>1. TypeOK /\ BoardQuiet /\ [Next]_vars => TypeOK' /\ BoardQuiet'
  BY TypeInductive
<1>2. QED
  BY <1>1, TypeInitially, PTL DEF Spec

----------------------------------------------------------------------------

LEMMA OutstandingInductive ==
  ASSUME IInv, [Next]_vars
  PROVE  Outstanding'
<1>1. CASE ContactorsToggle
  BY <1>1, ToggleOutstanding DEF ContactorsToggle, LoopToggling
<1>2. CASE ContactorsCall
  BY <1>2, CallOutstanding DEF ContactorsCall
<1>3. CASE UNCHANGED <<status, calls, requested>>
  BY <1>3 DEF IInv, Outstanding, RequestedByPhase
<1>4. QED
  BY <1>1, <1>2, <1>3, OthersKeepCalls

\* Between two callbacks the relays requested of the controller are exactly those of
\* the phase, whatever contact, voltage and frames came in between the calls.
THEOREM RequestsFollowThePhase == Spec => []RequestsAsDecided
<1>1. Init => Outstanding
  BY DEF Init, ContactorsInit, Outstanding, RequestedByPhase
<1>2. TypeOK /\ Outstanding /\ [Next]_vars => Outstanding'
  BY OutstandingInductive DEF IInv, TypeOK
<1>3. TypeOK /\ Outstanding => RequestsAsDecided
  <2> SUFFICES ASSUME TypeOK, Outstanding, Idle PROVE requested = RequestedByPhase
    BY DEF RequestsAsDecided
  <2>1. 1 .. Len(calls) = {}
    BY DEF Idle
  <2>2. \A relay \in Relays : requested[relay] = RequestedByPhase[relay]
    BY <2>1 DEF Outstanding
  <2>3. /\ requested \in [Relays -> BOOLEAN]
        /\ RequestedByPhase \in [Relays -> BOOLEAN]
    BY PhaseTyped DEF TypeOK, ContactorsTypeOK
  <2>4. QED
    BY <2>2, <2>3
<1>4. QED
  BY <1>1, <1>2, <1>3, TypeCorrect, PTL DEF Spec

----------------------------------------------------------------------------
(* Inrush.  Outstanding leaves open which relays a callback still has to     *)
(* call: CallsOfPhase adds it.  Protected then follows a session that has no *)
(* excuse.                                                                   *)

CallsOfPhase ==
  \A i \in 1 .. Len(calls) :
    /\ status = "starting" => calls[i][1] # "positive"
    /\ status = "precharge_complete" => calls[i][1] = "positive"
    /\ status = "started" => calls[i][1] = "precharge"

\* The main path is on its way, or has not been taken back yet.
Committed == status \in {"precharge_complete", "started"} \/ MainPath(requested)

\* A session without an excuse has its controller, and a link that is fed and
\* charged from the end of the precharge until the main path is taken back.
Protected ==
  excuses = {} => /\ controller = "ready"
                  /\ Committed => Fed /\ link = "high"

SessionInv == TypeOK /\ BoardQuiet /\ Outstanding /\ CallsOfPhase /\ Protected

\* What a phase has requested for certain, whatever call is still to come.
LEMMA RequestedForCertain ==
  ASSUME SessionInv
  PROVE  /\ status = "starting" => ~requested["positive"]
         /\ status = "precharge_complete" => requested["negative"] /\ requested["precharge"]
         /\ status = "started" => requested["negative"] /\ requested["positive"]
<1>1. ASSUME NEW relay \in Relays, \A i \in 1 .. Len(calls) : calls[i][1] # relay
      PROVE  requested[relay] = RequestedByPhase[relay]
  BY <1>1 DEF SessionInv, Outstanding
<1>2. CASE status = "starting"
  <2>1. requested["positive"] = RequestedByPhase["positive"]
    BY <1>1, <1>2 DEF SessionInv, CallsOfPhase, Relays
  <2>2. QED
    BY <1>2, <2>1, Phases DEF Relays
<1>3. CASE status = "precharge_complete"
  <2>1. /\ requested["negative"] = RequestedByPhase["negative"]
        /\ requested["precharge"] = RequestedByPhase["precharge"]
    BY <1>1, <1>3 DEF SessionInv, CallsOfPhase, Relays
  <2>2. QED
    BY <1>3, <2>1, Phases DEF Relays
<1>4. CASE status = "started"
  <2>1. /\ requested["negative"] = RequestedByPhase["negative"]
        /\ requested["positive"] = RequestedByPhase["positive"]
    BY <1>1, <1>4 DEF SessionInv, CallsOfPhase, Relays
  <2>2. QED
    BY <1>4, <2>1, Phases DEF Relays
<1>5. QED
  BY <1>2, <1>3, <1>4

LEMMA ToggleCallsOfPhase ==
  ASSUME Toggle
  PROVE  CallsOfPhase'
<1>1. CASE StartPrecharge
  <2>1. /\ status' = "starting" /\ Len(calls') = 2
        /\ calls'[1][1] = "negative" /\ calls'[2][1] = "precharge"
    BY <1>1, TwoCalls DEF StartPrecharge
  <2>2. \A i \in 1 .. 2 : i = 1 \/ i = 2
    OBVIOUS
  <2>3. QED
    BY <2>1, <2>2 DEF CallsOfPhase
<1>2. CASE EndPrecharge
  <2>1. status' = "precharge_complete" /\ Len(calls') = 1 /\ calls'[1][1] = "positive"
    BY <1>2, OneCall DEF EndPrecharge
  <2>2. \A i \in 1 .. 1 : i = 1
    OBVIOUS
  <2>3. QED
    BY <2>1, <2>2 DEF CallsOfPhase
<1>3. CASE FinishPrecharge
  <2>1. status' = "started" /\ Len(calls') = 1 /\ calls'[1][1] = "precharge"
    BY <1>3, OneCall DEF FinishPrecharge
  <2>2. \A i \in 1 .. 1 : i = 1
    OBVIOUS
  <2>3. QED
    BY <2>1, <2>2 DEF CallsOfPhase
<1>4. CASE SwitchOff
  BY <1>4 DEF SwitchOff, CallsOfPhase
<1>5. QED
  BY <1>1, <1>2, <1>3, <1>4 DEF Toggle

LEMMA CallsOfPhaseInductive ==
  ASSUME TypeOK, CallsOfPhase, [Next]_vars
  PROVE  CallsOfPhase'
<1>1. CASE ContactorsToggle
  BY <1>1, ToggleCallsOfPhase DEF ContactorsToggle, LoopToggling
<1>2. CASE ContactorsCall
  <2>1. calls # << >> /\ calls' = Tail(calls) /\ status' = status
    BY <1>2 DEF ContactorsCall, SetDigitalValue, Idle
  <2>2. \A i \in 1 .. Len(calls') : calls'[i] = calls[i + 1] /\ i + 1 \in 1 .. Len(calls)
    BY <2>1 DEF TypeOK, ContactorsTypeOK
  <2>3. QED
    BY <2>1, <2>2 DEF CallsOfPhase
<1>3. CASE UNCHANGED <<status, calls, requested>>
  BY <1>3 DEF CallsOfPhase
<1>4. QED
  BY <1>1, <1>2, <1>3, OthersKeepCalls

\* A step of the sequence: only the end of the precharge commits, and it either
\* finds the link charged or leaves an excuse.
LEMMA ToggleProtected ==
  ASSUME SessionInv, ContactorsToggle
  PROVE  Protected'
<1>1. /\ Idle /\ Toggle
      /\ UNCHANGED <<requested, relays, controller, link>>
  BY DEF ContactorsToggle, LoopToggling, physical, firmwareVars
<1>2. Fed' = Fed /\ MainPath(requested)' = MainPath(requested)
  BY <1>1 DEF Fed, MainPath
<1>3. CASE StartPrecharge
  <2>1. requested["negative"] = RequestedByPhase["negative"]
    BY <1>1 DEF SessionInv, Outstanding, Idle, Relays
  <2>2. ~MainPath(requested)
    BY <1>3, <2>1, Phases DEF StartPrecharge, MainPath, Relays
  <2>3. status' = "starting"
    BY <1>3 DEF StartPrecharge
  <2>4. excuses' = {} => controller = "ready"
    BY <2>3 DEF ContactorsToggle, Excuses
  <2>5. QED
    BY <1>1, <1>2, <2>2, <2>3, <2>4 DEF Protected, Committed
<1>4. CASE EndPrecharge
  <2>1. status' = "precharge_complete" /\ voltage = "high"
    BY <1>4 DEF EndPrecharge
  <2>2. excuses' = IF ~(Fed /\ link = "high") THEN excuses \cup {"leftover"} ELSE excuses
    BY <2>1 DEF ContactorsToggle
  <2>3. QED
    BY <1>1, <1>2, <2>2 DEF SessionInv, Protected
<1>5. CASE FinishPrecharge
  <2>1. status = "precharge_complete" /\ status' = "started"
    BY <1>5 DEF FinishPrecharge
  <2>2. excuses' = excuses
    BY <2>1 DEF ContactorsToggle
  <2>3. QED
    BY <1>1, <1>2, <2>1, <2>2 DEF SessionInv, Protected, Committed
<1>6. CASE SwitchOff
  <2>1. status' = "off"
    BY <1>6 DEF SwitchOff
  <2>2. excuses' = excuses
    BY <2>1 DEF ContactorsToggle
  <2>3. QED
    BY <1>1, <1>2, <2>1, <2>2 DEF SessionInv, Protected, Committed
<1>7. QED
  BY <1>1, <1>3, <1>4, <1>5, <1>6 DEF Toggle

\* A call completes the main path in the phases that are committed already, and
\* never while the precharge goes on.
LEMMA CallProtected ==
  ASSUME SessionInv, ContactorsCall
  PROVE  Protected'
<1>1. /\ calls # << >> /\ status' = status
      /\ requested' = [requested EXCEPT ![Head(calls)[1]] = Head(calls)[2]]
  BY DEF ContactorsCall, SetDigitalValue, Idle
<1>2. /\ calls \in Seq(Relays \X BOOLEAN) /\ requested \in [Relays -> BOOLEAN]
      /\ status \in {"off", "starting", "precharge_complete", "started"}
  BY DEF SessionInv, TypeOK, ContactorsTypeOK
<1>3. Head(calls) = calls[1] /\ 1 \in 1 .. Len(calls) /\ calls[1][1] \in Relays
  BY <1>1, <1>2
<1>4. ASSUME status = "off" PROVE Committed' => Committed
  <2>1. ~calls[1][2]
    BY <1>3, <1>4, Phases DEF SessionInv, Outstanding
  <2>2. QED
    BY <1>1, <1>2, <1>3, <1>4, <2>1 DEF Committed, MainPath, Relays
<1>5. ASSUME status = "starting" PROVE Committed' => Committed
  <2>1. calls[1][1] # "positive" /\ ~requested["positive"]
    BY <1>3, <1>5, RequestedForCertain DEF SessionInv, CallsOfPhase
  <2>2. QED
    BY <1>1, <1>2, <1>3, <1>5, <2>1 DEF Committed, MainPath, Relays
<1>6. Committed' => Committed
  BY <1>2, <1>4, <1>5 DEF Committed
<1>7. UNCHANGED <<relays, controller, link, excuses>>
  BY DEF ContactorsCall, physical, firmwareVars
<1>8. QED
  BY <1>6, <1>7 DEF SessionInv, Protected, Fed

\* The controller obeys: a committed request feeds the link as the committed
\* relays did, and the link keeps its charge.
LEMMA FirmwareProtected ==
  ASSUME SessionInv, ReceiveRequest \/ ReceiveFailure \/ ReceiveReset
  PROVE  /\ Protected'
         /\ Inrush => excuses # {}
<1>1. /\ excuses' = IF controller' = "ready" THEN excuses ELSE excuses \cup {"shutdown"}
      /\ UNCHANGED <<status, requested, link>>
  BY DEF ReceiveRequest, ReceiveFailure, ReceiveReset, FirmwareLoop, contactorsVars
<1>2. Committed' = Committed
  BY <1>1 DEF Committed, MainPath
<1>3. CASE excuses = {} /\ controller' = "ready"
  <2>1. controller = "ready" /\ (Committed => Fed /\ link = "high")
    BY <1>3 DEF SessionInv, Protected
  <2>2. relays' \in {relays, requested}
    BY <1>3, <2>1, FirmwareTyped DEF SessionInv
  <2>3. CASE relays' = relays
    BY <1>1, <1>2, <2>1, <2>3, <1>3 DEF Protected, Fed, Inrush, MainPath
  <2>4. CASE relays' = requested
    <3>1. Committed => Fed'
      <4>1. CASE MainPath(requested)
        BY <2>4, <4>1 DEF Fed, MainPath
      <4>2. CASE status \in {"precharge_complete", "started"}
        BY <2>4, <4>2, RequestedForCertain DEF Fed
      <4>3. QED
        BY <4>1, <4>2 DEF Committed
    <3>2. ~Inrush
      BY <2>1, <2>4 DEF Inrush, Committed
    <3>3. controller' = "ready" /\ (Committed' => Fed' /\ link' = "high")
      BY <1>1, <1>2, <1>3, <2>1, <3>1
    <3>4. QED
      BY <3>2, <3>3 DEF Protected
  <2>5. QED
    BY <2>2, <2>3, <2>4
<1>4. CASE excuses # {}
  BY <1>1, <1>4 DEF Protected
<1>5. CASE excuses = {} /\ controller' # "ready"
  <2>1. controller' = "vms_failure" /\ excuses' # {}
    BY <1>1, <1>5, FirmwareTyped DEF SessionInv
  <2>2. CASE Inrush
    <3>1. controller = "ready" /\ ~MainPath(relays')
      BY <1>5, FirmwareTyped DEF SessionInv, Protected, MainPath, AllOpen, Relays
    <3>2. QED
      BY <2>2, <3>1 DEF Inrush
  <2>3. QED
    BY <2>1, <2>2 DEF Protected
<1>6. QED
  BY <1>3, <1>4, <1>5

\* Whoever else takes the step: the relays stay as they are, and the link loses its
\* charge only while it is not fed.
LEMMA OthersProtected ==
  ASSUME SessionInv, [Next]_vars,
         ~(ReceiveRequest \/ ReceiveFailure \/ ReceiveReset),
         ~ContactorsToggle, ~ContactorsCall
  PROVE  Protected'
<1>1. UNCHANGED <<status, requested>>
  BY OthersKeepCalls
<1> USE DEF firmwareVars, physical
<1>2. UNCHANGED <<relays, controller, excuses>> /\ (link' = link \/ Charge \/ Discharge)
  <2>1. CASE TurnKey \/ Charge \/ Discharge
    BY <2>1 DEF TurnKey, Charge, Discharge
  <2>2. CASE InverterHandleContact \/ ToggleInverter \/ HandleInverterStatus
    BY <2>2 DEF InverterHandleContact, ToggleInverter, HandleInverterStatus
  <2>3. CASE ContactorsHear \/ ContactorsWatch \/ ContactorsElapse \/ EmitPinStatus
    BY <2>3 DEF ContactorsHear, ContactorsWatch, ContactorsElapse, EmitPinStatus
  <2>4. CASE UNCHANGED vars
    BY <2>4 DEF vars
  <2>5. QED
    BY <2>1, <2>2, <2>3, <2>4 DEF Next
<1>3. link' = "low" => link = "low" \/ ~Fed
  BY <1>2 DEF Charge, Discharge
<1>4. link' \in {"low", "high"}
  BY OthersTyped DEF SessionInv, Voltages
<1>5. Fed' = Fed /\ Committed' = Committed
  BY <1>1, <1>2 DEF Fed, Committed, MainPath
<1>6. QED
  BY <1>2, <1>3, <1>4, <1>5 DEF SessionInv, Protected

LEMMA SessionInitially == Init => SessionInv
<1> SUFFICES ASSUME Init PROVE SessionInv
  OBVIOUS
<1>1. Outstanding /\ CallsOfPhase
  BY DEF Init, ContactorsInit, Outstanding, CallsOfPhase, RequestedByPhase
<1>2. Protected
  BY DEF Init, ContactorsInit, Protected, Committed, MainPath, AllOpen, Relays
<1>3. QED
  BY <1>1, <1>2, TypeInitially DEF SessionInv

LEMMA SessionInductive ==
  ASSUME SessionInv, [Next]_vars
  PROVE  SessionInv'
<1>1. TypeOK' /\ BoardQuiet'
  BY TypeInductive DEF SessionInv
<1>2. Outstanding'
  BY OutstandingInductive DEF SessionInv, IInv, TypeOK
<1>3. CallsOfPhase'
  BY CallsOfPhaseInductive DEF SessionInv
<1>4. Protected'
  BY ToggleProtected, CallProtected, FirmwareProtected, OthersProtected
<1>5. QED
  BY <1>1, <1>2, <1>3, <1>4 DEF SessionInv

LEMMA SessionAlways == Spec => []SessionInv
<1>1. SessionInv /\ [Next]_vars => SessionInv'
  BY SessionInductive
<1>2. QED
  BY <1>1, SessionInitially, PTL DEF Spec

\* The relays of the main path close onto a discharged link only in a session that
\* has one of the three excuses: the precharge protects the link in every other
\* session, however contact, voltage, frames, failures and resets fall between the
\* calls of the sequence.
THEOREM PrechargeProtects == Spec => InrushExcused
<1>1. SessionInv /\ [Next]_vars => [Inrush => excuses # {}]_vars
  <2> SUFFICES ASSUME SessionInv, [Next]_vars, Inrush
               PROVE  excuses # {}
    OBVIOUS
  <2>1. CASE ReceiveRequest \/ ReceiveFailure \/ ReceiveReset
    BY <2>1, FirmwareProtected
  <2>2. CASE ~(ReceiveRequest \/ ReceiveFailure \/ ReceiveReset)
    BY <2>2, FirmwareUntouched DEF SessionInv, Inrush, MainPath
  <2>3. QED
    BY <2>1, <2>2
<1>2. QED
  BY <1>1, SessionAlways, PTL DEF Spec, InrushExcused
============================================================================
