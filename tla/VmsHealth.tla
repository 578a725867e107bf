----------------------------- MODULE VmsHealth -----------------------------
(***************************************************************************)
(* How a vehicle fails and recovers: the vehicle's process (Ovcs1.Vms, or  *)
(* OvcsMini.Vms), which latches a FAILURE when a generic controller is not *)
(* OK; VmsCore.Status, which tells the controllers so and resets them,     *)
(* once at boot and whenever the dashboard asks; the controllers' drivers; *)
(* and the controllers, of which only the status is kept (Controller.tla   *)
(* has the rest).                                                          *)
(*                                                                         *)
(* The specification starts as the VMS does, with the controllers in any   *)
(* state the last VMS left them.  Time passes in ticks longer than any     *)
(* exchange: the loops run every 10 ms, the frames every 10 or 100 ms, and *)
(* a tick is half a second.                                                *)
(***************************************************************************)
EXTENDS Naturals

CONSTANTS
  Controllers,     \* the generic controllers of the vehicle
  Callers,         \* the dashboard's requests that may be served at once
  BootResetDelay,  \* @boot_reset_delay_ms, in ticks
  ResetDuration,   \* @reset_duration_ms, in ticks
  BootPeriod       \* until :finish_boot_period, in ticks

ASSUME DurationsAssumption ==
  /\ BootResetDelay \in Nat /\ ResetDuration \in Nat \ {0} /\ BootPeriod \in Nat
  /\ BootResetDelay + ResetDuration < BootPeriod

Boot == "boot"
ASSUME CallersAssumption == Boot \notin Callers

\* Those who hold the reset mode: the boot and the dashboard's requests.
Holders == {Boot} \cup Callers

NoTimer == ResetDuration + 1

VARIABLES
  clock,           \* ticks since the VMS started, up to BootPeriod
  bootPending,     \* the boot's :start_reset_mode has not been sent yet
  stops,           \* ticks to each holder's stop_reset_mode
  vmsHeard, emitted, resetting,  \* Status: vms_status, emitted_vms_status, resetting
  commandEnabled,  \* Status: reset_generic_controllers_frame_enabled
  booting, heardResetting, vmsStatus,  \* the vehicle's process
  heardOk,         \* the vehicle's process: a controller is alive and "OK"
  reportedOk,      \* a controller's driver: its frame is alive and says "OK"
  status,          \* a controller's status
  calm             \* history: ticks of one reset, held with nothing failing since

timers == <<clock, bootPending, stops>>
statusVars == <<vmsHeard, emitted, resetting, commandEnabled>>
vehicleVars == <<booting, heardResetting, vmsStatus, heardOk>>
vars == <<timers, statusVars, vehicleVars, reportedOk, status, calm>>

TypeOK ==
  /\ clock \in 0 .. BootPeriod
  /\ bootPending \in BOOLEAN
  /\ stops \in [Holders -> 0 .. NoTimer]
  /\ vmsHeard \in {"OK", "FAILURE"}
  /\ emitted \in {"OK", "RESETTING", "FAILURE"}
  /\ resetting \in BOOLEAN /\ commandEnabled \in BOOLEAN
  /\ booting \in BOOLEAN /\ heardResetting \in BOOLEAN
  /\ vmsStatus \in {"OK", "FAILURE"}
  /\ heardOk \in [Controllers -> BOOLEAN] /\ reportedOk \in [Controllers -> BOOLEAN]
  /\ status \in [Controllers -> {"ready", "error", "off"}]
  /\ calm \in 0 .. ResetDuration

Init ==
  /\ clock = 0 /\ bootPending = TRUE
  /\ stops = [holder \in Holders |-> NoTimer]
  /\ vmsHeard = "OK" /\ emitted = "OK" /\ resetting = FALSE /\ commandEnabled = FALSE
  /\ booting = TRUE /\ heardResetting = FALSE /\ vmsStatus = "OK"
  /\ heardOk = [c \in Controllers |-> FALSE]
  /\ reportedOk = [c \in Controllers |-> FALSE]
  /\ status \in [Controllers -> {"ready", "error"}]
  /\ calm = 0

----------------------------------------------------------------------------
(* VmsCore.Status.                                                         *)

\* A reset begun anew has its whole duration before it.
StartResetMode(holder) ==
  /\ stops' = [stops EXCEPT ![holder] = ResetDuration]
  /\ resetting' = TRUE
  /\ calm' = IF resetting THEN calm ELSE 0
  /\ UNCHANGED <<clock, vmsHeard, emitted, commandEnabled, vehicleVars, reportedOk, status>>

StartBootReset ==
  /\ bootPending /\ clock = BootResetDelay
  /\ bootPending' = FALSE
  /\ StartResetMode(Boot)

\* trigger_action("reset_status", _): start, sleep, stop.
StartCallerReset(caller) ==
  /\ stops[caller] = NoTimer
  /\ UNCHANGED bootPending
  /\ StartResetMode(caller)

\* Whoever stops the mode stops it for all.
StopResetMode(holder) ==
  /\ stops[holder] = 0
  /\ stops' = [stops EXCEPT ![holder] = NoTimer]
  /\ resetting' = FALSE
  /\ calm' = IF calm = ResetDuration THEN calm ELSE 0
  /\ UNCHANGED <<clock, bootPending, vmsHeard, emitted, commandEnabled, vehicleVars,
                 reportedOk, status>>

HearVmsStatus ==
  /\ vmsHeard' = vmsStatus
  /\ UNCHANGED <<timers, emitted, resetting, commandEnabled, vehicleVars, reportedOk,
                 status, calm>>

\* Mutation: once told of a reset, the controllers are told nothing else.
StatusLoopStuck ==
  /\ emitted' = IF resetting \/ emitted = "RESETTING" THEN "RESETTING" ELSE vmsHeard
  /\ commandEnabled' = resetting
  /\ UNCHANGED <<timers, vmsHeard, resetting, vehicleVars, reportedOk, status, calm>>

\* While resetting, "RESETTING" and the vehicle's status take turns.
StatusLoop ==
  /\ emitted' = IF resetting /\ emitted # "RESETTING" THEN "RESETTING" ELSE vmsHeard
  /\ commandEnabled' = resetting
  /\ UNCHANGED <<timers, vmsHeard, resetting, vehicleVars, reportedOk, status, calm>>

----------------------------------------------------------------------------
(* The vehicle's process.                                                  *)

\* What Status broadcast on its last loop is what it enabled the command by.
HearResetting ==
  /\ heardResetting' = commandEnabled
  /\ UNCHANGED <<timers, statusVars, booting, vmsStatus, heardOk, reportedOk, status, calm>>

HearController(c) ==
  /\ heardOk' = [heardOk EXCEPT ![c] = reportedOk[c]]
  /\ UNCHANGED <<timers, statusVars, booting, heardResetting, vmsStatus, reportedOk,
                 status, calm>>

FinishBootPeriod ==
  /\ booting /\ clock = BootPeriod
  /\ booting' = FALSE
  /\ UNCHANGED <<timers, statusVars, heardResetting, vmsStatus, heardOk, reportedOk,
                 status, calm>>

\* Mutation: the failure is not latched.
IsOkUnlatched == booting \/ heardResetting \/ \A c \in Controllers : heardOk[c]

\* Mutation: a reset does not clear the latch.
IsOkDeafToReset == booting \/ (vmsStatus = "OK" /\ \A c \in Controllers : heardOk[c])

\* compute_vms_status/1: once FAILURE, only a boot or a reset is OK.
IsOk ==
  booting \/ heardResetting \/ (vmsStatus = "OK" /\ \A c \in Controllers : heardOk[c])

VehicleLoop ==
  /\ vmsStatus' = IF IsOk THEN "OK" ELSE "FAILURE"
  /\ UNCHANGED <<timers, statusVars, booting, heardResetting, heardOk, reportedOk,
                 status, calm>>

----------------------------------------------------------------------------
(* The controllers and their drivers.                                      *)

\* Its alive frame is received, or missed for long enough.
Report(c) ==
  /\ reportedOk' = [reportedOk EXCEPT ![c] = (status[c] = "ready")]
  /\ UNCHANGED <<timers, statusVars, vehicleVars, status, calm>>

ReceiveVmsStatus(c) ==
  /\ status[c] = "ready" /\ emitted = "FAILURE"
  /\ status' = [status EXCEPT ![c] = "error"]
  /\ UNCHANGED <<timers, statusVars, vehicleVars, reportedOk, calm>>

ReceiveVmsCommand(c) ==
  /\ status[c] = "error" /\ commandEnabled
  /\ status' = [status EXCEPT ![c] = "ready"]
  /\ UNCHANGED <<timers, statusVars, vehicleVars, reportedOk, calm>>

\* A board fails, or the heartbeat is missed for too long.
Fail(c) ==
  /\ status[c] = "ready"
  /\ status' = [status EXCEPT ![c] = "error"]
  /\ calm' = 0
  /\ UNCHANGED <<timers, statusVars, vehicleVars, reportedOk>>

PowerOff(c) ==
  /\ status[c] # "off"
  /\ status' = [status EXCEPT ![c] = "off"]
  /\ calm' = 0
  /\ UNCHANGED <<timers, statusVars, vehicleVars, reportedOk>>

\* An adopted controller is READY as soon as it has its power back.
PowerOn(c) ==
  /\ status[c] = "off"
  /\ status' = [status EXCEPT ![c] = "ready"]
  /\ calm' = 0
  /\ UNCHANGED <<timers, statusVars, vehicleVars, reportedOk>>

----------------------------------------------------------------------------

\* Every loop has run and every frame has been received on what there is now.
Settled ==
  /\ commandEnabled = resetting /\ heardResetting = commandEnabled
  /\ \A c \in Controllers :
       /\ reportedOk[c] = (status[c] = "ready") /\ heardOk[c] = reportedOk[c]
       /\ commandEnabled => status[c] # "error"
       /\ emitted = "FAILURE" => status[c] # "ready"
  /\ vmsStatus = IF IsOk THEN "OK" ELSE "FAILURE"
  /\ vmsHeard = vmsStatus
  /\ resetting \/ emitted = vmsHeard

\* Nothing is late.
InTime ==
  /\ \A holder \in Holders : stops[holder] # 0
  /\ ~(bootPending /\ clock = BootResetDelay)
  /\ ~(booting /\ clock = BootPeriod)

Countdown == [holder \in Holders |-> IF stops[holder] = NoTimer THEN NoTimer
                                     ELSE stops[holder] - 1]

\* Mutation: a stop may come late.
TickLate ==
  /\ Settled
  /\ clock' = IF clock < BootPeriod THEN clock + 1 ELSE clock
  /\ stops' = Countdown
  /\ calm' = IF resetting /\ calm < ResetDuration THEN calm + 1 ELSE calm
  /\ UNCHANGED <<bootPending, statusVars, vehicleVars, reportedOk, status>>

Tick ==
  /\ Settled /\ InTime
  /\ clock' = IF clock < BootPeriod THEN clock + 1 ELSE clock
  /\ stops' = Countdown
  /\ calm' = IF resetting /\ calm < ResetDuration THEN calm + 1 ELSE calm
  /\ UNCHANGED <<bootPending, statusVars, vehicleVars, reportedOk, status>>

Next ==
  \/ StartBootReset
  \/ \E caller \in Callers : StartCallerReset(caller)
  \/ \E holder \in Holders : StopResetMode(holder)
  \/ HearVmsStatus \/ StatusLoop
  \/ HearResetting \/ FinishBootPeriod \/ VehicleLoop
  \/ \E c \in Controllers :
       \/ HearController(c) \/ Report(c)
       \/ ReceiveVmsStatus(c) \/ ReceiveVmsCommand(c)
       \/ Fail(c) \/ PowerOff(c) \/ PowerOn(c)
  \/ Tick

Spec == Init /\ [][Next]_vars

\* Timers fire, loops run, and what is repeated is received in the end.  A
\* controller fails or loses its power only if it does.
FairSpec ==
  /\ Spec
  /\ WF_vars(StartBootReset) /\ WF_vars(FinishBootPeriod) /\ WF_vars(Tick)
  /\ \A holder \in Holders : WF_vars(StopResetMode(holder))
  /\ WF_vars(HearVmsStatus) /\ WF_vars(StatusLoop)
  /\ WF_vars(HearResetting) /\ WF_vars(VehicleLoop)
  /\ \A c \in Controllers :
       /\ WF_vars(HearController(c)) /\ WF_vars(Report(c))
       /\ WF_vars(ReceiveVmsStatus(c)) /\ WF_vars(ReceiveVmsCommand(c))

----------------------------------------------------------------------------
(* Properties.                                                             *)

\* "returning every controller to READY", "so the error clears once the new VMS
\* is up": once a reset has been held for its duration, at boot or for the
\* dashboard, and nothing has failed since it began, every controller is READY and
\* the vehicle OK, if all have their power, whatever FAILURE frames and stale
\* reports were on their way.
ResetRestores ==
  calm = ResetDuration =>
    \/ \E c \in Controllers : status[c] = "off"
    \/ vmsStatus = "OK" /\ \A c \in Controllers : status[c] = "ready"

\* A controller in error for good, with nobody resetting it, takes every other
\* controller down for good, however they fail or come back meanwhile.
FailureSpreads ==
  \A c \in Controllers :
    (<>[](status[c] = "error" /\ ~resetting) /\ <>[][\A d \in Controllers : ~PowerOn(d)]_vars)
      => <>[](\A d \in Controllers : status[d] # "ready")

Reset == resetting \/ commandEnabled \/ heardResetting

\* A FAILURE stands until a reset: a failing controller that comes back, by losing
\* and finding its power, does not make the heartbeat say OK again.
FailureStands ==
  [](vmsStatus = "FAILURE" /\ []~Reset => <>[](emitted = "FAILURE"))

\* "resets the generic controllers by holding reset mode for `@reset_duration_ms`":
\* while the dashboard's request sleeps, the mode is held.
ResetHeld == \A caller \in Callers : stops[caller] \in 1 .. ResetDuration => resetting
============================================================================
