-------------------------- MODULE VmsHealthProofs --------------------------
(***************************************************************************)
(* A reset that lasts restores the vehicle: for any controllers, any       *)
(* number of overlapping requests and any durations.                       *)
(***************************************************************************)
EXTENDS VmsHealth, TLAPS

LEMMA NoTimerType == NoTimer \in Nat /\ ResetDuration \in Nat /\ ResetDuration < NoTimer
                     /\ ResetDuration # 0
BY DurationsAssumption DEF NoTimer

\* Time, the only step of more than one timer.
LEMMA TickType ==
  ASSUME TypeOK, Tick
  PROVE  clock' \in 0 .. BootPeriod /\ stops' \in [Holders -> 0 .. NoTimer]
         /\ calm' \in 0 .. ResetDuration
<1>1. clock' \in 0 .. BootPeriod
  BY DurationsAssumption DEF TypeOK, Tick
<1>2. calm' \in 0 .. ResetDuration
  BY DurationsAssumption DEF TypeOK, Tick
<1>3. stops' \in [Holders -> 0 .. NoTimer]
  <2>1. ASSUME NEW holder \in Holders
        PROVE  (IF stops[holder] = NoTimer THEN NoTimer ELSE stops[holder] - 1) \in 0 .. NoTimer
    <3>1. stops[holder] \in 0 .. NoTimer /\ stops[holder] # 0
      BY DEF TypeOK, Tick, InTime
    <3>2. QED
      BY <3>1, NoTimerType
  <2>2. stops' = Countdown
    BY DEF Tick
  <2>3. QED
    BY <2>1, <2>2 DEF Countdown
<1>4. QED
  BY <1>1, <1>2, <1>3

LEMMA StartType ==
  ASSUME TypeOK, NEW holder \in Holders, StartResetMode(holder), bootPending' \in BOOLEAN
  PROVE  TypeOK'
<1>1. stops' \in [Holders -> 0 .. NoTimer]
  BY NoTimerType DEF TypeOK, StartResetMode
<1>2. calm' \in 0 .. ResetDuration
  BY NoTimerType DEF TypeOK, StartResetMode
<1>3. QED
  BY <1>1, <1>2 DEF TypeOK, StartResetMode, vehicleVars

\* Every variable of the vehicle, its controllers and its clock keeps its type, for
\* all durations.
THEOREM TypeCorrect == Spec => []TypeOK
<1>1. Init => TypeOK
  <2> SUFFICES ASSUME Init PROVE TypeOK
    OBVIOUS
  <2>1. clock \in 0 .. BootPeriod /\ calm \in 0 .. ResetDuration
    BY DurationsAssumption DEF Init
  <2>2. stops \in [Holders -> 0 .. NoTimer]
    <3>1. NoTimer \in 0 .. NoTimer
      BY NoTimerType
    <3>2. QED
      BY <3>1 DEF Init
  <2>3. status \in [Controllers -> {"ready", "error", "off"}]
    BY DEF Init
  <2>4. heardOk \in [Controllers -> BOOLEAN] /\ reportedOk \in [Controllers -> BOOLEAN]
    BY DEF Init
  <2>5. QED
    BY <2>1, <2>2, <2>3, <2>4 DEF Init, TypeOK
<1>2. TypeOK /\ [Next]_vars => TypeOK'
  <2> SUFFICES ASSUME TypeOK, [Next]_vars PROVE TypeOK'
    OBVIOUS
  <2>1. CASE StartBootReset
    BY <2>1, StartType DEF StartBootReset, Holders
  <2>2. ASSUME NEW caller \in Callers, StartCallerReset(caller) PROVE TypeOK'
    <3>1. caller \in Holders /\ bootPending' \in BOOLEAN
      BY <2>2 DEF StartCallerReset, Holders, TypeOK
    <3>2. QED
      BY <2>2, <3>1, StartType DEF StartCallerReset
  <2>3. ASSUME NEW holder \in Holders, StopResetMode(holder) PROVE TypeOK'
    <3>1. stops' \in [Holders -> 0 .. NoTimer]
      BY <2>3, NoTimerType DEF TypeOK, StopResetMode
    <3>2. calm' \in 0 .. ResetDuration
      BY <2>3, NoTimerType DEF TypeOK, StopResetMode
    <3>3. QED
      BY <2>3, <3>1, <3>2 DEF TypeOK, StopResetMode, vehicleVars
  <2>4. CASE HearVmsStatus
    BY <2>4 DEF TypeOK, HearVmsStatus, timers, vehicleVars
  <2>5. CASE StatusLoop
    <3>1. emitted' \in {"OK", "RESETTING", "FAILURE"}
      BY <2>5 DEF TypeOK, StatusLoop
    <3>2. commandEnabled' \in BOOLEAN
      BY <2>5 DEF TypeOK, StatusLoop
    <3>3. QED
      BY <2>5, <3>1, <3>2 DEF TypeOK, StatusLoop, timers, vehicleVars
  <2>6. CASE HearResetting
    BY <2>6 DEF TypeOK, HearResetting, timers, statusVars
  <2>7. CASE FinishBootPeriod
    BY <2>7 DEF TypeOK, FinishBootPeriod, timers, statusVars
  <2>8. CASE VehicleLoop
    BY <2>8 DEF TypeOK, VehicleLoop, timers, statusVars
  <2>9. ASSUME NEW c \in Controllers, HearController(c) \/ Report(c) PROVE TypeOK'
    <3>1. heardOk' \in [Controllers -> BOOLEAN] /\ reportedOk' \in [Controllers -> BOOLEAN]
      BY <2>9 DEF TypeOK, HearController, Report, vehicleVars
    <3>2. QED
      BY <2>9, <3>1 DEF TypeOK, HearController, Report, timers, statusVars, vehicleVars
  <2>10. ASSUME NEW c \in Controllers,
                \/ ReceiveVmsStatus(c) \/ ReceiveVmsCommand(c)
                \/ Fail(c) \/ PowerOff(c) \/ PowerOn(c)
         PROVE  TypeOK'
    <3>1. /\ status' \in [Controllers -> {"ready", "error", "off"}]
          /\ calm' \in 0 .. ResetDuration
      BY <2>10, NoTimerType
      DEF TypeOK, ReceiveVmsStatus, ReceiveVmsCommand, Fail, PowerOff, PowerOn
    <3>2. UNCHANGED <<timers, statusVars, vehicleVars, reportedOk>>
      BY <2>10 DEF ReceiveVmsStatus, ReceiveVmsCommand, Fail, PowerOff, PowerOn
    <3>3. QED
      BY <3>1, <3>2 DEF TypeOK, timers, statusVars, vehicleVars
  <2>11. CASE Tick
    <3>1. UNCHANGED <<bootPending, statusVars, vehicleVars, reportedOk, status>>
      BY <2>11 DEF Tick
    <3>2. QED
      BY <2>11, <3>1, TickType DEF TypeOK, statusVars, vehicleVars
  <2>12. CASE UNCHANGED vars
    BY <2>12 DEF TypeOK, vars, timers, statusVars, vehicleVars
  <2>13. QED
    BY <2>1, <2>2, <2>3, <2>4, <2>5, <2>6, <2>7, <2>8, <2>9, <2>10, <2>11, <2>12 DEF Next
<1>3. QED
  BY <1>1, <1>2, PTL DEF Spec

----------------------------------------------------------------------------

\* What a long reset leaves behind it.  Every stage between a controller and the
\* frame that tells it of a failure has to be clean, or the next loop would undo it.
Clean ==
  /\ vmsStatus = "OK" /\ vmsHeard = "OK"
  /\ \A c \in Controllers :
       /\ status[c] = "ready" /\ reportedOk[c] /\ heardOk[c]
       /\ emitted # "FAILURE"

Recovered == calm = ResetDuration => Clean \/ \E c \in Controllers : status[c] = "off"

\* The tick that completes a reset completes a settled one.
LEMMA TickRecovers ==
  ASSUME TypeOK, Recovered, Tick
  PROVE  Recovered'
<1>1. UNCHANGED <<statusVars, vehicleVars, reportedOk, status>>
  BY DEF Tick
<1>2. CASE calm' = calm
  BY <1>1, <1>2 DEF Recovered, Clean, statusVars, vehicleVars
<1>3. CASE calm' # calm
  <2>1. resetting /\ Settled
    BY <1>3 DEF Tick
  <2>2. commandEnabled /\ heardResetting
    BY <2>1 DEF Settled, TypeOK
  <2>3. vmsStatus = "OK" /\ vmsHeard = "OK"
    BY <2>1, <2>2 DEF Settled, IsOk
  <2>4. ASSUME \A c \in Controllers : status[c] # "off", NEW c \in Controllers
        PROVE  status[c] = "ready" /\ reportedOk[c] /\ heardOk[c] /\ emitted # "FAILURE"
    <3>1. status[c] \in {"ready", "error", "off"} /\ status[c] # "off"
      BY <2>4 DEF TypeOK
    <3>2. status[c] = "ready"
      BY <3>1, <2>1, <2>2 DEF Settled
    <3>3. reportedOk[c] \in BOOLEAN /\ heardOk[c] \in BOOLEAN
      BY DEF TypeOK
    <3>4. reportedOk[c] /\ heardOk[c]
      BY <3>2, <3>3, <2>1 DEF Settled
    <3>5. emitted # "FAILURE"
      BY <3>2, <2>1 DEF Settled
    <3>6. QED
      BY <3>2, <3>4, <3>5
  <2>5. Clean \/ \E c \in Controllers : status[c] = "off"
    BY <2>3, <2>4 DEF Clean
  <2>6. QED
    BY <1>1, <2>5 DEF Recovered, Clean, statusVars, vehicleVars
<1>4. QED
  BY <1>2, <1>3

LEMMA CleanStays ==
  ASSUME TypeOK, Clean,
         \/ HearVmsStatus \/ StatusLoop \/ HearResetting \/ FinishBootPeriod \/ VehicleLoop
         \/ \E c \in Controllers :
              \/ HearController(c) \/ Report(c)
              \/ ReceiveVmsStatus(c) \/ ReceiveVmsCommand(c)
  PROVE  Clean'
<1>1. CASE HearVmsStatus
  BY <1>1 DEF Clean, HearVmsStatus, timers, vehicleVars
<1>2. CASE StatusLoop
  BY <1>2 DEF Clean, StatusLoop, timers, vehicleVars
<1>3. CASE HearResetting \/ FinishBootPeriod
  BY <1>3 DEF Clean, HearResetting, FinishBootPeriod, timers, statusVars
<1>4. CASE VehicleLoop
  <2>1. IsOk
    BY DEF Clean, IsOk
  <2>2. QED
    BY <1>4, <2>1 DEF Clean, VehicleLoop, timers, statusVars
<1>5. ASSUME NEW c \in Controllers, HearController(c) \/ Report(c) PROVE Clean'
  <2>1. UNCHANGED <<vmsStatus, vmsHeard, emitted, status>>
    BY <1>5 DEF HearController, Report, statusVars, vehicleVars
  <2>2. ASSUME NEW d \in Controllers PROVE reportedOk'[d] /\ heardOk'[d]
    BY <1>5 DEF Clean, TypeOK, HearController, Report, vehicleVars
  <2>3. QED
    BY <2>1, <2>2 DEF Clean
<1>6. ASSUME NEW c \in Controllers, ReceiveVmsStatus(c) \/ ReceiveVmsCommand(c)
      PROVE  Clean'
  BY <1>6 DEF Clean, ReceiveVmsStatus, ReceiveVmsCommand
<1>7. QED
  BY <1>1, <1>2, <1>3, <1>4, <1>5, <1>6

\* "returning every controller to READY": a reset held for its duration with nothing
\* failing leaves every controller READY and the vehicle OK.
THEOREM ResetIsEnough == Spec => []ResetRestores
<1>1. Init => Recovered
  BY NoTimerType DEF Init, Recovered
<1>2. TypeOK /\ Recovered /\ [Next]_vars => Recovered'
  <2> SUFFICES ASSUME TypeOK, Recovered, [Next]_vars PROVE Recovered'
    OBVIOUS
  <2>1. ASSUME NEW holder \in Holders, StartResetMode(holder) \/ StopResetMode(holder)
        PROVE  Recovered'
    <3>1. calm' = calm \/ calm' = 0
      BY <2>1 DEF StartResetMode, StopResetMode
    <3>2. UNCHANGED <<vmsStatus, vmsHeard, emitted, heardOk, reportedOk, status>>
      BY <2>1 DEF StartResetMode, StopResetMode, vehicleVars
    <3>3. QED
      BY <3>1, <3>2, NoTimerType DEF Recovered, Clean
  <2>2. ASSUME \/ HearVmsStatus \/ StatusLoop \/ HearResetting \/ FinishBootPeriod
               \/ VehicleLoop
               \/ \E c \in Controllers :
                    \/ HearController(c) \/ Report(c)
                    \/ ReceiveVmsStatus(c) \/ ReceiveVmsCommand(c)
        PROVE  Recovered'
    <3>1. calm' = calm
      BY <2>2 DEF HearVmsStatus, StatusLoop, HearResetting, FinishBootPeriod, VehicleLoop,
                  HearController, Report, ReceiveVmsStatus, ReceiveVmsCommand
    <3>2. \A c \in Controllers : status[c] = "off" => status'[c] = "off"
      BY <2>2 DEF TypeOK, HearVmsStatus, StatusLoop, HearResetting, FinishBootPeriod,
                  VehicleLoop, HearController, Report, ReceiveVmsStatus, ReceiveVmsCommand
    <3>3. Clean => Clean'
      BY <2>2, CleanStays
    <3>4. QED
      BY <3>1, <3>2, <3>3 DEF Recovered
  <2>3. ASSUME NEW c \in Controllers, Fail(c) \/ PowerOff(c) \/ PowerOn(c) PROVE Recovered'
    BY <2>3, NoTimerType DEF Fail, PowerOff, PowerOn, Recovered
  <2>4. CASE Tick
    BY <2>4, TickRecovers
  <2>5. CASE UNCHANGED vars
    BY <2>5 DEF vars, statusVars, vehicleVars, Recovered, Clean
  <2>6. QED
    BY <2>1, <2>2, <2>3, <2>4, <2>5
    DEF Next, StartBootReset, StartCallerReset, Holders
<1>3. Recovered => ResetRestores
  BY DEF Recovered, Clean, ResetRestores
<1>4. QED
  BY <1>1, <1>2, <1>3, TypeCorrect, PTL DEF Spec
============================================================================
