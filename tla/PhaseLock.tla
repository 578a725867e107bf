------------------------------- MODULE PhaseLock -------------------------------
(***************************************************************************)
(* The lock of v4l2_capture (lock.rs): the right sensor's vertical         *)
(* blanking is stretched or shrunk for a frame until its frames start with *)
(* the left one's, around the sensors themselves, which apply a blanking   *)
(* one or two frames after it is set.  Times are in lines.                 *)
(***************************************************************************)
EXTENDS Integers, Sequences, SequencesExt, FiniteSets, FiniteSetsExt

CONSTANTS
  Period, NominalVblank, VblankMin, VblankMax,
  Deadband, LockedBelow, OutlierAbove, OutliersToRelock, HistoryLength,
  LateBy,    \* by how much a start time may be late
  MaxLate    \* bound: late start times

VARIABLES
  phase,      \* from a left frame's start to the right one's
  blanking,   \* the blankings set, from the one in force to the last
  settling, history, outliers,
  late

lockVars == <<phase, blanking, settling, history, outliers, late>>

LockAssumption == VblankMin < NominalVblank /\ NominalVblank < VblankMax

Size(v) == IF v < 0 THEN -v ELSE v

Wrap(offset) == LET wrapped == offset % Period
                IN  IF wrapped > Period \div 2 THEN wrapped - Period ELSE wrapped

\* Half the offset, rounded away from zero, the other way.
Correction(offset) == IF offset > 0 THEN -((offset + 1) \div 2) ELSE (1 - offset) \div 2

Clamped(vblank) == Max({VblankMin, Min({vblank, VblankMax})})

\* The median recent offset is small.
Locked ==
  /\ Len(history) = HistoryLength
  /\ SortSeq(history, LAMBDA a, b : a < b)[(HistoryLength \div 2) + 1] < LockedBelow

LockInit ==
  /\ phase \in {Wrap(p) : p \in 0..(Period - 1)}
  /\ blanking \in {[i \in 1..frames |-> NominalVblank] : frames \in 2..3}
  /\ settling = FALSE /\ history = <<>> /\ outliers = 0
  /\ late = 0

Remembered(offset) ==
  Append(IF Len(history) = HistoryLength THEN Tail(history) ELSE history, Size(offset))

\* As Observe, were the nominal blanking not restored after a correction.
ObserveWithoutRestoring(offset, vblank) ==
  /\ UNCHANGED outliers
  /\ IF settling THEN settling' = FALSE /\ vblank = Last(blanking) /\ UNCHANGED history
     ELSE /\ history' = Remembered(offset) /\ settling' = (Size(offset) > Deadband)
          /\ vblank = IF settling' THEN Clamped(NominalVblank + Correction(offset)) ELSE Last(blanking)

\* A right frame is observed: the blanking to set, if it has to change.  A
\* correction lasts a frame; the observation after it restores the nominal.
Observe(offset, vblank) ==
  IF settling
    THEN /\ settling' = FALSE /\ vblank = NominalVblank
         /\ UNCHANGED <<history, outliers>>
    ELSE IF Locked /\ Size(offset) > OutlierAbove /\ outliers + 1 < OutliersToRelock
    THEN /\ outliers' = outliers + 1 /\ vblank = Last(blanking)
         /\ UNCHANGED <<settling, history>>
    ELSE /\ outliers' = 0 /\ history' = Remembered(offset)
         /\ IF Size(offset) <= Deadband
              THEN vblank = Last(blanking) /\ UNCHANGED settling
              ELSE vblank = Clamped(NominalVblank + Correction(offset)) /\ settling' = TRUE

\* The frame in progress is as long as the blanking in force makes it.
Frame ==
  /\ \E delay \in IF late < MaxLate THEN {0, LateBy, -LateBy} ELSE {0} :
       \E vblank \in VblankMin..VblankMax :
         /\ Observe(Wrap(phase + delay), vblank)
         /\ blanking' = Append(Tail(blanking), vblank)
         /\ late' = late + (IF delay = 0 THEN 0 ELSE 1)
  /\ phase' = Wrap(phase + Head(blanking) - NominalVblank)

-----------------------------------------------------------------------------

\* The frames of both sensors come to start together and stay so.
PhaseLocks == <>[](Size(phase) <= Deadband)
=============================================================================
