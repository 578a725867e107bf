---------------------------- MODULE RotationFusion ----------------------------
(***************************************************************************)
(* One shaft's rotation from the sensors that measure it                   *)
(* (ovcs/rotation_fusion.ex), of which the first one alive speaks and the  *)
(* others check it.  Readings are in the output shaft's unit; the gap that *)
(* is published and the log are left out.                                  *)
(***************************************************************************)
EXTENDS Integers, Sequences, SequencesExt, FiniteSetsExt

CONSTANTS
  Sources,        \* in priority order
  Signed,         \* those whose readings have a sign
  Noise,          \* of each: what it may read at rest
  Readings,       \* of each: the numbers it may read
  DirectionSource,  \* whether an actuator tells the direction of the unsigned ones
  CheckFrom, Tolerance,  \* the rotation from which they are compared, in tenths
  StaleAfter, Hold  \* ticks of its freshness check

VARIABLES
  readings, receivedAgo,  \* of the live sources
  sign, mismatchFor, fault,
  out, healthy,   \* published: the rotation with its source, and the health
  outAgo,         \* ticks since the sample it was made from
  apart,          \* ticks through which the live sources have been apart
  checked, quiet

fusionVars == <<readings, receivedAgo, sign, mismatchFor, fault, out, healthy, outAgo, apart, checked, quiet>>

None == -1000   \* nil: no reading, rotation or time
Names == Range(Sources)
Nothing == [of |-> "none", rotation |-> None]

FusionInit ==
  /\ readings = [s \in Names |-> None] /\ receivedAgo = [s \in Names |-> 0]
  /\ sign = 1 /\ mismatchFor = None /\ fault = FALSE
  /\ out = Nothing /\ healthy = FALSE
  /\ outAgo = 0 /\ apart = 0 /\ checked = FALSE /\ quiet = FALSE

-----------------------------------------------------------------------------

Alive(r) == {s \in Names : r[s] # None}
ActiveOf(r) == LET live == {i \in DOMAIN Sources : r[Sources[i]] # None}
               IN  IF live = {} THEN "none" ELSE Sources[Min(live)]

Magnitude(x) == IF x < 0 THEN -x ELSE x
Apart(r) ==
  LET m == [s \in Alive(r) |-> Magnitude(r[s])]
      Gap(s, t) == 10 * Magnitude(m[s] - m[t]) > Tolerance * Max({m[s], m[t]})
  IN  /\ \E s \in Alive(r) : m[s] >= CheckFrom
      /\ \E s \in Alive(r) \ {ActiveOf(r)} : Gap(s, ActiveOf(r))

Expired(r, ago) == [s \in Names |-> IF ago[s] <= StaleAfter THEN r[s] ELSE None]

\* The mismatch of readings r, and whether it has lasted.
CrossCheck(r) ==
  /\ mismatchFor' = IF ~Apart(r) THEN None ELSE IF mismatchFor = None THEN 0 ELSE mismatchFor
  /\ fault' = (Apart(r) /\ mismatchFor' >= Hold)
  /\ apart' = IF Apart(r) THEN apart ELSE 0

PublishHealth(r) ==
  /\ CrossCheck(r)
  /\ healthy' = (r[Head(Sources)] # None /\ ~fault')

SignOf(x) == IF x > 0 THEN 1 ELSE IF x < 0 THEN -1 ELSE sign
TrackSign(s, v) ==
  sign' = IF ~DirectionSource /\ s \in Signed /\ v # None /\ Magnitude(v) > Noise[s] THEN SignOf(v) ELSE sign

AtRest(r) == \A s \in Alive(r) : Magnitude(r[s]) <= Noise[s]
Rotation(r) ==
  LET s == ActiveOf(r) IN IF AtRest(r) THEN 0 ELSE IF s \in Signed THEN r[s] ELSE sign' * Magnitude(r[s])

\* A reading, or nil, from a source.  Of another one than the active one it
\* may still change which one that is.
Read(s, v) ==
  /\ ~quiet
  /\ LET kept == Expired(readings, receivedAgo) IN
       /\ readings' = [kept EXCEPT ![s] = v]
       /\ receivedAgo' = [receivedAgo EXCEPT ![s] = 0]
       /\ TrackSign(s, v)
       /\ IF ActiveOf(readings') = s THEN out' = [of |-> s, rotation |-> Rotation(readings')] /\ outAgo' = 0
          ELSE IF ActiveOf(readings') # ActiveOf(readings) THEN out' = Nothing /\ outAgo' = 0
          ELSE UNCHANGED <<out, outAgo>>
       /\ PublishHealth(readings')
  /\ UNCHANGED <<checked, quiet>>

CheckFreshness ==
  /\ ~checked /\ checked' = TRUE
  /\ readings' = Expired(readings, receivedAgo)
  /\ IF ActiveOf(readings') # ActiveOf(readings) THEN out' = Nothing /\ outAgo' = 0 ELSE UNCHANGED <<out, outAgo>>
  /\ PublishHealth(readings')
  /\ UNCHANGED <<receivedAgo, sign, quiet>>

Throttle(t) ==
  /\ DirectionSource
  /\ sign' = SignOf(t) /\ sign' # sign
  /\ UNCHANGED <<readings, receivedAgo, mismatchFor, fault, out, healthy, outAgo, apart, checked, quiet>>

Tick ==
  /\ checked /\ checked' = FALSE
  /\ receivedAgo' = [s \in Names |-> IF readings[s] = None THEN 0 ELSE Min({receivedAgo[s] + 1, StaleAfter + 1})]
  /\ mismatchFor' = IF mismatchFor = None THEN None ELSE Min({mismatchFor + 1, Hold})
  /\ outAgo' = IF out = Nothing THEN 0 ELSE Min({outAgo + 1, StaleAfter + 2})
  /\ apart' = IF Apart(readings) THEN Min({apart + 1, Hold + 1}) ELSE 0
  /\ UNCHANGED <<readings, sign, fault, out, healthy, quiet>>

FallSilent ==
  /\ ~quiet /\ quiet' = TRUE
  /\ UNCHANGED <<readings, receivedAgo, sign, mismatchFor, fault, out, healthy, outAgo, apart, checked>>

FusionNext ==
  \/ \E s \in Names : \E v \in Readings[s] \cup {None} : Read(s, v)
  \/ \E t \in -1..1 : Throttle(t)
  \/ CheckFreshness \/ Tick \/ FallSilent

-----------------------------------------------------------------------------
(* Properties                                                              *)

\* The rotation consumers hold is from the source that speaks now, and from
\* a sample no older than a source may be silent; and it is called healthy
\* only while the first source is alive and the others have not been apart
\* from it for as long as they may, and unhealthy once they have.
RotationIsTrue ==
  /\ out # Nothing => out.of = ActiveOf(readings) /\ outAgo <= StaleAfter + 1
  /\ healthy => readings[Head(Sources)] # None
  /\ fault => apart >= Hold /\ ~healthy
  /\ apart > Hold => fault

\* With its sources silent there is no rotation, and no health.
RotationSettled == quiet => out = Nothing /\ ~healthy /\ ~fault
=============================================================================
