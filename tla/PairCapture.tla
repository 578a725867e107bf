------------------------------ MODULE PairCapture ------------------------------
(***************************************************************************)
(* v4l2_capture's loop (main.rs, pairing.rs, v4l2.rs): two drivers fill    *)
(* buffers, the loop takes each filled one, converts it, gives it back and *)
(* pairs the frames of both sides.  Exposures are in lines.                *)
(*                                                                         *)
(* What a buffer holds is the start time of the frame last written to it.  *)
(***************************************************************************)
EXTENDS Integers, Sequences, SequencesExt, FiniteSets, FiniteSetsExt

CONSTANTS
  Buffers,         \* of each side
  MaxExposed,      \* bound: frames a sensor takes
  FramePeriod,
  Skews,           \* what the right frames may start late by
  PairTolerance,
  MaxLines,        \* the longest exposure of a sensor
  MaxCommands      \* bound: settings changed

VARIABLES
  \* the drivers
  exposed, queued, filled, content, skew,
  \* the loop
  at,            \* where it is
  hand,          \* the frame dequeued and not given back
  newest,        \* each side's newest unpaired frame, NoFrame for none
  pairs,         \* the pairs written
  \* the exposure
  settings, exposing, sensors, commands

pairVars == <<exposed, queued, filled, content, skew, at, hand, newest, pairs,
              settings, exposing, sensors, commands>>
driverVars == <<exposed, queued, filled, content, skew>>
exposureVars == <<settings, exposing, sensors, commands>>

Sides == {"left", "right"}
NoFrame == [start |-> -1, grey |-> -1]
Empty == [index |-> 0, start |-> -1]

\* Where the loop is with a frame of a side.
Converting == [left |-> "convert_left", right |-> "convert_right"]

Lines(exposure) == Max({1, Min({exposure, MaxLines})})

CaptureInit ==
  /\ exposed = [s \in Sides |-> 0] /\ queued = [s \in Sides |-> [i \in 1..Buffers |-> i]]
  /\ filled = [s \in Sides |-> <<>>] /\ content = [s \in Sides |-> [i \in 1..Buffers |-> -1]]
  /\ skew \in Skews
  /\ at = "poll" /\ hand = Empty /\ newest = [s \in Sides |-> NoFrame] /\ pairs = <<>>
  /\ settings = [auto |-> TRUE, exposure |-> 2, longest |-> MaxLines]
  /\ exposing = 2 /\ sensors = Lines(2) /\ commands = 0

-----------------------------------------------------------------------------

\* A sensor takes a frame into the buffer queued first, or drops it.
Expose(s) ==
  /\ exposed[s] < MaxExposed
  /\ exposed' = [exposed EXCEPT ![s] = @ + 1]
  /\ LET start == exposed'[s] * FramePeriod + (IF s = "right" THEN skew ELSE 0)
     IN  IF queued[s] = <<>> THEN UNCHANGED <<queued, filled, content>>
         ELSE /\ queued' = [queued EXCEPT ![s] = Tail(@)]
              /\ content' = [content EXCEPT ![s][Head(queued[s])] = start]
              /\ \E whole \in BOOLEAN :
                   filled' = [filled EXCEPT ![s] = Append(@, [index |-> Head(queued[s]), start |-> start,
                                                              whole |-> whole])]
  /\ UNCHANGED <<skew, at, hand, newest, pairs, exposureVars>>

\* The phase lock moves the right sensor.
Shift ==
  /\ \E other \in Skews \ {skew} : skew' = other
  /\ exposed["left"] = exposed["right"] /\ exposed["left"] = 1
  /\ UNCHANGED <<exposed, queued, filled, content, at, hand, newest, pairs, exposureVars>>

-----------------------------------------------------------------------------

\* The host's record, if there is one: a setting it takes, one it refuses,
\* or the end of the input.
Apply(change) ==
  /\ settings' = change
  /\ exposing' = IF change.auto THEN exposing ELSE Lines(change.exposure)
  /\ sensors' = IF change.auto THEN sensors ELSE Lines(change.exposure)

Poll ==
  /\ at = "poll"
  /\ \/ at' = "left" /\ UNCHANGED exposureVars
     \/ /\ commands < MaxCommands /\ commands' = commands + 1
        /\ at' = "left"
        /\ \E change \in {[settings EXCEPT !.auto = ~@], [settings EXCEPT !.exposure = MaxLines + 1],
                          [settings EXCEPT !.longest = 1]} : Apply(change)
     \/ at' = "stopped" /\ UNCHANGED exposureVars
  /\ UNCHANGED <<driverVars, hand, newest, pairs>>

\* The next frame of a side, given back unread when it is not whole.
Dequeue(s) ==
  /\ at = s
  /\ IF filled[s] = <<>>
       THEN /\ at' = IF s = "left" THEN "right" ELSE "poll"
            /\ UNCHANGED <<queued, filled, hand>>
       ELSE LET frame == Head(filled[s])
            IN  /\ filled' = [filled EXCEPT ![s] = Tail(@)]
                /\ IF frame.whole
                     THEN at' = Converting[s] /\ hand' = [index |-> frame.index, start |-> frame.start]
                          /\ UNCHANGED queued
                     ELSE queued' = [queued EXCEPT ![s] = Append(@, frame.index)] /\ UNCHANGED <<at, hand>>
  /\ UNCHANGED <<exposed, content, skew, newest, pairs, exposureVars>>

\* Auto exposure's next one, at most twice or half the last.
NextExposures ==
  LET most == Min({settings.longest, MaxLines + 1})
  IN  {exposing} \union {Max({1, Min({light, most})}) : light \in {2 * exposing, exposing \div 2}}

\* As Push, were only a left frame that is later held to the tolerance.
PushOneSided(s, frame) ==
  LET both == [newest EXCEPT ![s] = frame]
  IN  IF (\A side \in Sides : both[side] # NoFrame) /\ both["left"].start - both["right"].start <= PairTolerance
        THEN pairs' = Append(pairs, both) /\ newest' = [side \in Sides |-> NoFrame]
        ELSE newest' = both /\ UNCHANGED pairs

\* A side's newest frame pairs with the other's if they start together.
Push(s, frame) ==
  LET both == [newest EXCEPT ![s] = frame]
      apart == both["left"].start - both["right"].start
  IN  IF /\ \A side \in Sides : both[side] # NoFrame
         /\ apart \in -PairTolerance..PairTolerance
        THEN /\ pairs' = Append(pairs, both)
             /\ newest' = [side \in Sides |-> NoFrame]
        ELSE newest' = both /\ UNCHANGED pairs

\* A frame is converted and its buffer given back, then it is measured and
\* paired.
Convert(s) ==
  /\ at = Converting[s]
  /\ at' = s
  /\ queued' = [queued EXCEPT ![s] = Append(@, hand.index)]
  /\ Push(s, [start |-> hand.start, grey |-> content[s][hand.index]])
  /\ hand' = Empty
  /\ IF s = "left" /\ settings.auto
       THEN exposing' \in NextExposures /\ sensors' = Lines(exposing')
       ELSE UNCHANGED <<exposing, sensors>>
  /\ UNCHANGED <<exposed, filled, content, skew, settings, commands>>

\* A device or the output fails: the program ends.
Fail == at \notin {"poll", "stopped"} /\ at' = "stopped"
        /\ UNCHANGED <<driverVars, hand, newest, pairs, exposureVars>>

CaptureNext ==
  \/ \E s \in Sides : Expose(s) \/ Dequeue(s) \/ Convert(s)
  \/ Shift \/ Poll \/ Fail

-----------------------------------------------------------------------------

\* The frames of a pair started together and are the ones they are stamped
\* with, and no frame is in two pairs.
PairsAreTrue ==
  /\ \A i \in DOMAIN pairs :
       /\ pairs[i]["left"].start - pairs[i]["right"].start \in -PairTolerance..PairTolerance
       /\ \A s \in Sides : pairs[i][s].grey = pairs[i][s].start
  /\ \A i, j \in DOMAIN pairs : i < j => \A s \in Sides : pairs[i][s].start < pairs[j][s].start

\* Every buffer is with the driver, filled, or in the loop's hand.
BuffersKept ==
  at # "stopped" =>
    \A s \in Sides :
      Len(queued[s]) + Len(filled[s]) + (IF at = Converting[s] THEN 1 ELSE 0) = Buffers

\* Auto exposure goes on from what the sensors hold.
ExposureContinues == sensors = Lines(exposing)
=============================================================================
