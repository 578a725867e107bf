-------------------------------- MODULE Sweep --------------------------------
(***************************************************************************)
(* Sweep::run of vision/rust/stereo_match (paths.rs): the vertical and     *)
(* diagonal paths followed over the image by all threads, a column chunk   *)
(* and a row at a time.  A diagonal path at a chunk's edge continues the   *)
(* one of the chunk beside it, so a chunk does a row once the chunks       *)
(* beside it have done the row before.  `row` counts from the side the     *)
(* sweep starts at, which is the bottom of the image in the upward one.    *)
(*                                                                         *)
(* A chunk's path states are kept by the row they belong to, in the two    *)
(* parities the code alternates between; NoRow are the reset states.       *)
(***************************************************************************)
EXTENDS Chunks

VARIABLES
  states,        \* the row whose path states each chunk holds, by parity
  visits         \* how often `finish` was called for each chunk and row

sweepVars == <<progress, claimed, pc, offset, row, first, progressed, states, visits>>

NoRow == -1

SweepInit ==
  /\ ChunksInit
  /\ states = [c \in Chunk |-> [parity \in 0..1 |-> NoRow]]
  /\ visits = [c \in Chunk |-> [r \in Row |-> 0]]

Beside(c) == {c - 1, c + 1} \intersect Chunk

\* The offsets of the paths cross columns: both chunks beside must be ahead.
Ready(c, r) == r < Height /\ \A b \in Beside(c) : progress[b] >= r

Look(t) ==
  /\ pc[t] = "look"
  /\ IF Ready(At(t), progress[At(t)])
       THEN Goto(t, "claim") /\ UNCHANGED offset
       ELSE NextChunk(t)
  /\ UNCHANGED <<progress, claimed, row, first, progressed, states, visits>>

Claim(t) == TryClaim(t) /\ UNCHANGED <<states, visits>>

\* The thread goes on down the chunk it holds while it may, or releases it.
GoOn(t) ==
  /\ pc[t] = "held"
  /\ Goto(t, IF Ready(At(t), row[t]) /\ row[t] - first[t] < RowsPerClaim THEN "row" ELSE "release")
  /\ UNCHANGED <<progress, claimed, offset, row, first, progressed, states, visits>>

\* sweep_row ends: the chunk's states and pixels of the row are written, and
\* then its progress is.  From GoOn to here the states are being accessed.
EndRow(t) ==
  /\ pc[t] = "row"
  /\ states' = [states EXCEPT ![At(t)][row[t] % 2] = row[t]]
  /\ visits' = [visits EXCEPT ![At(t)][row[t]] = @ + 1]
  /\ row' = [row EXCEPT ![t] = @ + 1]
  /\ progress' = [progress EXCEPT ![At(t)] = row[t] + 1]
  /\ Goto(t, "held")
  /\ UNCHANGED <<claimed, offset, first, progressed>>

LetGo(t) == Release(t) /\ UNCHANGED <<states, visits>>

Round(t) == EndRound(t, "round") /\ UNCHANGED <<states, visits>>

SweepStep(t) == Look(t) \/ Claim(t) \/ GoOn(t) \/ EndRow(t) \/ LetGo(t) \/ Round(t)

\* on_threads returns once every thread has left its loop.
SweepReturned == AllDone /\ UNCHANGED sweepVars

SweepNext == (\E t \in Thread : SweepStep(t)) \/ SweepReturned

SweepSpec == SweepInit /\ [][SweepNext]_sweepVars /\ \A t \in Thread : WF_sweepVars(SweepStep(t))

-----------------------------------------------------------------------------
(* Properties                                                              *)

InRow(t) == pc[t] = "row"

\* The states a thread in a row reads: of the row before, its own chunk's
\* and those beside it.  It writes its own chunk's of the other parity.
Reads(t) == {<<c, 1 - (row[t] % 2)>> : c \in {At(t)} \union Beside(At(t))}
Writes(t) == {<<At(t), row[t] % 2>>}

\* What a thread accesses in a row no other thread writes meanwhile, and
\* the states it continues are those of the row before.
SweepDisjoint ==
  \A t \in Thread : InRow(t) =>
    /\ \A s \in Reads(t) : states[s[1]][s[2]] = row[t] - 1
    /\ \A u \in Thread \ {t} : InRow(u) => Writes(u) \intersect (Reads(t) \union Writes(t)) = {}

\* Each pixel's costs are handed to `finish` once: when the sweep returns
\* no pixel was left out and at no time is one visited twice.
SweepVisitsOnce ==
  /\ \A c \in Chunk, r \in Row : visits[c][r] <= 1
  /\ AllDone => \A c \in Chunk, r \in Row : visits[c][r] = 1

SweepReturns == <>AllDone
=============================================================================
