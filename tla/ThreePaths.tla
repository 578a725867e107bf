------------------------------ MODULE ThreePaths ------------------------------
(***************************************************************************)
(* Matcher::three_paths of vision/rust/stereo_match (lib.rs): one pass     *)
(* down the image in which each thread, in turn, follows the vertical path *)
(* down column chunks over the rows that are ready, and computes the costs *)
(* and horizontal paths of another row into a ring of rows.  A row may go  *)
(* into the ring once every chunk is done with the row it replaces.        *)
(***************************************************************************)
EXTENDS Chunks

CONSTANT RingRows      \* rows the ring holds, at least one

VARIABLES
  nextRow,       \* the next row to compute
  produced,      \* row + 1 of the row published in each ring slot
  ring,          \* the row whose costs each slot holds
  states,        \* the row whose path states each chunk holds, by parity
  visits         \* how often each chunk selected its pixels of each row

ringVars == <<progress, claimed, pc, offset, row, first, progressed,
              nextRow, produced, ring, states, visits>>

Slot == 0..(RingRows - 1)
NoRow == -1
SlotOf(r) == r % RingRows

\* The rows of the ring, of `capacity` bytes for two bytes a cost.
RingRowsOf(capacity, width, disparities, height) ==
  Max({2, Min({height, capacity \div (2 * width * disparities)})})

RingInit ==
  /\ ChunksInit
  /\ nextRow = 0
  /\ produced = [s \in Slot |-> 0]
  /\ ring = [s \in Slot |-> NoRow]
  /\ states = [c \in Chunk |-> [parity \in 0..1 |-> NoRow]]
  /\ visits = [c \in Chunk |-> [r \in Row |-> 0]]

\* The row is in its slot once the slot holds row + 1.
RowReady(r) == r < Height /\ produced[SlotOf(r)] = r + 1

LookAt(t) ==
  /\ pc[t] = "look"
  /\ IF RowReady(progress[At(t)]) THEN Goto(t, "claim") /\ UNCHANGED offset ELSE NextChunk(t)
  /\ UNCHANGED <<progress, claimed, row, first, progressed, nextRow, produced, ring, states, visits>>

ClaimChunk(t) == TryClaim(t) /\ UNCHANGED <<nextRow, produced, ring, states, visits>>

Follow(t) ==
  /\ pc[t] = "held"
  /\ Goto(t, IF RowReady(row[t]) /\ row[t] - first[t] < RowsPerClaim THEN "row" ELSE "publish")
  /\ UNCHANGED <<progress, claimed, offset, row, first, progressed,
                 nextRow, produced, ring, states, visits>>

\* vertical_row ends.  The rows done are published only with the last of them.
EndVerticalRow(t) ==
  /\ pc[t] = "row"
  /\ states' = [states EXCEPT ![At(t)][row[t] % 2] = row[t]]
  /\ visits' = [visits EXCEPT ![At(t)][row[t]] = @ + 1]
  /\ row' = [row EXCEPT ![t] = @ + 1]
  /\ Goto(t, "held")
  /\ UNCHANGED <<progress, claimed, offset, first, progressed, nextRow, produced, ring>>

PublishRows(t) ==
  /\ pc[t] = "publish"
  /\ progress' = [progress EXCEPT ![At(t)] = row[t]]
  /\ Goto(t, "release")
  /\ UNCHANGED <<claimed, offset, row, first, progressed, nextRow, produced, ring, states, visits>>

ReleaseChunk(t) == Release(t) /\ UNCHANGED <<nextRow, produced, ring, states, visits>>

\* As WantRow, were a row computed while the one it replaces is read.
WantRowEarly(t) ==
  /\ pc[t] = "round"
  /\ row' = [row EXCEPT ![t] = nextRow]
  /\ Goto(t, IF nextRow < Height /\ nextRow <= MinProgress + RingRows THEN "take" ELSE "end")
  /\ UNCHANGED <<progress, claimed, offset, first, progressed,
                 nextRow, produced, ring, states, visits>>

\* After the chunks, the next row, if its slot is free.  The progress of the
\* chunks is read after `next_row` and may be stale when the row is taken.
WantRow(t) ==
  /\ pc[t] = "round"
  /\ row' = [row EXCEPT ![t] = nextRow]
  /\ Goto(t, IF nextRow < Height /\ nextRow < MinProgress + RingRows THEN "take" ELSE "end")
  /\ UNCHANGED <<progress, claimed, offset, first, progressed,
                 nextRow, produced, ring, states, visits>>

TakeRow(t) ==
  /\ pc[t] = "take"
  /\ IF nextRow = row[t]
       THEN nextRow' = nextRow + 1 /\ Goto(t, "fill")
       ELSE Goto(t, "end") /\ UNCHANGED nextRow
  /\ UNCHANGED <<progress, claimed, offset, row, first, progressed, produced, ring, states, visits>>

\* costs_and_paths has written the slot: the row is published.
FillRow(t) ==
  /\ pc[t] = "fill"
  /\ ring' = [ring EXCEPT ![SlotOf(row[t])] = row[t]]
  /\ produced' = [produced EXCEPT ![SlotOf(row[t])] = row[t] + 1]
  /\ progressed' = [progressed EXCEPT ![t] = TRUE]
  /\ Goto(t, "end")
  /\ UNCHANGED <<progress, claimed, offset, row, first, nextRow, states, visits>>

EndPass(t) == EndRound(t, "end") /\ UNCHANGED <<nextRow, produced, ring, states, visits>>

RingStep(t) ==
  \/ LookAt(t) \/ ClaimChunk(t) \/ Follow(t) \/ EndVerticalRow(t) \/ PublishRows(t)
  \/ ReleaseChunk(t) \/ WantRow(t) \/ TakeRow(t) \/ FillRow(t) \/ EndPass(t)

RingReturned == AllDone /\ UNCHANGED ringVars

RingNext == (\E t \in Thread : RingStep(t)) \/ RingReturned

RingSpec == RingInit /\ [][RingNext]_ringVars /\ \A t \in Thread : WF_ringVars(RingStep(t))

-----------------------------------------------------------------------------
(* Properties                                                              *)

Following(t) == pc[t] = "row"
Filling(t) == pc[t] = "fill"

\* A thread in a row reads the ring's row it is at and its own chunk's
\* states of the row before; nobody writes them meanwhile, and no two
\* threads write one slot or one chunk.
RingDisjoint ==
  \A t \in Thread :
    /\ Following(t) =>
         /\ ring[SlotOf(row[t])] = row[t]
         /\ states[At(t)][1 - (row[t] % 2)] = row[t] - 1
         /\ \A u \in Thread \ {t} :
              /\ Filling(u) => SlotOf(row[u]) # SlotOf(row[t])
              /\ Following(u) => At(u) # At(t)
    /\ Filling(t) => \A u \in Thread \ {t} : Filling(u) => SlotOf(row[u]) # SlotOf(row[t])

\* Each pixel is selected once, and all are when the pass returns.
RingVisitsOnce ==
  /\ \A c \in Chunk, r \in Row : visits[c][r] <= 1
  /\ AllDone => \A c \in Chunk, r \in Row : visits[c][r] = 1

RingReturns == <>AllDone
=============================================================================
