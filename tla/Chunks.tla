------------------------------- MODULE Chunks -------------------------------
(***************************************************************************)
(* Column chunks the threads of a stereo_match job follow down the image   *)
(* (parallel.rs): each is claimed by one thread at a time and publishes    *)
(* the number of rows done in it.  Acquire loads and Release stores are    *)
(* steps of one interleaving; a Relaxed load is used by no decision here.  *)
(***************************************************************************)
EXTENDS Integers, FiniteSets, FiniteSetsExt

CONSTANTS
  Threads,       \* threads of the job
  ChunkCount,    \* column chunks of the image
  Height,        \* rows of the image
  RowsPerClaim   \* rows a thread follows a chunk before it looks elsewhere

ASSUME ChunksAssumption ==
  /\ Threads \in Nat \ {0}
  /\ ChunkCount \in Nat \ {0}
  /\ Height \in Nat \ {0}
  /\ RowsPerClaim \in Nat \ {0}

VARIABLES
  progress,      \* the rows done in each chunk, as published
  claimed,       \* whether a thread holds the chunk
  pc,            \* the program counter of each thread of the job
  offset,        \* how many chunks the thread has looked at in this round
  row,           \* the row of the chunk held, or of the ring, it is at
  first,         \* the row it held the chunk from
  progressed     \* whether it got anything done in this round

Thread == 0..(Threads - 1)
Chunk == 0..(ChunkCount - 1)
Row == 0..(Height - 1)

\* The columns of a chunk and the number of chunks Chunks::new cuts a width
\* into, `perThread` for each thread of at least `least` columns.
ChunkCountOf(width, threads, perThread, least) ==
  Max({1, Min({threads * perThread, width \div least})})

Columns(width, count, chunk) ==
  ((width * chunk) \div count)..((width * (chunk + 1)) \div count - 1)

\* The chunk a thread looks at: each begins its round at another one.
At(t) == ((t * ChunkCount) \div Threads + offset[t]) % ChunkCount

MinProgress == Min({progress[c] : c \in Chunk})

ChunksInit ==
  /\ progress = [c \in Chunk |-> 0]
  /\ claimed = [c \in Chunk |-> FALSE]
  /\ pc = [t \in Thread |-> "look"]
  /\ offset = [t \in Thread |-> 0]
  /\ row = [t \in Thread |-> 0]
  /\ first = [t \in Thread |-> 0]
  /\ progressed = [t \in Thread |-> FALSE]

Goto(t, label) == pc' = [pc EXCEPT ![t] = label]

\* The thread goes on to the next chunk of its round, or past the last one.
NextChunk(t) ==
  /\ offset' = [offset EXCEPT ![t] = (@ + 1) % ChunkCount]
  /\ Goto(t, IF offset[t] + 1 = ChunkCount THEN "round" ELSE "look")

\* As TryClaim, were the flag stored without looking at it.
TryClaimUnchecked(t) ==
  /\ pc[t] = "claim"
  /\ claimed' = [claimed EXCEPT ![At(t)] = TRUE]
  /\ row' = [row EXCEPT ![t] = progress[At(t)]]
  /\ first' = [first EXCEPT ![t] = progress[At(t)]]
  /\ Goto(t, "held")
  /\ UNCHANGED <<offset, progress, progressed>>

\* try_claim: the exchange finds the chunk free, or it goes on without it.
\* The row to go on from is read once the chunk is held.
TryClaim(t) ==
  /\ pc[t] = "claim"
  /\ IF claimed[At(t)]
       THEN NextChunk(t) /\ UNCHANGED <<claimed, row, first>>
       ELSE /\ claimed' = [claimed EXCEPT ![At(t)] = TRUE]
            /\ row' = [row EXCEPT ![t] = progress[At(t)]]
            /\ first' = [first EXCEPT ![t] = progress[At(t)]]
            /\ Goto(t, "held")
            /\ UNCHANGED offset
  /\ UNCHANGED <<progress, progressed>>

\* As Release, were a chunk without a row done in it kept.
ReleaseIfProgressed(t) ==
  /\ pc[t] = "release"
  /\ claimed' = [claimed EXCEPT ![At(t)] = row[t] = first[t]]
  /\ progressed' = [progressed EXCEPT ![t] = @ \/ row[t] > first[t]]
  /\ NextChunk(t)
  /\ UNCHANGED <<progress, row, first>>

\* release: another thread may take the chunk from here.
Release(t) ==
  /\ pc[t] = "release"
  /\ claimed' = [claimed EXCEPT ![At(t)] = FALSE]
  /\ progressed' = [progressed EXCEPT ![t] = @ \/ row[t] > first[t]]
  /\ NextChunk(t)
  /\ UNCHANGED <<progress, row, first>>

\* A round is over: after one that got something done, or while a chunk has
\* rows left (waiting in between), the thread goes round again.
EndRound(t, label) ==
  /\ pc[t] = label
  /\ IF progressed[t] \/ MinProgress # Height
       THEN Goto(t, "look") /\ progressed' = [progressed EXCEPT ![t] = FALSE]
       ELSE Goto(t, "done") /\ UNCHANGED progressed
  /\ UNCHANGED <<progress, claimed, offset, row, first>>

AllDone == \A t \in Thread : pc[t] = "done"

\* The chunk a thread holds, if any.
Holding(t) == IF pc[t] \in {"held", "row", "publish", "release"} THEN {At(t)} ELSE {}
=============================================================================
