------------------------------- MODULE MCMatcher -------------------------------
(***************************************************************************)
(* The matcher of vision/rust/stereo_match on a small instance: one of its *)
(* threaded jobs, its worker pool, or a computation of one row or pixel,   *)
(* chosen at the start.                                                    *)
(***************************************************************************)
EXTENDS Matching, Pool, Sweep

CONSTANTS
  RingRows, RowsPerTake,
  \* Inputs of the computations:
  Rows,            \* the rows of an image
  Grey, Cost,      \* grey levels and matching costs
  Images,          \* the matching costs of an image
  Sums, Ratios,    \* summed costs of a pixel, and uniqueness
  Fractions,       \* of a disparity beside its winner
  Widths, ThreadCounts

VARIABLES
  part,         \* what this behaviour is about
  case,         \* the input of a computation
  nextRow, produced, ring,
  jobKind, next, taken, done, written

chunkVars == <<progress, claimed, offset, row, first, progressed, states, visits>>
ringOnly == <<nextRow, produced, ring>>
rowsOnly == <<jobKind, next, taken, done, written>>
allVars == <<part, case, pc, chunkVars, ringOnly, rowsOnly, poolVars>>

R == INSTANCE ThreePaths
Q == INSTANCE RowJobs

Unused(variable) == variable = None
NoChunks == /\ Unused(progress) /\ Unused(claimed) /\ Unused(offset) /\ Unused(row)
            /\ Unused(first) /\ Unused(progressed) /\ Unused(states) /\ Unused(visits)
NoRing == Unused(nextRow) /\ Unused(produced) /\ Unused(ring)
NoRows == Unused(jobKind) /\ Unused(next) /\ Unused(taken) /\ Unused(done) /\ Unused(written)
NoCase == Unused(case)

-----------------------------------------------------------------------------
(* The computations and their inputs                                       *)

Image(Pixel) == [0..(Rows - 1) -> [Column -> Pixel]]

\* Costs fit in the words that the code has for them, a ratio is a fraction,
\* and the subpixel refinement moves a disparity by one half at most.
ASSUME MatcherAssumption ==
  /\ RingRows \in Nat \ {0} /\ RowsPerTake \in Nat \ {0}
  /\ Rows \in Nat \ {0} /\ Grey \subseteq Nat /\ Cost \subseteq 0..CensusBits
  /\ Images \subseteq Image([Disparity -> Cost])
  /\ Sums \subseteq 0..(PastEdge - 1)
  /\ \A ratio \in Ratios : ratio \in Nat \X (Nat \ {0})
  /\ \A f \in Fractions : f \in Int \X (Nat \ {0}) /\ -f[2] <= 2 * f[1] /\ 2 * f[1] <= f[2]
  /\ Widths \subseteq Nat \ {0} /\ ThreadCounts \subseteq Nat \ {0}

\* In the small instance, images in which each pixel matches one disparity.
MiniImages == {[y \in 0..1 |-> [x \in Column |-> [d \in Disparity |->
                  IF d = match[y][x] THEN 0 ELSE CensusBits]]] :
                 match \in [0..1 -> [Column -> {0, 1, 3}]]}
MiniRatios == {<<1, 1>>, <<3, 2>>}
MiniFractions == {<<-1, 2>>, <<0, 2>>, <<1, 2>>}
MiniWidths == 1..40

\* What a pixel is matched with, and none.
Matches(x) == {[key |-> NoKey, disparity |-> Unmatched]}
  \union {[key |-> <<c, w>>, disparity |-> <<f[2] * w + f[1], f[2]>>] :
            c \in Sums, w \in Disparity \intersect 0..x, f \in Fractions}

CensusCases == [kind : {"census"}, left : Image(Grey), right : Image(Grey)]
RowCases == [kind : {"row"}, costs : [Column -> [Disparity -> Cost]]]
ImageCases == [kind : {"image"}, costs : Images]
SelectCases == [kind : {"select"}, sums : [Disparity -> Sums], x : 0..D, uniqueness : Ratios]
CheckCases == {c \in [kind : {"check"}, found : [Column -> Matches(Width - 1)]] :
                 \A x \in Column : c.found[x] \in Matches(x)
                                   /\ (c.found[x].key # NoKey => c.found[x].disparity[1] >= 0)}
ChunkCases == [kind : {"chunks"}, width : Widths, threads : ThreadCounts]

Correct(c) ==
  CASE c.kind = "none" -> TRUE
    [] c.kind = "census" ->
         \A y \in 0..(Rows - 1) :
           LET left == CensusRow(c.left, Rows, y)
               costs == CostsAndPaths(c.left, c.right, Rows, y).costs
           IN  \A x \in Column :
                 /\ left[x] = RefCensus(c.left, Rows, y, x)
                 /\ \A d \in Disparity : costs[x][d] = RefCost(c.left, c.right, Rows, y, x, d)
    [] c.kind = "row" ->
         \A x \in Column, d \in Disparity :
           HorizontalSum(c.costs, x, d) = RefPathCost([i \in 1..(x + 1) |-> c.costs[i - 1]], d)
             + RefPathCost([i \in 1..(Width - x) |-> c.costs[Width - i]], d)
    [] c.kind = "image" ->
         LET sums == EightPathSums(c.costs, Rows)
         IN  \A y \in 0..(Rows - 1), x \in Column, d \in Disparity :
               sums[y][x][d] = RefAggregate(c.costs, Rows, y, x, d)
    [] c.kind = "select" ->
         LET got == SelectPixel(c.sums, c.x, c.uniqueness)
             want == RefSelect(c.sums, c.x, c.uniqueness)
         IN  got.key = want.key /\ SameValue(got.disparity, want.disparity)
    [] c.kind = "check" ->
         LET disparity == [x \in Column |-> c.found[x].disparity]
             keys == [x \in Column |-> c.found[x].key]
             kept == ConsistencyRow(disparity, keys)
         IN  \A x \in Column :
               kept[x] = IF RefConsistent(disparity, keys, x) THEN disparity[x] ELSE Unmatched
    [] c.kind = "chunks" ->
         LET count == R!ChunkCountOf(c.width, c.threads, 4, 16)
             cut == [k \in 0..(count - 1) |-> R!Columns(c.width, count, k)]
         IN  /\ UNION {cut[k] : k \in 0..(count - 1)} = 0..(c.width - 1)
             /\ \A j, k \in 0..(count - 1) : j # k => cut[j] \intersect cut[k] = {}
             /\ \A k \in 0..(count - 1) : cut[k] # {}

Compute ==
  /\ part = "computation"
  /\ case.kind = "none"
  /\ \/ \E c \in CensusCases : case' = c
     \/ \E c \in RowCases : case' = c
     \/ \E c \in ImageCases : case' = c
     \/ \E c \in SelectCases : case' = c
     \/ \E c \in CheckCases : case' = c
     \/ \E c \in ChunkCases : case' = c
  /\ UNCHANGED <<part, pc, chunkVars, ringOnly, rowsOnly, poolVars>>

Computed == part = "computation" /\ case.kind # "none" /\ UNCHANGED allVars

-----------------------------------------------------------------------------

Init ==
  \/ /\ part = "sweep" /\ SweepInit /\ NoRing /\ NoRows /\ NoCase /\ PoolInit
  \/ /\ part = "ring" /\ R!RingInit /\ NoRows /\ NoCase /\ PoolInit
  \/ /\ part = "rows" /\ Q!RowsInit /\ NoChunks /\ NoRing /\ NoCase /\ PoolInit
  \/ /\ part = "pool" /\ PoolInit /\ NoChunks /\ NoRing /\ NoRows /\ NoCase /\ Unused(pc)
  \/ /\ part = "computation" /\ case = [kind |-> "none"]
     /\ NoChunks /\ NoRing /\ NoRows /\ Unused(pc) /\ PoolInit

SweepPart(A) == part = "sweep" /\ A /\ UNCHANGED <<part, case, ringOnly, rowsOnly, poolVars>>
RingPart(A) == part = "ring" /\ A /\ UNCHANGED <<part, case, rowsOnly, poolVars>>
RowsPart(A) == part = "rows" /\ A /\ UNCHANGED <<part, case, chunkVars, ringOnly, poolVars>>
PoolPart(A) == part = "pool" /\ A /\ UNCHANGED <<part, case, pc, chunkVars, ringOnly, rowsOnly>>

Next ==
  \/ SweepPart(SweepNext)
  \/ RingPart(R!RingNext)
  \/ RowsPart(Q!RowsNext)
  \/ PoolPart(PoolNext)
  \/ Compute
  \/ Computed

\* Every thread is scheduled in the end; a mutex is not withheld for ever.
Fairness ==
  /\ \A t \in Thread :
       /\ WF_allVars(SweepPart(SweepStep(t)))
       /\ WF_allVars(RingPart(R!RingStep(t)))
       /\ WF_allVars(RowsPart(Q!RowStep(t)))
  /\ \A c \in Callers : WF_allVars(PoolPart(CallerStep(c)))
  /\ \A i \in Indices : WF_allVars(PoolPart(WorkerStep(i)))

Spec == Init /\ [][Next]_allVars /\ Fairness

-----------------------------------------------------------------------------
(* Properties                                                              *)

\* What a thread of a job reads or writes no other thread writes meanwhile,
\* and what it reads is what the job is defined to read: the row before of a
\* path, the ring's row it is at, checked rows for the median.
ThreadsDisjoint ==
  /\ part = "sweep" => SweepDisjoint
  /\ part = "ring" => R!RingDisjoint
  /\ part = "rows" => Q!RowsDisjoint

\* A job has each pixel done once when its threads have returned, however
\* rows and chunks were shared out among them.
EveryPixelOnce ==
  /\ part = "sweep" => SweepVisitsOnce
  /\ part = "ring" => R!RingVisitsOnce
  /\ part = "rows" => Q!RowsVisitOnce

\* No thread of a job waits for ever on work another one never finishes,
\* and a call of on_threads returns.
JobsReturn ==
  /\ part = "sweep" ~> (part = "sweep" /\ AllDone)
  /\ part = "ring" ~> (part = "ring" /\ R!AllDone)
  /\ part = "rows" ~> (part = "rows" /\ Q!RowsOver)
  /\ \A c \in Callers :
       (part = "pool" /\ caller[c] = "working") ~> (part = "pool" /\ caller[c] \in {"returned", "panicked"})

\* The matcher computes what its reference does.
ComputesReference == part = "computation" => Correct(case)
=============================================================================
