------------------------------- MODULE RowJobs -------------------------------
(***************************************************************************)
(* The jobs of vision/rust/stereo_match whose threads take rows from       *)
(* queues (lib.rs Matcher::costs_and_rows and Matcher::check, parallel.rs  *)
(* RowQueue).  `check` has two phases without a barrier between them: a    *)
(* thread that finds no row left to check goes on with the median filter,  *)
(* and waits there for the rows beside its own, still checked by others.   *)
(***************************************************************************)
EXTENDS Integers, FiniteSets, FiniteSetsExt

CONSTANTS
  Threads,       \* threads of the job, at least one
  Height,        \* rows of the image, at least one
  RowsPerTake    \* rows a thread takes at a time, at least one

VARIABLES
  jobKind,       \* "costs" (costs_and_rows) or "check"
  next,          \* the next row of each queue, past the rows once drained
  pc,            \* the program counter of each thread
  taken,         \* the rows it took and has not begun, as a range
  done,          \* the rows of the first phase that are published as done
  written        \* how often each row of each phase was written

rowVars == <<jobKind, next, pc, taken, done, written>>

Thread == 0..(Threads - 1)
Row == 0..(Height - 1)
Phase == {"first", "median"}

RowsInit ==
  /\ jobKind \in {"costs", "check"}
  /\ next = [q \in Phase |-> 0]
  /\ pc = [t \in Thread |-> "first"]
  /\ taken = [t \in Thread |-> {}]
  /\ done = {}
  /\ written = [q \in Phase |-> [r \in Row |-> 0]]

\* RowQueue::take, which counts on beyond the last row.
TakeRows(t, q) ==
  LET start == next[q]
  IN  /\ next' = [next EXCEPT ![q] = start + RowsPerTake]
      /\ taken' = [taken EXCEPT ![t] = {r \in Row : start <= r /\ r < start + RowsPerTake}]

\* A thread with no row in hand takes more, or leaves the phase: the first
\* is the whole of costs_and_rows, the median filter the end of check.
Take(t) ==
  /\ pc[t] \in Phase
  /\ taken[t] = {}
  /\ TakeRows(t, pc[t])
  /\ pc' = [pc EXCEPT ![t] =
              IF next[@] < Height THEN @
              ELSE IF @ = "first" /\ jobKind = "check" THEN "median" ELSE "done"]
  /\ UNCHANGED <<jobKind, done, written>>

\* A row of costs and horizontal paths, or a row of the left-right check.
FirstRow(t) ==
  /\ pc[t] = "first"
  /\ taken[t] # {}
  /\ LET r == Min(taken[t])
     IN  /\ written' = [written EXCEPT !["first"][r] = @ + 1]
         /\ done' = IF jobKind = "check" THEN done \union {r} ELSE done
         /\ taken' = [taken EXCEPT ![t] = @ \ {r}]
  /\ UNCHANGED <<jobKind, next, pc>>

\* The rows a row of the 3x3 median reads, the image's borders replicated.
Neighbours(r) == {r - 1, r, r + 1} \intersect Row

\* The wait for the three rows is over: the median of the row begins.
BeginMedian(t) ==
  /\ pc[t] = "median"
  /\ taken[t] # {}
  /\ Neighbours(Min(taken[t])) \subseteq done
  /\ pc' = [pc EXCEPT ![t] = "filtering"]
  /\ UNCHANGED <<jobKind, next, taken, done, written>>

EndMedian(t) ==
  /\ pc[t] = "filtering"
  /\ LET r == Min(taken[t])
     IN  /\ written' = [written EXCEPT !["median"][r] = @ + 1]
         /\ taken' = [taken EXCEPT ![t] = @ \ {r}]
  /\ pc' = [pc EXCEPT ![t] = "median"]
  /\ UNCHANGED <<jobKind, next, done>>

RowStep(t) == Take(t) \/ FirstRow(t) \/ BeginMedian(t) \/ EndMedian(t)

RowsOver == \A t \in Thread : pc[t] = "done"

RowsReturned == RowsOver /\ UNCHANGED rowVars

RowsNext == (\E t \in Thread : RowStep(t)) \/ RowsReturned

RowsSpec == RowsInit /\ [][RowsNext]_rowVars /\ \A t \in Thread : WF_rowVars(RowStep(t))

-----------------------------------------------------------------------------
(* Properties                                                              *)

\* The rows a thread has in hand are its own within their phase, and the
\* rows the median reads are checked and no longer written.
RowsDisjoint ==
  \A t \in Thread :
    /\ \A u \in Thread \ {t} :
         (pc[t] = "first") = (pc[u] = "first") => taken[t] \intersect taken[u] = {}
    /\ pc[t] = "filtering" =>
         /\ \A r \in Neighbours(Min(taken[t])) : written["first"][r] = 1
         /\ \A u \in Thread : pc[u] = "first" =>
              taken[u] \intersect Neighbours(Min(taken[t])) = {}

\* Every row is written once in each phase of the job.
RowsVisitOnce ==
  /\ \A q \in Phase, r \in Row : written[q][r] <= 1
  /\ RowsOver => \A q \in Phase, r \in Row :
                   written[q][r] = IF q = "median" /\ jobKind = "costs" THEN 0 ELSE 1

RowsReturn == <>RowsOver
=============================================================================
