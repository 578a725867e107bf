---------------------------- MODULE MatcherProofs ----------------------------
(***************************************************************************)
(* What holds of stereo_match, for any number of threads, callers, chunks, *)
(* rows, columns and disparities: of its worker pool, of each of its jobs, *)
(* of the matcher that runs one of them, and of what it computes.          *)
(*                                                                         *)
(* Pool: the work a worker runs is of a call that goes on, since           *)
(* `pending`, which the caller waits for, counts the workers that have not *)
(* run their part (Counted) and those running one are among them: a        *)
(* generation is new to every worker when it is published, and a worker    *)
(* that finds no work, or is not of the job, is not counted.               *)
(*                                                                         *)
(* Sweep: a chunk is a thread's from its claim to its release (Claims), so *)
(* only that thread moves its progress.  As a chunk does a row when the    *)
(* chunks beside it have done the one before, their progress differs by    *)
(* one at most (Close), and the two parities of a chunk's states are those *)
(* of its last two rows (StatesKept): the row before is there, whether the *)
(* chunk beside has done the present row or not.                           *)
(*                                                                         *)
(* Ring: no row is taken more than the ring ahead of the last chunk        *)
(* (Window), so a thread that fills a slot overwrites a row every chunk    *)
(* has passed, and one that follows a row has it published in its slot     *)
(* (RingInTurn, Filled) until its chunk has passed it; two rows that share *)
(* a slot are a ring apart, which no two taken and unpassed rows are.      *)
(*                                                                         *)
(* Rows: a row handed out is in one thread's hand or written, once         *)
(* (OneHand, WrittenOnce), and the rows the median reads are done: written *)
(* and in no hand (Phased).                                                *)
(*                                                                         *)
(* Computations: the state of a path after n pixels holds the least        *)
(* energies of the choices of disparities along them, less the least       *)
(* energy of the pixel before (StateOf), in a byte.  A step keeps that     *)
(* (StepIs), as the least energy goes on from the best one before          *)
(* (LeastStep) and the penalties make three candidates enough              *)
(* (NextCostIs).  A row's paths start at its borders, those of a swept     *)
(* image go on from the row before along rays (NextRowIs).  The winner,    *)
(* the check and the chunks are the reference's by arithmetic.             *)
(***************************************************************************)
EXTENDS MCMatcher, FiniteSetTheorems, WellFoundedInduction, TLAPS

----------------------------------------------------------------------------
(***************************************************************************)
(* The worker pool                                                         *)
(***************************************************************************)

WorkerStates == {"absent", "looking", "parked", "working"}
CallerStates == {"out", "spawning", "working", "finishing", "returned", "panicked"}

PoolTypeOK ==
  /\ workers \in 0..(MaxThreads - 1)
  /\ holder \in Callers \union {None}
  /\ job \in [generation : Nat, threads : 0..MaxThreads, work : Callers \union {None},
              pending : Nat, panicked : BOOLEAN]
  /\ parked \subseteq Indices
  /\ waiting \in BOOLEAN
  /\ worker \in [Indices -> WorkerStates]
  /\ seen \in [Indices -> Nat]
  /\ caller \in [Callers -> CallerStates]
  /\ asked \in 0..MaxThreads
  /\ unwinding \in BOOLEAN

\* The workers of the job in progress that have not run their part.
Owing == {i \in 1..(job.threads - 1) : ~HasRun(i)}

\* One caller at a time is between taking the mutex and giving it back.
OneHolder ==
  \A c \in Callers : caller[c] \in {"spawning", "working", "finishing"} <=> holder = c

\* The job is the one its caller asked for, with workers for its threads.
JobOfCaller ==
  /\ holder # None => asked \in 2..MaxThreads
  /\ \A c \in Callers : Handed(c) => job.work = c /\ job.threads = asked
  /\ job.work # None => Handed(job.work)
  /\ job.threads - 1 <= workers

Running ==
  \A i \in Indices : worker[i] = "working" =>
    job.work # None /\ seen[i] = job.generation /\ i < job.threads

Counted ==
  /\ \A i \in Indices : seen[i] <= job.generation
  /\ job.pending = Cardinality(Owing)
  /\ job.work = None => job.pending = 0

PoolIInv == PoolTypeOK /\ OneHolder /\ JobOfCaller /\ Running /\ Counted

----------------------------------------------------------------------------
(* Who has not run their part                                              *)

LEMMA OwingFinite ==
  ASSUME PoolTypeOK
  PROVE  /\ IsFiniteSet(Owing) /\ Cardinality(Owing) \in Nat
         /\ Owing \subseteq Indices
<1>1. IsFiniteSet(1..(job.threads - 1))
  BY FS_Interval DEF PoolTypeOK
<1>2. IsFiniteSet(Owing)
  BY <1>1, FS_Subset DEF Owing
<1>3. Owing \subseteq Indices
  BY PoolAssumption DEF Owing, Indices, PoolTypeOK
<1>4. QED
  BY <1>2, <1>3, FS_CardinalityType

\* With nothing pending every worker of the job has run its part.
LEMMA NothingOwed ==
  ASSUME PoolIInv, job.pending = 0
  PROVE  /\ \A i \in 1..(job.threads - 1) : HasRun(i)
         /\ \A i \in Indices : worker[i] # "working"
<1>1. Owing = {}
  BY OwingFinite, FS_EmptySet DEF PoolIInv, Counted
<1>2. \A i \in 1..(job.threads - 1) : HasRun(i)
  BY <1>1 DEF Owing
<1>3. ASSUME NEW i \in Indices, worker[i] = "working" PROVE FALSE
  <2>1. i < job.threads
    BY <1>3 DEF PoolIInv, Running
  <2>2. i \in 1..(job.threads - 1)
    BY <2>1 DEF Indices, PoolIInv, PoolTypeOK
  <2>3. QED
    BY <1>2, <1>3, <2>2 DEF HasRun
<1>4. QED
  BY <1>2, <1>3

\* Owing, and with it the count, is the same after a step that changes no
\* worker's part nor the job.
LEMMA SameOwing ==
  ASSUME Counted, job' = job, seen' = seen,
         \A i \in 1..(job.threads - 1) : HasRun(i)' <=> HasRun(i)
  PROVE  Counted'
<1>1. Owing' = Owing
  BY DEF Owing
<1>2. QED
  BY <1>1 DEF Counted

----------------------------------------------------------------------------
(* The steps of a caller                                                   *)

LEMMA EnterStep ==
  ASSUME PoolIInv, NEW c \in Callers, Enter(c)
  PROVE  PoolIInv'
<1>1. PoolTypeOK'
  BY PoolAssumption DEF PoolIInv, PoolTypeOK, Enter, CallerStates
<1>2. OneHolder' /\ JobOfCaller' /\ Running'
  BY PoolAssumption DEF PoolIInv, PoolTypeOK, Enter, CallerStates, OneHolder, JobOfCaller, Running, Handed
<1>3. Counted'
  BY SameOwing DEF PoolIInv, Enter, HasRun
<1>4. QED
  BY <1>1, <1>2, <1>3 DEF PoolIInv

LEMMA SpawnStep ==
  ASSUME PoolIInv, NEW c \in Callers, Spawn(c)
  PROVE  PoolIInv'
<1>1. workers + 1 \in Indices
  BY PoolAssumption DEF PoolIInv, PoolTypeOK, Spawn, Indices
<1>2. PoolTypeOK'
  BY <1>1, PoolAssumption DEF PoolIInv, PoolTypeOK, Spawn, WorkerStates, Indices
<1>3. OneHolder' /\ JobOfCaller' /\ Running'
  BY <1>1, PoolAssumption DEF PoolIInv, PoolTypeOK, Spawn, OneHolder, JobOfCaller, Running, Handed
<1>4. \A i \in 1..(job.threads - 1) : HasRun(i)' <=> HasRun(i)
  BY <1>1 DEF PoolIInv, PoolTypeOK, JobOfCaller, Spawn, HasRun
<1>5. Counted'
  BY <1>4, SameOwing DEF PoolIInv, Spawn
<1>6. QED
  BY <1>2, <1>3, <1>5 DEF PoolIInv

\* Before a job is published there is none: nobody is in one, and its
\* generation is new to all.
LEMMA BeforePublish ==
  ASSUME PoolIInv, NEW c \in Callers, caller[c] = "spawning"
  PROVE  /\ holder = c /\ asked \in 2..MaxThreads
         /\ \A d \in Callers : ~Handed(d)
         /\ job.work = None /\ job.pending = 0
<1>1. holder = c /\ asked \in 2..MaxThreads
  BY PoolAssumption DEF PoolIInv, OneHolder, JobOfCaller
<1>2. \A d \in Callers : ~Handed(d)
  BY <1>1 DEF PoolIInv, OneHolder, Handed
<1>3. job.work = None
  BY <1>2 DEF PoolIInv, JobOfCaller, PoolTypeOK
<1>4. QED
  BY <1>1, <1>2, <1>3 DEF PoolIInv, Counted

LEMMA PublishStep ==
  ASSUME PoolIInv, NEW c \in Callers, Publish(c)
  PROVE  PoolIInv'
<1> USE DEF Publish
<1>1. /\ holder = c /\ asked \in 2..MaxThreads
      /\ \A d \in Callers : ~Handed(d)
      /\ job.work = None /\ job.pending = 0
  BY BeforePublish
<1>2. /\ job'.generation = job.generation + 1 /\ job'.threads = asked
      /\ job'.work = c /\ job'.pending = asked - 1
  BY DEF PoolIInv, PoolTypeOK
<1>3. PoolTypeOK'
  <2>1. job' \in [generation : Nat, threads : 0..MaxThreads, work : Callers \union {None},
                  pending : Nat, panicked : BOOLEAN]
    <3>1. asked - 1 \in Nat /\ asked \in 0..MaxThreads
      BY <1>1
    <3>2. job.generation + 1 \in Nat
      BY DEF PoolIInv, PoolTypeOK
    <3>3. QED
      BY <3>1, <3>2 DEF PoolIInv, PoolTypeOK
  <2>2. worker' \in [Indices -> WorkerStates]
    BY DEF PoolIInv, PoolTypeOK, WorkerStates
  <2>3. caller' \in [Callers -> CallerStates]
    BY DEF PoolIInv, PoolTypeOK, CallerStates
  <2>4. QED
    BY <2>1, <2>2, <2>3 DEF PoolIInv, PoolTypeOK
<1>4. OneHolder'
  BY <1>1, PoolAssumption DEF PoolIInv, PoolTypeOK, OneHolder
<1>5. JobOfCaller'
  <2>1. \A d \in Callers : Handed(d)' => d = c
    BY <1>1 DEF Handed, PoolIInv, PoolTypeOK
  <2>2. Handed(c)'
    BY DEF Handed, PoolIInv, PoolTypeOK
  <2>3. QED
    BY <1>1, <1>2, <2>1, <2>2, PoolAssumption DEF JobOfCaller, PoolIInv, PoolTypeOK
<1>6. \A i \in Indices : worker'[i] # "working"
  BY <1>1, NothingOwed
<1>7. Running'
  BY <1>6 DEF Running
<1>8. Counted'
  <2>1. \A i \in Indices : seen'[i] < job'.generation
    BY <1>2 DEF PoolIInv, PoolTypeOK, Counted
  <2>2. Owing' = 1..(asked - 1)
    <3>1. 1..(asked - 1) \subseteq Indices
      BY <1>1, PoolAssumption DEF Indices
    <3>2. \A i \in 1..(asked - 1) : seen'[i] # job'.generation
      BY <2>1, <3>1, <1>2 DEF PoolIInv, PoolTypeOK
    <3>3. QED
      BY <1>2, <3>2 DEF Owing, HasRun
  <2>3. Cardinality(1..(asked - 1)) = asked - 1
    BY <1>1, FS_Interval
  <2>4. job'.work # None
    BY <1>2, PoolAssumption
  <2>5. \A i \in Indices : seen'[i] <= job'.generation
    BY <2>1, <1>2 DEF PoolIInv, PoolTypeOK
  <2>6. QED
    BY <1>2, <2>2, <2>3, <2>4, <2>5 DEF Counted
<1>9. QED
  BY <1>3, <1>4, <1>5, <1>7, <1>8 DEF PoolIInv

\* The steps of a caller that change neither the job nor a worker.
LEMMA QuietCallerStep ==
  ASSUME PoolIInv, NEW c \in Callers, OwnWork(c) \/ AwaitWorkers(c) \/ Leave(c)
  PROVE  PoolIInv'
<1>1. PoolTypeOK'
  BY DEF PoolIInv, PoolTypeOK, OwnWork, AwaitWorkers, Leave, CallerStates
<1>2. OneHolder'
  BY PoolAssumption DEF PoolIInv, PoolTypeOK, OneHolder, OwnWork, AwaitWorkers, Leave
<1>3. \A d \in Callers : Handed(d)' <=> Handed(d)
  BY DEF PoolIInv, PoolTypeOK, Handed, OwnWork, AwaitWorkers, Leave
<1>4. JobOfCaller' /\ Running'
  BY <1>3, PoolAssumption DEF PoolIInv, PoolTypeOK, JobOfCaller, Running, OwnWork, AwaitWorkers, Leave
<1>5. Counted'
  BY SameOwing DEF PoolIInv, HasRun, OwnWork, AwaitWorkers, Leave
<1>6. QED
  BY <1>1, <1>2, <1>4, <1>5 DEF PoolIInv

LEMMA FinishStep ==
  ASSUME PoolIInv, NEW c \in Callers, Finish(c)
  PROVE  PoolIInv'
<1> USE DEF Finish
<1>1. /\ job'.generation = job.generation /\ job'.threads = job.threads
      /\ job'.work = None /\ job'.pending = 0
  BY DEF PoolIInv, PoolTypeOK
<1>2. holder = c
  BY DEF PoolIInv, OneHolder
<1>3. PoolTypeOK'
  <2>1. job' \in [generation : Nat, threads : 0..MaxThreads, work : Callers \union {None},
                  pending : Nat, panicked : BOOLEAN]
    BY DEF PoolIInv, PoolTypeOK
  <2>2. caller' \in [Callers -> CallerStates]
    BY DEF PoolIInv, PoolTypeOK, CallerStates
  <2>3. 0 \in 0..MaxThreads
    BY PoolAssumption
  <2>4. QED
    BY <2>1, <2>2, <2>3 DEF PoolIInv, PoolTypeOK
<1>4. OneHolder'
  BY <1>2, PoolAssumption DEF PoolIInv, PoolTypeOK, OneHolder
<1>5. \A d \in Callers : ~Handed(d)'
  BY <1>2 DEF PoolIInv, PoolTypeOK, OneHolder, Handed
<1>6. JobOfCaller'
  BY <1>1, <1>5 DEF PoolIInv, JobOfCaller
<1>7. Running'
  BY NothingOwed DEF Running
<1>8. Counted'
  <2>1. Owing' = Owing
    BY <1>1 DEF Owing, HasRun
  <2>2. QED
    BY <1>1, <2>1 DEF PoolIInv, Counted
<1>9. QED
  BY <1>3, <1>4, <1>6, <1>7, <1>8 DEF PoolIInv

----------------------------------------------------------------------------
(* The steps of a worker                                                   *)

LEMMA ParkStep ==
  ASSUME PoolIInv, NEW i \in Indices, Park(i)
  PROVE  PoolIInv'
<1>1. PoolTypeOK'
  BY DEF PoolIInv, PoolTypeOK, Park, WorkerStates
<1>2. OneHolder' /\ JobOfCaller' /\ Running'
  BY DEF PoolIInv, PoolTypeOK, Park, OneHolder, JobOfCaller, Running, Handed
<1>3. \A j \in 1..(job.threads - 1) : HasRun(j)' <=> HasRun(j)
  <2>1. \A j \in Indices : worker'[j] = "working" <=> worker[j] = "working"
    BY DEF PoolIInv, PoolTypeOK, Park
  <2>2. 1..(job.threads - 1) \subseteq Indices
    BY PoolAssumption DEF PoolIInv, PoolTypeOK, Indices
  <2>3. QED
    BY <2>1, <2>2 DEF HasRun, Park
<1>4. Counted'
  BY <1>3, SameOwing DEF PoolIInv, Park
<1>5. QED
  BY <1>1, <1>2, <1>4 DEF PoolIInv

\* Taking work, or finding none to take, is not having run it.
LEMMA TakingIsNotRunning ==
  ASSUME PoolIInv, NEW i \in Indices, TakeWork(i)
  PROVE  \A j \in 1..(job.threads - 1) : HasRun(j)' <=> HasRun(j)
<1> USE DEF TakeWork
<1> SUFFICES ASSUME NEW j \in 1..(job.threads - 1)
             PROVE  HasRun(j)' <=> HasRun(j)
  OBVIOUS
<1>1. j \in Indices /\ j < job.threads
  BY PoolAssumption DEF PoolIInv, PoolTypeOK, Indices
<1>2. CASE j # i
  BY <1>1, <1>2 DEF HasRun, PoolIInv, PoolTypeOK
<1>3. CASE j = i
  <2>1. ~HasRun(i)
    BY DEF HasRun
  <2>2. job.work # None
    BY <2>1, <1>3, NothingOwed DEF PoolIInv, Counted
  <2>3. worker'[i] = "working"
    BY <1>1, <1>3, <2>2 DEF PoolIInv, PoolTypeOK
  <2>4. QED
    BY <1>3, <2>1, <2>3 DEF HasRun
<1>4. QED
  BY <1>2, <1>3

LEMMA TakeWorkStep ==
  ASSUME PoolIInv, NEW i \in Indices, TakeWork(i)
  PROVE  PoolIInv'
<1>1. PoolTypeOK'
  BY DEF PoolIInv, PoolTypeOK, TakeWork, WorkerStates
<1>2. OneHolder' /\ JobOfCaller'
  BY DEF PoolIInv, TakeWork, OneHolder, JobOfCaller, Handed
<1>3. Running'
  BY DEF PoolIInv, PoolTypeOK, TakeWork, Running
<1>4. Owing' = Owing
  BY TakingIsNotRunning DEF Owing, TakeWork
<1>5. Counted'
  BY <1>4 DEF PoolIInv, PoolTypeOK, Counted, TakeWork
<1>6. QED
  BY <1>1, <1>2, <1>3, <1>5 DEF PoolIInv

\* A worker that reports was among those counted, and is the one that no
\* longer is.
LEMMA ReportCounts ==
  ASSUME PoolIInv, NEW i \in Indices, Report(i)
  PROVE  i \in Owing /\ Owing' = Owing \ {i} /\ job.pending > 0
<1> USE DEF Report
<1>1. /\ job'.generation = job.generation /\ job'.threads = job.threads
  BY DEF PoolIInv, PoolTypeOK
<1>2. seen[i] = job.generation /\ i \in 1..(job.threads - 1)
  BY DEF PoolIInv, PoolTypeOK, Running, Indices
<1>3. i \in Owing
  BY <1>2 DEF Owing, HasRun
<1>4. HasRun(i)' /\ \A j \in 1..(job.threads - 1) : j # i => (HasRun(j)' <=> HasRun(j))
  <2>1. 1..(job.threads - 1) \subseteq Indices
    BY PoolAssumption DEF PoolIInv, PoolTypeOK, Indices
  <2>2. QED
    BY <1>1, <1>2, <2>1 DEF HasRun, PoolIInv, PoolTypeOK
<1>5. Owing' = Owing \ {i}
  BY <1>1, <1>2, <1>4 DEF Owing
<1>6. job.pending # 0
  BY <1>3, OwingFinite, FS_EmptySet DEF PoolIInv, Counted
<1>7. QED
  BY <1>3, <1>5, <1>6 DEF PoolIInv, PoolTypeOK

LEMMA ReportStep ==
  ASSUME PoolIInv, NEW i \in Indices, Report(i)
  PROVE  PoolIInv'
<1>1. i \in Owing /\ Owing' = Owing \ {i} /\ job.pending > 0
  BY ReportCounts
<1>2. PICK panicked \in BOOLEAN :
        job' = [job EXCEPT !.panicked = @ \/ panicked, !.pending = @ - 1]
  BY DEF Report
<1>3. /\ job'.generation = job.generation /\ job'.threads = job.threads
      /\ job'.work = job.work /\ job'.pending = job.pending - 1
      /\ job'.panicked \in BOOLEAN
  BY <1>2 DEF PoolIInv, PoolTypeOK
<1>4. PoolTypeOK'
  <2>1. job' \in [generation : Nat, threads : 0..MaxThreads, work : Callers \union {None},
                  pending : Nat, panicked : BOOLEAN]
    <3>1. job.pending - 1 \in Nat
      BY <1>1 DEF PoolIInv, PoolTypeOK
    <3>2. (job.panicked \/ panicked) \in BOOLEAN
      BY DEF PoolIInv, PoolTypeOK
    <3>3. QED
      BY <1>2, <3>1, <3>2, Zenon DEF PoolIInv, PoolTypeOK
  <2>2. waiting' \in BOOLEAN
    BY DEF Report
  <2>3. QED
    BY <2>1, <2>2 DEF PoolIInv, PoolTypeOK, Report, WorkerStates
<1>5. OneHolder' /\ JobOfCaller' /\ Running'
  BY <1>3 DEF PoolIInv, PoolTypeOK, Report, OneHolder, JobOfCaller, Running, Handed
<1>6. Counted'
  <2>1. Cardinality(Owing') = Cardinality(Owing) - 1
    BY <1>1, OwingFinite, FS_RemoveElement DEF PoolIInv
  <2>2. job.work # None
    BY <1>1 DEF PoolIInv, Counted
  <2>3. QED
    BY <1>3, <2>1, <2>2 DEF PoolIInv, Counted, Report
<1>7. QED
  BY <1>4, <1>5, <1>6 DEF PoolIInv

----------------------------------------------------------------------------

LEMMA PoolStep ==
  ASSUME PoolIInv, [PoolNext]_poolVars
  PROVE  PoolIInv'
<1>1. ASSUME NEW c \in Callers, CallerStep(c) PROVE PoolIInv'
  BY <1>1, EnterStep, SpawnStep, PublishStep, QuietCallerStep, FinishStep DEF CallerStep
<1>2. ASSUME NEW i \in Indices, WorkerStep(i) PROVE PoolIInv'
  BY <1>2, ParkStep, TakeWorkStep, ReportStep DEF WorkerStep
<1>3. CASE UNCHANGED poolVars
  BY <1>3 DEF poolVars, PoolIInv, PoolTypeOK, OneHolder, JobOfCaller, Running, Counted,
              Owing, HasRun, Handed
<1>4. QED
  BY <1>1, <1>2, <1>3 DEF PoolNext, PoolIdle

LEMMA PoolStart ==
  ASSUME PoolInit
  PROVE  PoolIInv
<1> USE DEF PoolInit
<1>1. PoolTypeOK
  <2>1. job \in [generation : Nat, threads : 0..MaxThreads, work : Callers \union {None},
                 pending : Nat, panicked : BOOLEAN]
    BY PoolAssumption DEF NoJob
  <2>2. workers \in 0..(MaxThreads - 1) /\ asked \in 0..MaxThreads
    BY PoolAssumption
  <2>3. QED
    BY <2>1, <2>2 DEF PoolTypeOK, WorkerStates, CallerStates
<1>2. OneHolder /\ JobOfCaller /\ Running
  BY PoolAssumption DEF OneHolder, JobOfCaller, Running, NoJob, Handed
<1>3. Owing = {}
  BY DEF Owing, NoJob
<1>4. Counted
  BY <1>3, FS_EmptySet DEF Counted, NoJob
<1>5. QED
  BY <1>1, <1>2, <1>4 DEF PoolIInv

LEMMA PoolInvariant == PoolSpec => []PoolIInv
<1>1. PoolIInv /\ [PoolNext]_poolVars => PoolIInv'
  BY PoolStep
<1>2. QED
  BY PoolStart, <1>1, PTL DEF PoolSpec

\* A worker inside a job's work runs that of a call that has not ended,
\* whichever threads panic: what on_threads' erased lifetime rests on.
THEOREM WorkIsAlive == PoolSpec => []WorkOutlivesItsUse
<1>1. PoolIInv => WorkOutlivesItsUse
  BY DEF PoolIInv, Running, JobOfCaller, WorkOutlivesItsUse
<1>2. QED
  BY PoolInvariant, <1>1, PTL

----------------------------------------------------------------------------
(* The pool implements on_threads' promise                                 *)

Someone == \E c \in Callers : Handed(c)

\* The threads of the call in progress that are over, as the refinement
\* has it.
Ran == IF Someone
         THEN {i \in 1..(job.threads - 1) : HasRun(i)}
                \union (IF \E c \in Callers : caller[c] = "finishing" THEN {0} ELSE {})
         ELSE {}
Calling == {c \in Callers : Handed(c)}
Size == IF Someone THEN job.threads ELSE 0

\* At most the holder's work is handed out.
LEMMA OneCall ==
  ASSUME PoolIInv, NEW c \in Callers, Handed(c)
  PROVE  Calling = {c} /\ Someone /\ holder = c /\ job.work = c /\ job.threads = asked
         /\ asked \in 2..MaxThreads
  BY PoolAssumption DEF PoolIInv, OneHolder, JobOfCaller, Handed, Calling, Someone

\* A step that hands nothing out or back, and in which no part ends, is none.
LEMMA Stutter ==
  ASSUME PoolIInv, job' = job,
         \A c \in Callers : (Handed(c)' <=> Handed(c))
                            /\ (caller'[c] = "finishing" <=> caller[c] = "finishing"),
         \A i \in 1..(job.threads - 1) : HasRun(i)' <=> HasRun(i)
  PROVE  Calling' = Calling /\ Size' = Size /\ Ran' = Ran
<1>1. Someone' <=> Someone
  BY DEF Someone
<1>2. QED
  BY <1>1 DEF Calling, Size, Ran

LEMMA PublishStarts ==
  ASSUME PoolIInv, NEW c \in Callers, Publish(c)
  PROVE  Calling = {} /\ Calling' = {c} /\ Size' \in 2..MaxThreads /\ Ran' = {}
<1>1. /\ \A d \in Callers : ~Handed(d)
      /\ asked \in 2..MaxThreads
  BY BeforePublish DEF Publish
<1>2. PoolIInv' /\ Handed(c)' /\ job'.threads = asked /\ job'.generation = job.generation + 1
  BY PublishStep DEF Publish, Handed, PoolIInv, PoolTypeOK
<1>3. Calling' = {c} /\ Someone'
  BY <1>1, <1>2 DEF Calling, Someone, Handed, Publish, PoolIInv, PoolTypeOK
<1>4. \A d \in Callers : caller'[d] # "finishing"
  BY <1>1 DEF Handed, Publish, PoolIInv, PoolTypeOK
<1>5. \A i \in 1..(job'.threads - 1) : ~HasRun(i)'
  <2>1. 1..(job'.threads - 1) \subseteq Indices
    BY <1>1, <1>2, PoolAssumption DEF Indices
  <2>2. \A i \in Indices : seen'[i] # job'.generation
    BY <1>2 DEF PoolIInv, PoolTypeOK, Counted, Publish
  <2>3. QED
    BY <2>1, <2>2 DEF HasRun
<1>6. Ran' = {}
  BY <1>3, <1>4, <1>5 DEF Ran
<1>7. QED
  BY <1>1, <1>2, <1>3, <1>6 DEF Calling, Size

LEMMA OwnWorkRuns ==
  ASSUME PoolIInv, NEW c \in Callers, OwnWork(c)
  PROVE  /\ Calling' = Calling /\ Calling # {} /\ Size' = Size
         /\ 0 \in 0..(Size - 1) /\ 0 \notin Ran /\ Ran' = Ran \union {0}
<1> USE DEF OwnWork
<1>1. Handed(c)
  BY DEF Handed
<1>2. /\ Calling = {c} /\ Someone /\ holder = c /\ job.threads \in 2..MaxThreads
  BY <1>1, OneCall
<1>3. \A d \in Callers : caller[d] # "finishing"
  BY <1>2, PoolAssumption DEF PoolIInv, OneHolder
<1>4. \A d \in Callers : Handed(d)' <=> Handed(d)
  BY DEF Handed, PoolIInv, PoolTypeOK
<1>5. caller'[c] = "finishing"
  BY DEF PoolIInv, PoolTypeOK
<1>6. Someone' /\ Calling' = Calling
  BY <1>2, <1>4 DEF Someone, Calling
<1>7. \A i \in 1..(job.threads - 1) : HasRun(i)' <=> HasRun(i)
  BY DEF HasRun
<1>8. Ran' = Ran \union {0}
  BY <1>2, <1>3, <1>5, <1>6, <1>7 DEF Ran
<1>9. QED
  BY <1>2, <1>3, <1>6, <1>8 DEF Ran, Size

LEMMA FinishReturns ==
  ASSUME PoolIInv, NEW c \in Callers, Finish(c)
  PROVE  Calling = {c} /\ Ran = 0..(Size - 1) /\ Calling' = {} /\ Size' = 0 /\ Ran' = {}
<1>1. Calling = {c} /\ Someone /\ holder = c /\ job.threads \in 2..MaxThreads
  BY OneCall DEF Finish, Handed
<1>2. \A i \in 1..(job.threads - 1) : HasRun(i)
  BY NothingOwed DEF Finish
<1>3. Ran = 0..(Size - 1)
  BY <1>1, <1>2 DEF Ran, Size, Finish
<1>4. \A d \in Callers : ~Handed(d)'
  BY <1>1 DEF PoolIInv, PoolTypeOK, OneHolder, Handed, Finish
<1>5. QED
  BY <1>1, <1>3, <1>4 DEF Calling, Size, Ran, Someone

LEMMA ReportRuns ==
  ASSUME PoolIInv, NEW i \in Indices, Report(i)
  PROVE  /\ Calling' = Calling /\ Calling # {} /\ Size' = Size
         /\ i \in 0..(Size - 1) /\ i \notin Ran /\ Ran' = Ran \union {i}
<1> USE DEF Report
<1>1. i \in Owing /\ Owing' = Owing \ {i}
  BY ReportCounts
<1>2. job'.threads = job.threads
  BY DEF PoolIInv, PoolTypeOK
<1>3. job.work \in Callers /\ Handed(job.work)
  BY DEF PoolIInv, PoolTypeOK, Running, JobOfCaller
<1>4. Calling # {} /\ Someone /\ job.threads \in 2..MaxThreads
  BY <1>3, OneCall
<1>5. Calling' = Calling /\ Someone' /\ Size' = Size
  BY <1>2, <1>4 DEF Calling, Someone, Size, Handed
<1>6. \A j \in 1..(job.threads - 1) : HasRun(j)' <=> HasRun(j) \/ j = i
  BY <1>1, <1>2 DEF Owing
<1>7. i \in 1..(job.threads - 1) /\ ~HasRun(i)
  BY <1>1 DEF Owing
<1>8. Ran' = Ran \union {i}
  BY <1>2, <1>4, <1>5, <1>6, <1>7 DEF Ran
<1>9. i \in 0..(Size - 1) /\ i \notin Ran
  BY <1>4, <1>7 DEF Ran, Size
<1>10. QED
  BY <1>4, <1>5, <1>8, <1>9

LEMMA QuietSteps ==
  ASSUME PoolIInv,
         \/ \E c \in Callers : Enter(c) \/ Spawn(c) \/ AwaitWorkers(c) \/ Leave(c)
         \/ \E i \in Indices : Park(i) \/ TakeWork(i)
         \/ UNCHANGED poolVars
  PROVE  Calling' = Calling /\ Size' = Size /\ Ran' = Ran
<1>1. ASSUME NEW c \in Callers, Enter(c) \/ AwaitWorkers(c) \/ Leave(c)
      PROVE  Calling' = Calling /\ Size' = Size /\ Ran' = Ran
  BY <1>1, Stutter DEF Enter, AwaitWorkers, Leave, Handed, HasRun, PoolIInv, PoolTypeOK
<1>2. ASSUME NEW c \in Callers, Spawn(c)
      PROVE  Calling' = Calling /\ Size' = Size /\ Ran' = Ran
  <2>1. \A i \in 1..(job.threads - 1) : HasRun(i)' <=> HasRun(i)
    BY <1>2 DEF Spawn, HasRun, PoolIInv, PoolTypeOK, JobOfCaller
  <2>2. QED
    BY <1>2, <2>1, Stutter DEF Spawn, Handed
<1>3. ASSUME NEW i \in Indices, Park(i)
      PROVE  Calling' = Calling /\ Size' = Size /\ Ran' = Ran
  <2>1. \A j \in 1..(job.threads - 1) : HasRun(j)' <=> HasRun(j)
    <3>1. 1..(job.threads - 1) \subseteq Indices
      BY PoolAssumption DEF PoolIInv, PoolTypeOK, Indices
    <3>2. QED
      BY <1>3, <3>1 DEF Park, HasRun, PoolIInv, PoolTypeOK
  <2>2. QED
    BY <1>3, <2>1, Stutter DEF Park, Handed
<1>4. ASSUME NEW i \in Indices, TakeWork(i)
      PROVE  Calling' = Calling /\ Size' = Size /\ Ran' = Ran
  <2>1. \A j \in 1..(job.threads - 1) : HasRun(j)' <=> HasRun(j)
    BY <1>4, TakingIsNotRunning
  <2>2. QED
    BY <1>4, <2>1, Stutter DEF TakeWork, Handed
<1>5. CASE UNCHANGED poolVars
  BY <1>5, Stutter DEF poolVars, Handed, HasRun
<1>6. QED
  BY <1>1, <1>2, <1>3, <1>4, <1>5

\* A call runs its work once on each of its threads, one call at a time, and
\* ends after them: every step of the pool is one of on_threads, or none.
THEOREM PoolImplementsOnThreads == PoolSpec => PoolKeepsPromise
<1>1. PoolInit => Calls!Init
  BY DEF PoolInit, Calls!Init, Handed
<1>2. ASSUME PoolIInv, [PoolNext]_poolVars
      PROVE  [Calls!Next]_(Calls!vars)
  <2> DEFINE Same == Calling' = Calling /\ Size' = Size /\ Ran' = Ran
  <2>1. Same => UNCHANGED Calls!vars
    BY DEF Calls!vars, Calling, Size, Ran, Someone
  <2>2. ASSUME NEW c \in Callers, CallerStep(c) PROVE Calls!Next \/ Same
    <3>1. CASE Publish(c)
      <4>1. Calls!Start(c)
        BY <3>1, <1>2, PublishStarts DEF Calls!Start, Calling, Size, Ran, Someone
      <4>2. QED
        BY <4>1 DEF Calls!Next
    <3>2. CASE OwnWork(c)
      <4>1. Calls!Run(0)
        BY <3>2, <1>2, OwnWorkRuns DEF Calls!Run, Calling, Size, Ran, Someone
      <4>2. 0 \in 0..(MaxThreads - 1)
        BY PoolAssumption
      <4>3. QED
        BY <4>1, <4>2 DEF Calls!Next
    <3>3. CASE Finish(c)
      <4>1. Calls!Return(c)
        BY <3>3, <1>2, FinishReturns DEF Calls!Return, Calling, Size, Ran, Someone
      <4>2. QED
        BY <4>1 DEF Calls!Next
    <3>4. QED
      BY <2>2, <3>1, <3>2, <3>3, <1>2, QuietSteps DEF CallerStep
  <2>3. ASSUME NEW i \in Indices, WorkerStep(i) PROVE Calls!Next \/ Same
    <3>1. CASE Report(i)
      <4>1. Calls!Run(i)
        BY <3>1, <1>2, ReportRuns DEF Calls!Run, Calling, Size, Ran, Someone
      <4>2. i \in 0..(MaxThreads - 1)
        BY PoolAssumption DEF Indices
      <4>3. QED
        BY <4>1, <4>2 DEF Calls!Next
    <3>2. QED
      BY <2>3, <3>1, <1>2, QuietSteps DEF WorkerStep
  <2>4. CASE UNCHANGED poolVars
    BY <2>4, <2>1, <1>2, QuietSteps
  <2>5. QED
    BY <1>2, <2>1, <2>2, <2>3, <2>4 DEF PoolNext, PoolIdle
<1>3. QED
  BY <1>1, <1>2, PoolInvariant, PTL DEF PoolSpec, PoolKeepsPromise, Calls!Spec

----------------------------------------------------------------------------
(***************************************************************************)
(* The sweep                                                               *)
(***************************************************************************)

Labels == {"look", "claim", "held", "row", "release", "round", "done"}

SweepTypeOK ==
  /\ progress \in [Chunk -> 0..Height]
  /\ claimed \in [Chunk -> BOOLEAN]
  /\ pc \in [Thread -> Labels]
  /\ offset \in [Thread -> Chunk]
  /\ row \in [Thread -> 0..Height]
  /\ first \in [Thread -> 0..Height]
  /\ progressed \in [Thread -> BOOLEAN]
  /\ states \in [Chunk -> [0..1 -> Int]]
  /\ visits \in [Chunk -> [Row -> Nat]]

Holds(t) == pc[t] \in {"held", "row", "release"}

Claims ==
  \A t \in Thread : Holds(t) =>
    /\ claimed[At(t)]
    /\ progress[At(t)] = row[t]
    /\ \A u \in Thread \ {t} : Holds(u) => At(u) # At(t)

Close == \A c \in Chunk : \A b \in Beside(c) : progress[c] <= progress[b] + 1

InTurn == \A t \in Thread : InRow(t) => Ready(At(t), row[t])

StatesKept ==
  \A c \in Chunk :
    /\ states[c][1 - (progress[c] % 2)] = progress[c] - 1
    /\ progress[c] > 0 => states[c][progress[c] % 2] = progress[c] - 2

Visited ==
  /\ \A c \in Chunk, r \in Row : visits[c][r] = IF r < progress[c] THEN 1 ELSE 0
  /\ \A t \in Thread : pc[t] = "done" => \A c \in Chunk : progress[c] = Height

SweepIInv == SweepTypeOK /\ Claims /\ Close /\ InTurn /\ StatesKept /\ Visited

----------------------------------------------------------------------------
(* Numbers                                                                 *)

\* A set of natural numbers has a least one.
LEMMA LeastExists ==
  ASSUME NEW S \in SUBSET Nat, S # {}
  PROVE  \E m \in S : \A n \in S : m <= n
<1> DEFINE Less == {pair \in Nat \X Nat : pair[1] < pair[2]}
<1>1. IsWellFoundedOn(Less, Nat)
  BY NatLessThanWellFounded DEF OpToRel
<1>2. PICK m \in S : \A n \in S : <<n, m>> \notin Less
  BY <1>1, WFMin
<1>3. ASSUME NEW n \in S PROVE m <= n
  <2>1. n \in Nat /\ m \in Nat /\ ~(n < m)
    BY <1>2
  <2>2. QED
    BY <2>1
<1>4. QED
  BY <1>3

\* It is what Min says.
LEMMA MinIsLeast ==
  ASSUME NEW S \in SUBSET Nat, S # {}
  PROVE  Min(S) \in S /\ \A n \in S : Min(S) <= n
<1>1. \E m \in S : \A n \in S : m <= n
  BY LeastExists
<1>2. QED
  BY <1>1 DEF Min

LEMMA AtTyped ==
  ASSUME SweepTypeOK, NEW t \in Thread
  PROVE  At(t) \in Chunk
<1>1. (t * ChunkCount) \div Threads \in Int
  BY ChunksAssumption DEF Thread
<1>2. ((t * ChunkCount) \div Threads) + offset[t] \in Int
  BY <1>1, ChunksAssumption DEF SweepTypeOK, Chunk
<1>3. \A n \in Int : n % ChunkCount \in Chunk
  BY ChunksAssumption DEF Chunk
<1>4. QED
  BY <1>2, <1>3 DEF At

LEMMA Parities ==
  ASSUME NEW n \in Nat
  PROVE  /\ n % 2 \in 0..1
         /\ (n + 1) % 2 = 1 - (n % 2)
  OBVIOUS

----------------------------------------------------------------------------
(* The steps that move no chunk's progress                                 *)

\* A thread that holds no chunk goes on to look at another one.
LEMMA NextChunkTyped ==
  ASSUME SweepTypeOK, NEW t \in Thread, NextChunk(t)
  PROVE  /\ offset' \in [Thread -> Chunk] /\ pc' \in [Thread -> Labels]
         /\ pc'[t] \in {"look", "round"}
         /\ \A u \in Thread \ {t} : pc'[u] = pc[u] /\ offset'[u] = offset[u]
<1>1. \A n \in Int : n % ChunkCount \in Chunk
  BY ChunksAssumption DEF Chunk
<1>2. offset[t] \in Int
  BY ChunksAssumption DEF SweepTypeOK, Chunk
<1>3. (offset[t] + 1) % ChunkCount \in Chunk
  BY <1>1, <1>2
<1>4. QED
  BY <1>3 DEF SweepTypeOK, NextChunk, Goto, Labels

\* A step of a thread that ends holding nothing, and moves no chunk's rows,
\* leaves the others theirs.
LEMMA HoldsNothing ==
  ASSUME SweepIInv, NEW t \in Thread, SweepTypeOK',
         UNCHANGED <<progress, states, visits>>, row' = row,
         pc'[t] \in {"look", "claim", "round"},
         \A u \in Thread \ {t} : pc'[u] = pc[u] /\ offset'[u] = offset[u],
         \/ claimed' = claimed
         \/ Holds(t) /\ claimed' = [claimed EXCEPT ![At(t)] = FALSE]
  PROVE  SweepIInv'
<1>1. \A u \in Thread : Holds(u)' => u # t /\ Holds(u) /\ At(u)' = At(u)
  BY DEF Holds, At
<1>2. \A u \in Thread : Holds(u)' => claimed'[At(u)]
  <2>1. SUFFICES ASSUME NEW u \in Thread, Holds(u)' PROVE claimed'[At(u)]
    OBVIOUS
  <2>2. u # t /\ Holds(u) /\ claimed[At(u)]
    BY <1>1, <2>1 DEF SweepIInv, Claims
  <2>3. CASE claimed' = claimed
    BY <2>2, <2>3
  <2>4. CASE Holds(t) /\ claimed' = [claimed EXCEPT ![At(t)] = FALSE]
    <3>1. At(u) # At(t)
      BY <2>2, <2>4 DEF SweepIInv, Claims
    <3>2. QED
      BY <2>2, <2>4, <3>1, AtTyped DEF SweepIInv, SweepTypeOK
  <2>5. QED
    BY <2>3, <2>4
<1>3. Claims'
  BY <1>1, <1>2 DEF SweepIInv, Claims
<1>4. Close' /\ StatesKept'
  BY DEF SweepIInv, Close, StatesKept, Beside
<1>5. InTurn'
  BY <1>1 DEF SweepIInv, InTurn, InRow, Holds, Ready
<1>6. Visited'
  BY DEF SweepIInv, Visited
<1>7. QED
  BY <1>3, <1>4, <1>5, <1>6 DEF SweepIInv

LEMMA LookStep ==
  ASSUME SweepIInv, NEW t \in Thread, Look(t)
  PROVE  SweepIInv'
<1>1. CASE Goto(t, "claim") /\ UNCHANGED offset
  <2>1. /\ SweepTypeOK' /\ pc'[t] = "claim"
        /\ \A u \in Thread \ {t} : pc'[u] = pc[u] /\ offset'[u] = offset[u]
    BY <1>1 DEF SweepIInv, SweepTypeOK, Look, Goto, Labels
  <2>2. QED
    BY <2>1, HoldsNothing DEF Look
<1>2. CASE NextChunk(t)
  <2>1. SweepTypeOK'
    BY <1>2, NextChunkTyped DEF SweepIInv, SweepTypeOK, Look
  <2>2. QED
    BY <1>2, <2>1, NextChunkTyped, HoldsNothing DEF Look, SweepIInv
<1>3. QED
  BY <1>1, <1>2 DEF Look

LEMMA LetGoStep ==
  ASSUME SweepIInv, NEW t \in Thread, LetGo(t)
  PROVE  SweepIInv'
<1>1. SweepTypeOK'
  BY NextChunkTyped, AtTyped DEF SweepIInv, SweepTypeOK, LetGo, Release
<1>2. Holds(t)
  BY DEF LetGo, Release, Holds
<1>3. QED
  BY <1>1, <1>2, NextChunkTyped, HoldsNothing DEF LetGo, Release, SweepIInv

LEMMA ClaimStep ==
  ASSUME SweepIInv, NEW t \in Thread, Claim(t)
  PROVE  SweepIInv'
<1>1. CASE claimed[At(t)]
  <2>1. NextChunk(t) /\ UNCHANGED <<claimed, row, first, progress, progressed, states, visits>>
    BY <1>1 DEF Claim, TryClaim
  <2>2. SweepTypeOK'
    BY <2>1, NextChunkTyped DEF SweepIInv, SweepTypeOK
  <2>3. QED
    BY <2>1, <2>2, NextChunkTyped, HoldsNothing DEF SweepIInv
<1>2. CASE ~claimed[At(t)]
  <2>1. /\ claimed' = [claimed EXCEPT ![At(t)] = TRUE]
        /\ row' = [row EXCEPT ![t] = progress[At(t)]]
        /\ first' = [first EXCEPT ![t] = progress[At(t)]]
        /\ pc' = [pc EXCEPT ![t] = "held"]
        /\ UNCHANGED <<offset, progress, progressed, states, visits>>
    BY <1>2 DEF Claim, TryClaim, Goto
  <2>2. At(t) \in Chunk /\ \A u \in Thread : At(u)' = At(u)
    BY <2>1, AtTyped DEF SweepIInv, At
  <2>3. SweepTypeOK'
    BY <2>1, <2>2 DEF SweepIInv, SweepTypeOK, Labels
  <2>4. \A u \in Thread \ {t} : Holds(u)' => Holds(u) /\ At(u) # At(t) /\ claimed'[At(u)] /\ row'[u] = row[u]
    BY <1>2, <2>1, AtTyped DEF SweepIInv, SweepTypeOK, Claims, Holds
  <2>5. claimed'[At(t)] /\ row'[t] = progress[At(t)]
    BY <2>1, <2>2 DEF SweepIInv, SweepTypeOK
  <2>6. Claims'
    BY <2>1, <2>2, <2>4, <2>5 DEF SweepIInv, Claims
  <2>7. Close' /\ StatesKept'
    BY <2>1 DEF SweepIInv, Close, StatesKept, Beside
  <2>8. InTurn'
    BY <2>1, <2>2 DEF SweepIInv, SweepTypeOK, InTurn, InRow, Ready
  <2>9. Visited'
    BY <2>1 DEF SweepIInv, SweepTypeOK, Visited
  <2>10. QED
    BY <2>3, <2>6, <2>7, <2>8, <2>9 DEF SweepIInv
<1>3. QED
  BY <1>1, <1>2

LEMMA GoOnStep ==
  ASSUME SweepIInv, NEW t \in Thread, GoOn(t)
  PROVE  SweepIInv'
<1>1. PICK label \in {"row", "release"} :
        /\ pc' = [pc EXCEPT ![t] = label]
        /\ label = "row" => Ready(At(t), row[t])
  BY DEF GoOn, Goto
<1>2. \A u \in Thread : At(u)' = At(u)
  BY DEF GoOn, At
<1>3. SweepTypeOK'
  BY <1>1 DEF SweepIInv, SweepTypeOK, GoOn, Labels
<1>4. Claims'
  BY <1>1, <1>2 DEF SweepIInv, SweepTypeOK, Claims, Holds, GoOn
<1>5. Close' /\ StatesKept'
  BY DEF SweepIInv, Close, StatesKept, Beside, GoOn
<1>6. InTurn'
  BY <1>1, <1>2 DEF SweepIInv, SweepTypeOK, InTurn, InRow, Ready, GoOn
<1>7. Visited'
  BY <1>1 DEF SweepIInv, SweepTypeOK, Visited, GoOn
<1>8. QED
  BY <1>3, <1>4, <1>5, <1>6, <1>7 DEF SweepIInv

\* A round ends the loop of a thread once every chunk has all its rows.
LEMMA RoundStep ==
  ASSUME SweepIInv, NEW t \in Thread, Round(t)
  PROVE  SweepIInv'
<1>1. CASE pc' = [pc EXCEPT ![t] = "look"]
  <2>1. /\ SweepTypeOK' /\ pc'[t] = "look"
        /\ \A u \in Thread \ {t} : pc'[u] = pc[u] /\ offset'[u] = offset[u]
    BY <1>1 DEF SweepIInv, SweepTypeOK, Round, EndRound, Labels
  <2>2. QED
    BY <2>1, HoldsNothing DEF Round, EndRound
<1>2. CASE pc' = [pc EXCEPT ![t] = "done"] /\ UNCHANGED progressed /\ MinProgress = Height
  <2>1. \A c \in Chunk : progress[c] = Height
    <3>1. {progress[c] : c \in Chunk} \in SUBSET Nat /\ {progress[c] : c \in Chunk} # {}
      BY ChunksAssumption DEF SweepIInv, SweepTypeOK, Chunk
    <3>2. \A c \in Chunk : Height <= progress[c]
      BY <1>2, <3>1, MinIsLeast DEF MinProgress
    <3>3. \A c \in Chunk : progress[c] \in 0..Height
      BY DEF SweepIInv, SweepTypeOK
    <3>4. QED
      BY <3>2, <3>3, ChunksAssumption
  <2>2. UNCHANGED <<progress, claimed, offset, row, first, states, visits>>
    BY DEF Round, EndRound
  <2>3. \A u \in Thread : At(u)' = At(u) /\ (Holds(u)' => Holds(u)) /\ (InRow(u)' => InRow(u))
    BY <1>2, <2>2 DEF SweepIInv, SweepTypeOK, At, Holds, InRow
  <2>4. SweepTypeOK'
    BY <1>2, <2>2 DEF SweepIInv, SweepTypeOK, Labels
  <2>5. Claims' /\ Close' /\ StatesKept' /\ InTurn'
    BY <2>2, <2>3 DEF SweepIInv, Claims, Close, StatesKept, InTurn, Ready, Beside
  <2>6. Visited'
    BY <1>2, <2>1, <2>2 DEF SweepIInv, Visited
  <2>7. QED
    BY <2>4, <2>5, <2>6 DEF SweepIInv
<1>3. QED
  BY <1>1, <1>2 DEF Round, EndRound, Goto

----------------------------------------------------------------------------
(* A row done                                                              *)

LEMMA EndRowStep ==
  ASSUME SweepIInv, NEW t \in Thread, EndRow(t)
  PROVE  SweepIInv'
<1> DEFINE c == At(t)  r == row[t]
<1>1. /\ c \in Chunk /\ r \in 0..Height /\ r \in Row /\ r \in Nat
      /\ progress[c] = r /\ claimed[c]
      /\ \A b \in Beside(c) : progress[b] >= r
  <2>1. Ready(c, r)
    BY DEF SweepIInv, InTurn, InRow, EndRow
  <2>2. c \in Chunk /\ r \in 0..Height
    BY AtTyped DEF SweepIInv, SweepTypeOK
  <2>3. progress[c] = r /\ claimed[c]
    BY DEF SweepIInv, Claims, Holds, EndRow
  <2>4. QED
    BY <2>1, <2>2, <2>3, ChunksAssumption DEF Ready, Row
<1>2. r % 2 \in 0..1 /\ 1 - (r % 2) \in 0..1 /\ (r + 1) % 2 = 1 - (r % 2)
  BY <1>1, Parities
<1>3. /\ progress' = [progress EXCEPT ![c] = r + 1]
      /\ states' = [states EXCEPT ![c][r % 2] = r]
      /\ visits' = [visits EXCEPT ![c][r] = @ + 1]
      /\ row' = [row EXCEPT ![t] = r + 1]
      /\ pc' = [pc EXCEPT ![t] = "held"]
      /\ UNCHANGED <<claimed, offset, first, progressed>>
  <2>1. row' = [row EXCEPT ![t] = r + 1]
    BY DEF EndRow
  <2>2. QED
    BY <2>1 DEF EndRow, Goto
<1>4. \A u \in Thread : At(u)' = At(u) /\ At(u) \in Chunk
  BY <1>3, AtTyped DEF At, SweepIInv
<1>5. SweepTypeOK'
  <2>1. r + 1 \in 0..Height
    BY <1>1, ChunksAssumption DEF Row
  <2>2. progress' \in [Chunk -> 0..Height] /\ row' \in [Thread -> 0..Height]
    BY <1>1, <1>3, <2>1 DEF SweepIInv, SweepTypeOK
  <2>3. states' \in [Chunk -> [0..1 -> Int]]
    BY <1>1, <1>2, <1>3 DEF SweepIInv, SweepTypeOK
  <2>4. visits' \in [Chunk -> [Row -> Nat]]
    BY <1>1, <1>3 DEF SweepIInv, SweepTypeOK
  <2>5. pc' \in [Thread -> Labels]
    BY <1>3 DEF SweepIInv, SweepTypeOK, Labels
  <2>6. QED
    BY <1>3, <2>2, <2>3, <2>4, <2>5 DEF SweepIInv, SweepTypeOK
<1>6. /\ progress'[c] = r + 1
      /\ \A d \in Chunk : d # c => progress'[d] = progress[d]
      /\ \A d \in Chunk : progress[d] \in Nat /\ progress'[d] \in Nat /\ progress'[d] >= progress[d]
  <2>1. \A d \in Chunk : progress[d] \in 0..Height
    BY DEF SweepIInv, SweepTypeOK
  <2>2. progress'[c] = r + 1 /\ \A d \in Chunk : d # c => progress'[d] = progress[d]
    BY <1>1, <1>3 DEF SweepIInv, SweepTypeOK
  <2>3. QED
    BY <1>1, <2>1, <2>2, ChunksAssumption
<1>7. \A u \in Thread \ {t} : Holds(u)' =>
        Holds(u) /\ At(u) # c /\ row'[u] = row[u] /\ pc'[u] = pc[u]
  <2>1. Holds(t)
    BY DEF Holds, EndRow
  <2>2. QED
    BY <1>3, <2>1 DEF SweepIInv, SweepTypeOK, Claims, Holds
<1>8. Claims'
  <2>1. ASSUME NEW u \in Thread \ {t}, Holds(u)'
        PROVE  claimed'[At(u)] /\ progress'[At(u)] = row'[u] /\ At(u) # c
    BY <1>3, <1>4, <1>6, <1>7, <2>1 DEF SweepIInv, Claims
  <2>2. claimed'[c] /\ progress'[c] = row'[t]
    BY <1>1, <1>3, <1>6 DEF SweepIInv, SweepTypeOK
  <2>3. ASSUME NEW u \in Thread \ {t}, NEW w \in Thread \ {t}, u # w, Holds(u)', Holds(w)'
        PROVE  At(u) # At(w)
    BY <1>7, <2>3 DEF SweepIInv, Claims
  <2>4. QED
    BY <1>4, <2>1, <2>2, <2>3 DEF Claims
<1>9. Close'
  <2>1. SUFFICES ASSUME NEW d \in Chunk, NEW b \in Beside(d)
                 PROVE  progress'[d] <= progress'[b] + 1
    BY DEF Close, Beside
  <2>2. b \in Chunk /\ progress[d] <= progress[b] + 1
    BY DEF SweepIInv, Close, Beside
  <2>3. CASE d = c
    BY <1>1, <1>6, <2>2, <2>3
  <2>4. CASE d # c
    BY <1>6, <2>2, <2>4
  <2>5. QED
    BY <2>3, <2>4
<1>10. InTurn'
  <2>1. SUFFICES ASSUME NEW u \in Thread, InRow(u)' PROVE Ready(At(u), row[u])' /\ u # t
    BY <1>4 DEF InTurn
  <2>2. u # t /\ InRow(u)
    BY <1>3, <2>1 DEF SweepIInv, SweepTypeOK, InRow
  <2>3. Ready(At(u), row[u]) /\ row'[u] = row[u] /\ row[u] \in Nat
    BY <1>3, <2>2, ChunksAssumption DEF SweepIInv, SweepTypeOK, InTurn
  <2>4. \A b \in Beside(At(u)) : b \in Chunk /\ progress'[b] >= progress[b]
                                 /\ progress'[b] \in Nat /\ progress[b] \in Nat
    BY <1>6 DEF Beside
  <2>5. \A b \in Beside(At(u)) : progress'[b] >= row[u]
    BY <2>3, <2>4 DEF Ready
  <2>6. QED
    BY <1>4, <2>2, <2>3, <2>5 DEF Ready, Beside
<1>11. StatesKept'
  <2>1. ASSUME NEW d \in Chunk, d # c
        PROVE  states'[d] = states[d] /\ progress'[d] = progress[d]
    BY <1>3, <1>6, <2>1 DEF SweepIInv, SweepTypeOK
  <2>2. states'[c][r % 2] = r /\ states'[c][1 - (r % 2)] = states[c][1 - (r % 2)]
    <3>1. states[c] \in [0..1 -> Int] /\ states'[c] = [states[c] EXCEPT ![r % 2] = r]
      BY <1>1, <1>3 DEF SweepIInv, SweepTypeOK
    <3>2. r % 2 # 1 - (r % 2)
      BY <1>2
    <3>3. QED
      BY <1>2, <3>1, <3>2
  <2>3. states[c][1 - (r % 2)] = r - 1
    BY <1>1 DEF SweepIInv, StatesKept
  <2>4. 1 - ((r + 1) % 2) = r % 2 /\ (r + 1) - 1 = r /\ (r + 1) - 2 = r - 1
    <3> HIDE DEF r
    <3>1. r % 2 \in Int /\ r \in Int
      BY <1>1, <1>2
    <3>2. QED
      BY <1>2, <3>1
  <2>5. /\ states'[c][1 - (progress'[c] % 2)] = progress'[c] - 1
        /\ states'[c][progress'[c] % 2] = progress'[c] - 2
    BY <1>2, <1>6, <2>2, <2>3, <2>4
  <2>6. QED
    BY <2>1, <2>5 DEF SweepIInv, StatesKept
<1>12. Visited'
  <2>1. \A u \in Thread : pc'[u] # "done"
    <3>1. progress[c] # Height
      BY <1>1, ChunksAssumption DEF Row
    <3>2. \A u \in Thread : pc[u] # "done"
      BY <1>1, <3>1 DEF SweepIInv, Visited
    <3>3. QED
      BY <1>3, <3>2 DEF SweepIInv, SweepTypeOK
  <2>2. ASSUME NEW d \in Chunk, NEW k \in Row
        PROVE  visits'[d][k] = IF k < progress'[d] THEN 1 ELSE 0
    <3>1. visits[d][k] = IF k < progress[d] THEN 1 ELSE 0
      BY DEF SweepIInv, Visited
    <3>2. CASE d # c
      BY <1>3, <1>6, <3>1, <3>2 DEF SweepIInv, SweepTypeOK
    <3>3. CASE d = c /\ k # r
      <4>1. visits'[d][k] = visits[d][k]
        BY <1>1, <1>3, <3>3 DEF SweepIInv, SweepTypeOK
      <4>2. (k < r + 1) <=> (k < r)
        BY <1>1, <3>3, ChunksAssumption DEF Row
      <4>3. QED
        BY <1>1, <1>6, <3>1, <3>3, <4>1, <4>2
    <3>4. CASE d = c /\ k = r
      <4>1. visits'[d][k] = visits[d][k] + 1
        BY <1>1, <1>3, <3>4 DEF SweepIInv, SweepTypeOK
      <4>2. visits[d][k] = 0 /\ k < progress'[d]
        BY <1>1, <1>6, <3>1, <3>4
      <4>3. QED
        BY <4>1, <4>2
    <3>5. QED
      BY <3>2, <3>3, <3>4
  <2>3. QED
    BY <2>1, <2>2 DEF Visited
<1>13. QED
  BY <1>5, <1>8, <1>9, <1>10, <1>11, <1>12 DEF SweepIInv

----------------------------------------------------------------------------

LEMMA SweepStart ==
  ASSUME SweepInit
  PROVE  SweepIInv
<1> USE DEF SweepInit, ChunksInit
<1>1. SweepTypeOK
  <2>1. 0 \in 0..Height /\ 0 \in Chunk /\ NoRow \in Int
    BY ChunksAssumption DEF Chunk, NoRow
  <2>2. QED
    BY <2>1 DEF SweepTypeOK, Labels
<1>2. Claims /\ InTurn
  BY DEF Claims, InTurn, Holds, InRow
<1>3. Close
  BY DEF Close, Beside
<1>4. StatesKept
  BY DEF StatesKept, NoRow
<1>5. Visited
  BY DEF Visited, Row
<1>6. QED
  BY <1>1, <1>2, <1>3, <1>4, <1>5 DEF SweepIInv

LEMMA SweepKeeps ==
  ASSUME SweepIInv, [SweepNext]_sweepVars
  PROVE  SweepIInv'
<1>1. ASSUME NEW t \in Thread, SweepStep(t) PROVE SweepIInv'
  BY <1>1, LookStep, ClaimStep, GoOnStep, EndRowStep, LetGoStep, RoundStep DEF SweepStep
<1>2. CASE UNCHANGED sweepVars
  BY <1>2 DEF sweepVars, SweepIInv, SweepTypeOK, Claims, Close, InTurn, StatesKept, Visited,
              Holds, InRow, Ready, Beside, At
<1>3. QED
  BY <1>1, <1>2 DEF SweepNext, SweepReturned

LEMMA SweepInvariant == SweepSpec => []SweepIInv
<1>1. SweepIInv /\ [SweepNext]_sweepVars => SweepIInv'
  BY SweepKeeps
<1>2. QED
  BY SweepStart, <1>1, PTL DEF SweepSpec

\* The states a row reads are those of the row before, in its own chunk and
\* in those beside it.
LEMMA ReadsRowBefore ==
  ASSUME SweepIInv, NEW t \in Thread, InRow(t), NEW s \in Reads(t)
  PROVE  states[s[1]][s[2]] = row[t] - 1
<1> DEFINE c == At(t)  r == row[t]
<1>1. /\ c \in Chunk /\ r \in Nat /\ progress[c] = r
      /\ \A b \in Beside(c) : b \in Chunk /\ progress[b] \in Nat /\ progress[b] >= r
  BY AtTyped, ChunksAssumption
     DEF SweepIInv, SweepTypeOK, InTurn, Ready, Claims, Holds, InRow, Beside
<1>2. PICK b \in {c} \union Beside(c) : s = <<b, 1 - (r % 2)>>
  BY DEF Reads
<1>3. CASE progress[b] = r
  BY <1>1, <1>2, <1>3 DEF SweepIInv, StatesKept
<1>4. CASE progress[b] # r
  <2>1. b \in Beside(c) /\ c \in Beside(b)
    BY <1>1, <1>2, <1>4 DEF Beside, Chunk
  <2>2. progress[b] = r + 1
    BY <1>1, <1>4, <2>1 DEF SweepIInv, Close
  <2>3. progress[b] % 2 = 1 - (r % 2) /\ progress[b] - 2 = r - 1 /\ progress[b] > 0
    BY <1>1, <2>2, Parities
  <2>4. QED
    BY <1>1, <1>2, <2>1, <2>3 DEF SweepIInv, StatesKept
<1>5. QED
  BY <1>3, <1>4

\* Two threads in a row are in different chunks, and in chunks beside each
\* other they are in the same row.
LEMMA WritesApart ==
  ASSUME SweepIInv, NEW t \in Thread, NEW u \in Thread \ {t}, InRow(t), InRow(u)
  PROVE  Writes(u) \intersect (Reads(t) \union Writes(t)) = {}
<1>1. At(u) # At(t) /\ At(t) \in Chunk /\ At(u) \in Chunk
  BY AtTyped DEF SweepIInv, Claims, Holds, InRow
<1>2. /\ progress[At(t)] = row[t] /\ progress[At(u)] = row[u] /\ row[t] \in Nat /\ row[u] \in Nat
  BY ChunksAssumption DEF SweepIInv, SweepTypeOK, Claims, Holds, InRow
<1>3. CASE At(u) \in Beside(At(t))
  <2>1. At(t) \in Beside(At(u))
    BY <1>1, <1>3 DEF Beside, Chunk
  <2>2. row[u] >= row[t] /\ row[t] >= row[u]
    BY <1>2, <1>3, <2>1 DEF SweepIInv, InTurn, Ready
  <2>3. row[u] = row[t] /\ row[t] % 2 # 1 - (row[t] % 2)
    BY <1>2, <2>2, Parities
  <2>4. QED
    BY <1>1, <2>3 DEF Writes, Reads
<1>4. CASE At(u) \notin Beside(At(t))
  BY <1>1, <1>4 DEF Writes, Reads
<1>5. QED
  BY <1>3, <1>4

\* What a thread of the sweep accesses in a row no other writes meanwhile,
\* and the paths it continues are those of the row before.
THEOREM SweepIsDisjoint == SweepSpec => []SweepDisjoint
<1>1. SweepIInv => SweepDisjoint
  BY ReadsRowBefore, WritesApart DEF SweepDisjoint
<1>2. QED
  BY SweepInvariant, <1>1, PTL

LEMMA SweepInvVisits ==
  ASSUME SweepIInv
  PROVE  SweepVisitsOnce
<1>1. \A c \in Chunk, r \in Row : visits[c][r] <= 1
  BY DEF SweepIInv, Visited
<1>2. ASSUME AllDone PROVE \A c \in Chunk, r \in Row : visits[c][r] = 1
  <2>1. 0 \in Thread
    BY ChunksAssumption DEF Thread
  <2>2. \A c \in Chunk : progress[c] = Height
    BY <1>2, <2>1 DEF SweepIInv, Visited, AllDone
  <2>3. \A r \in Row : r < Height
    BY ChunksAssumption DEF Row
  <2>4. QED
    BY <2>2, <2>3 DEF SweepIInv, Visited
<1>3. QED
  BY <1>1, <1>2 DEF SweepVisitsOnce

\* Each chunk's row is handed to `finish` once, and has been when the sweep
\* returns.
THEOREM SweepIsComplete == SweepSpec => []SweepVisitsOnce
  BY SweepInvariant, SweepInvVisits, PTL

----------------------------------------------------------------------------
(***************************************************************************)
(* The ring of rows                                                        *)
(***************************************************************************)

HasChunk(t) == pc[t] \in {"held", "row", "publish", "release"}

RingLabels == {"look", "claim", "held", "row", "publish", "release", "round",
               "take", "fill", "end", "done"}

RingTypeOK ==
  /\ progress \in [Chunk -> 0..Height]
  /\ claimed \in [Chunk -> BOOLEAN]
  /\ pc \in [Thread -> RingLabels]
  /\ offset \in [Thread -> Chunk]
  /\ row \in [Thread -> 0..Height]
  /\ first \in [Thread -> 0..Height]
  /\ progressed \in [Thread -> BOOLEAN]
  /\ nextRow \in 0..Height
  /\ produced \in [R!Slot -> 0..Height]
  /\ ring \in [R!Slot -> Int]
  /\ states \in [Chunk -> [0..1 -> Int]]
  /\ visits \in [Chunk -> [Row -> Nat]]

\* A chunk is one thread's; its progress is behind the row the thread is at until
\* the rows are published.
RingClaims ==
  \A t \in Thread : HasChunk(t) =>
    /\ claimed[At(t)]
    /\ progress[At(t)] <= row[t]
    /\ pc[t] = "release" => progress[At(t)] = row[t]
    /\ \A u \in Thread \ {t} : HasChunk(u) => At(u) # At(t)

\* The chunk has its first n rows.
UpTo(c, n) ==
  /\ states[c][1 - (n % 2)] = n - 1
  /\ \A r \in Row : visits[c][r] = IF r < n THEN 1 ELSE 0

RowsKept ==
  /\ \A t \in Thread : HasChunk(t) => UpTo(At(t), row[t])
  /\ \A c \in Chunk : ~claimed[c] => UpTo(c, progress[c])
  /\ \A c \in Chunk, r \in Row :
       visits[c][r] <= 1 /\ (r < progress[c] => visits[c][r] = 1)

AllPublished ==
  \A t \in Thread : pc[t] = "done" => \A c \in Chunk : progress[c] = Height

RingInTurn == \A t \in Thread : R!Following(t) => R!RowReady(row[t])

\* A slot holds the row it is published with, which has been taken.
Filled ==
  \A s \in R!Slot : ring[s] = produced[s] - 1 /\ produced[s] <= nextRow

\* No chunk is past the rows taken, and no row is taken more than the ring ahead
\* of the last chunk.
Window ==
  /\ \A c \in Chunk : progress[c] <= nextRow
  /\ \A t \in Thread : HasChunk(t) => row[t] <= nextRow
  /\ \A t \in Thread : pc[t] \in {"take", "fill"} =>
       row[t] < Height /\ \A c \in Chunk : row[t] < progress[c] + RingRows

\* A row being filled is one thread's, is not published and was not passed.
Fills ==
  \A t \in Thread : R!Filling(t) =>
    /\ row[t] < nextRow
    /\ produced[R!SlotOf(row[t])] <= row[t]
    /\ \A c \in Chunk : progress[c] <= row[t]
    /\ \A u \in Thread \ {t} :
         /\ R!Filling(u) => row[u] # row[t]
         /\ HasChunk(u) => row[u] <= row[t]

RingIInv ==
  /\ RingTypeOK /\ RingClaims /\ RowsKept /\ AllPublished
  /\ RingInTurn /\ Filled /\ Window /\ Fills

----------------------------------------------------------------------------

LEMMA SlotTyped ==
  ASSUME NEW r \in Nat
  PROVE  R!SlotOf(r) \in R!Slot
  BY MatcherAssumption DEF R!SlotOf, R!Slot

\* Rows that share a slot are at least the ring's length apart.
LEMMA SlotsApart ==
  ASSUME NEW r \in Nat, NEW q \in Nat, r < q, R!SlotOf(r) = R!SlotOf(q)
  PROVE  q >= r + RingRows
<1> DEFINE K == RingRows
<1>1. K \in Nat /\ K > 0
  BY MatcherAssumption
<1> HIDE DEF K
<1>2. /\ r = K * (r \div K) + (r % K) /\ q = K * (q \div K) + (q % K)
      /\ r \div K \in Int /\ q \div K \in Int /\ r % K \in Int
  BY <1>1
<1>3. r % K = q % K
  BY DEF R!SlotOf, K
<1> DEFINE a == r \div K  b == q \div K  m == r % K
<1>4. r = K * a + m /\ q = K * b + m /\ a \in Int /\ b \in Int /\ m \in Int
  BY <1>2, <1>3
<1> HIDE DEF a, b, m
<1>5. b >= a + 1
  <2>1. SUFFICES ASSUME b <= a PROVE FALSE
    BY <1>4
  <2>2. K * b <= K * a
    BY <1>1, <1>4, <2>1
  <2>3. K * a \in Int /\ K * b \in Int
    BY <1>1, <1>4
  <2>4. QED
    BY <1>4, <2>2, <2>3
<1>6. K * b >= K * (a + 1)
  BY <1>1, <1>4, <1>5
<1>7. K * (a + 1) = K * a + K
  BY <1>1, <1>4
<1>8. K * a \in Int /\ K * b \in Int
  BY <1>1, <1>4
<1>9. QED
  BY <1>1, <1>4, <1>6, <1>7, <1>8 DEF K

\* The chunks of the ring's job are those of the sweep.
LEMMA RingChunks ==
  /\ R!Thread = Thread /\ R!Chunk = Chunk /\ R!Row = Row
  /\ R!MinProgress = MinProgress
  /\ \A t : /\ R!At(t) = At(t)
            /\ R!NextChunk(t) <=> NextChunk(t)
            /\ R!TryClaim(t) <=> TryClaim(t)
            /\ R!Release(t) <=> Release(t)
            /\ R!EndRound(t, "end") <=> EndRound(t, "end")
<1>1. R!Thread = Thread /\ R!Chunk = Chunk /\ R!Row = Row
  BY DEF R!Thread, Thread, R!Chunk, Chunk, R!Row, Row
<1>2. R!MinProgress = MinProgress
  BY <1>1 DEF R!MinProgress, MinProgress, R!Min, Min
<1>3. \A t : R!At(t) = At(t)
  BY DEF R!At, At
<1>4. \A t : R!NextChunk(t) <=> NextChunk(t)
  BY DEF R!NextChunk, NextChunk, R!Goto, Goto
<1>5. ASSUME NEW t PROVE R!TryClaim(t) <=> TryClaim(t)
  BY <1>3, <1>4 DEF R!TryClaim, TryClaim, R!Goto, Goto
<1>6. ASSUME NEW t PROVE R!Release(t) <=> Release(t)
  BY <1>3, <1>4 DEF R!Release, Release
<1>7. ASSUME NEW t PROVE R!EndRound(t, "end") <=> EndRound(t, "end")
  BY <1>2 DEF R!EndRound, EndRound, R!Goto, Goto
<1>8. QED
  BY <1>1, <1>2, <1>3, <1>4, <1>5, <1>6, <1>7

\* The chunk a thread is at is one of the chunks.
LEMMA RingAtTyped ==
  ASSUME RingTypeOK, NEW t \in Thread
  PROVE  At(t) \in Chunk
<1>1. (t * ChunkCount) \div Threads \in Int
  BY ChunksAssumption DEF Thread
<1>2. ((t * ChunkCount) \div Threads) + offset[t] \in Int
  BY <1>1, ChunksAssumption DEF RingTypeOK, Chunk
<1>3. \A n \in Int : n % ChunkCount \in Chunk
  BY ChunksAssumption DEF Chunk
<1>4. QED
  BY <1>2, <1>3 DEF At

LEMMA RingNextChunk ==
  ASSUME RingTypeOK, NEW t \in Thread, NextChunk(t)
  PROVE  /\ offset' \in [Thread -> Chunk] /\ pc' \in [Thread -> RingLabels]
         /\ pc'[t] \in {"look", "round"}
         /\ \A u \in Thread \ {t} : pc'[u] = pc[u] /\ offset'[u] = offset[u]
<1>1. \A n \in Int : n % ChunkCount \in Chunk
  BY ChunksAssumption DEF Chunk
<1>2. offset[t] \in Int
  BY ChunksAssumption DEF RingTypeOK, Chunk
<1>3. (offset[t] + 1) % ChunkCount \in Chunk
  BY <1>1, <1>2
<1>4. QED
  BY <1>3 DEF RingTypeOK, NextChunk, Goto, RingLabels

\* The invariant is about the ring's variables only.
LEMMA RingIdle ==
  ASSUME RingIInv, UNCHANGED <<progress, claimed, pc, offset, row, first, progressed,
                               nextRow, produced, ring, states, visits>>
  PROVE  RingIInv'
  BY DEF RingIInv, RingTypeOK, RingClaims, RowsKept, AllPublished, RingInTurn, Filled, Window,
         Fills, HasChunk, UpTo, At, R!Following, R!Filling, R!RowReady, R!SlotOf

\* A step of a thread that ends without a chunk or a row of the ring, and moves
\* none, leaves the others theirs.
LEMMA LeavesRows ==
  ASSUME RingIInv, NEW t \in Thread, RingTypeOK',
         UNCHANGED <<progress, states, visits, nextRow, produced, ring>>,
         pc'[t] \in {"look", "claim", "round", "take", "end"},
         \A u \in Thread \ {t} : pc'[u] = pc[u] /\ offset'[u] = offset[u] /\ row'[u] = row[u],
         pc'[t] = "take" =>
           row'[t] < Height /\ \A c \in Chunk : row'[t] < progress[c] + RingRows,
         \/ claimed' = claimed
         \/ pc[t] = "release" /\ claimed' = [claimed EXCEPT ![At(t)] = FALSE]
  PROVE  RingIInv'
<1>1. \A u \in Thread : HasChunk(u)' =>
        u # t /\ HasChunk(u) /\ At(u)' = At(u) /\ row'[u] = row[u] /\ pc'[u] = pc[u]
  BY DEF HasChunk, At
<1>2. \A u \in Thread : HasChunk(u)' => claimed'[At(u)]
  <2>1. SUFFICES ASSUME NEW u \in Thread, HasChunk(u)' PROVE claimed'[At(u)]
    OBVIOUS
  <2>2. u # t /\ HasChunk(u) /\ claimed[At(u)]
    BY <1>1, <2>1 DEF RingIInv, RingClaims
  <2>3. CASE claimed' = claimed
    BY <2>2, <2>3
  <2>4. CASE pc[t] = "release" /\ claimed' = [claimed EXCEPT ![At(t)] = FALSE]
    <3>1. At(u) # At(t)
      BY <2>2, <2>4 DEF RingIInv, RingClaims, HasChunk
    <3>2. QED
      BY <2>2, <2>4, <3>1, RingAtTyped DEF RingIInv, RingTypeOK
  <2>5. QED
    BY <2>3, <2>4
<1>3. RingClaims'
  BY <1>1, <1>2 DEF RingIInv, RingClaims
<1>4. \A c \in Chunk : ~claimed'[c] => UpTo(c, progress[c])
  <2>1. SUFFICES ASSUME NEW c \in Chunk, ~claimed'[c] PROVE UpTo(c, progress[c])
    OBVIOUS
  <2>2. CASE ~claimed[c]
    BY <2>2 DEF RingIInv, RowsKept
  <2>3. CASE claimed[c]
    <3>1. pc[t] = "release" /\ At(t) = c
      BY <2>1, <2>3, RingAtTyped DEF RingIInv, RingTypeOK
    <3>2. progress[c] = row[t] /\ UpTo(c, row[t])
      BY <3>1 DEF RingIInv, RingClaims, RowsKept, HasChunk
    <3>3. QED
      BY <3>2
  <2>4. QED
    BY <2>2, <2>3
<1>5. RowsKept'
  BY <1>1, <1>4 DEF RingIInv, RowsKept, UpTo
<1>6. AllPublished'
  BY DEF RingIInv, AllPublished
<1>7. \A u \in Thread : R!Following(u)' => u # t /\ R!Following(u)
  BY DEF R!Following
<1>8. RingInTurn' /\ Filled'
  BY <1>7 DEF RingIInv, RingInTurn, Filled, R!RowReady, R!SlotOf
<1>9. Window'
  BY <1>1 DEF RingIInv, Window
<1>10. \A u \in Thread : R!Filling(u)' => u # t /\ R!Filling(u) /\ row'[u] = row[u]
  BY DEF R!Filling
<1>11. Fills'
  BY <1>1, <1>10 DEF RingIInv, Fills, R!SlotOf
<1>12. QED
  BY <1>3, <1>5, <1>6, <1>8, <1>9, <1>11 DEF RingIInv

\* A look at a chunk moves no row.
LEMMA LookAtStep ==
  ASSUME RingIInv, NEW t \in Thread, R!LookAt(t)
  PROVE  RingIInv'
<1>1. UNCHANGED <<progress, claimed, row, first, progressed, nextRow, produced, ring, states, visits>>
  BY DEF R!LookAt
<1>2. CASE pc' = [pc EXCEPT ![t] = "claim"] /\ UNCHANGED offset
  <2>1. /\ RingTypeOK' /\ pc'[t] = "claim"
        /\ \A u \in Thread \ {t} : pc'[u] = pc[u] /\ offset'[u] = offset[u]
    BY <1>1, <1>2 DEF RingIInv, RingTypeOK, RingLabels
  <2>2. QED
    BY <1>1, <2>1, LeavesRows
<1>3. CASE NextChunk(t)
  <2>1. RingTypeOK'
    BY <1>1, <1>3, RingNextChunk DEF RingIInv, RingTypeOK
  <2>2. QED
    BY <1>1, <1>3, <2>1, RingNextChunk, LeavesRows DEF RingIInv
<1>4. QED
  BY <1>2, <1>3, RingChunks DEF R!LookAt, R!Goto

LEMMA ReleaseChunkStep ==
  ASSUME RingIInv, NEW t \in Thread, R!ReleaseChunk(t)
  PROVE  RingIInv'
<1>1. /\ pc[t] = "release" /\ NextChunk(t)
      /\ claimed' = [claimed EXCEPT ![At(t)] = FALSE]
      /\ progressed' = [progressed EXCEPT ![t] = @ \/ row[t] > first[t]]
      /\ UNCHANGED <<progress, row, first, nextRow, produced, ring, states, visits>>
  BY RingChunks DEF R!ReleaseChunk, Release
<1>2. RingTypeOK'
  BY <1>1, RingNextChunk, RingAtTyped DEF RingIInv, RingTypeOK
<1>3. QED
  BY <1>1, <1>2, RingNextChunk, LeavesRows DEF RingIInv

\* A thread that claims a chunk finds its progress at the rows it has.
LEMMA ClaimChunkStep ==
  ASSUME RingIInv, NEW t \in Thread, R!ClaimChunk(t)
  PROVE  RingIInv'
<1>1. TryClaim(t) /\ UNCHANGED <<nextRow, produced, ring, states, visits>>
  BY RingChunks DEF R!ClaimChunk
<1>2. CASE claimed[At(t)]
  <2>1. NextChunk(t) /\ UNCHANGED <<claimed, row, first, progress, progressed>>
    BY <1>1, <1>2 DEF TryClaim
  <2>2. RingTypeOK'
    BY <1>1, <2>1, RingNextChunk DEF RingIInv, RingTypeOK
  <2>3. QED
    BY <1>1, <2>1, <2>2, RingNextChunk, LeavesRows DEF RingIInv
<1>3. CASE ~claimed[At(t)]
  <2>1. /\ claimed' = [claimed EXCEPT ![At(t)] = TRUE]
        /\ row' = [row EXCEPT ![t] = progress[At(t)]]
        /\ first' = [first EXCEPT ![t] = progress[At(t)]]
        /\ pc' = [pc EXCEPT ![t] = "held"]
        /\ UNCHANGED <<offset, progress, progressed>>
    BY <1>1, <1>3 DEF TryClaim, Goto
  <2>2. At(t) \in Chunk /\ \A u \in Thread : At(u)' = At(u) /\ At(u) \in Chunk
    BY <2>1, RingAtTyped DEF RingIInv, At
  <2>3. RingTypeOK'
    BY <1>1, <2>1, <2>2 DEF RingIInv, RingTypeOK, RingLabels
  <2>4. \A u \in Thread \ {t} : pc'[u] = pc[u] /\ row'[u] = row[u]
                                /\ (HasChunk(u)' <=> HasChunk(u))
    BY <2>1 DEF RingIInv, RingTypeOK, HasChunk
  <2>5. \A u \in Thread \ {t} : HasChunk(u) => At(u) # At(t) /\ claimed'[At(u)]
    BY <1>3, <2>1, <2>2 DEF RingIInv, RingTypeOK, RingClaims
  <2>6. claimed'[At(t)] /\ row'[t] = progress[At(t)] /\ pc'[t] = "held"
    BY <2>1, <2>2 DEF RingIInv, RingTypeOK
  <2>7. RingClaims'
    <3>1. progress[At(t)] <= progress[At(t)]
      BY <2>2, ChunksAssumption DEF RingIInv, RingTypeOK
    <3>2. QED
      BY <2>1, <2>2, <2>4, <2>5, <2>6, <3>1 DEF RingIInv, RingClaims
  <2>8. UpTo(At(t), row'[t])
    BY <1>3, <2>2, <2>6 DEF RingIInv, RowsKept
  <2>9. \A c \in Chunk : ~claimed'[c] => ~claimed[c]
    BY <2>1 DEF RingIInv, RingTypeOK
  <2>10. RowsKept'
    BY <1>1, <2>1, <2>2, <2>4, <2>8, <2>9 DEF RingIInv, RowsKept, UpTo
  <2>11. AllPublished'
    BY <2>1, <2>4, <2>6 DEF RingIInv, AllPublished
  <2>12. RingInTurn' /\ Filled'
    BY <1>1, <2>4, <2>6 DEF RingIInv, RingInTurn, Filled, R!RowReady, R!SlotOf, R!Following
  <2>13. Window'
    BY <1>1, <2>1, <2>2, <2>4, <2>6 DEF RingIInv, Window
  <2>14. Fills'
    BY <1>1, <2>1, <2>2, <2>4, <2>6 DEF RingIInv, Fills, R!Filling, R!SlotOf
  <2>15. QED
    BY <2>3, <2>7, <2>10, <2>11, <2>12, <2>13, <2>14 DEF RingIInv
<1>4. QED
  BY <1>2, <1>3

\* The rows a thread may go on with are in the ring.
LEMMA FollowStep ==
  ASSUME RingIInv, NEW t \in Thread, R!Follow(t)
  PROVE  RingIInv'
<1>1. PICK label \in {"row", "publish"} :
        /\ pc' = [pc EXCEPT ![t] = label]
        /\ label = "row" => R!RowReady(row[t])
  BY DEF R!Follow, R!Goto
<1>2. /\ pc[t] = "held"
      /\ UNCHANGED <<progress, claimed, offset, row, first, progressed,
                     nextRow, produced, ring, states, visits>>
  BY DEF R!Follow
<1>3. \A u \in Thread : At(u)' = At(u)
  BY <1>2 DEF At
<1>4. RingTypeOK'
  BY <1>1, <1>2 DEF RingIInv, RingTypeOK, RingLabels
<1>5. \A u \in Thread : /\ HasChunk(u)' <=> HasChunk(u)
                        /\ pc'[u] = "release" <=> pc[u] = "release"
                        /\ pc'[u] = "done" <=> pc[u] = "done"
                        /\ pc'[u] = "take" <=> pc[u] = "take"
                        /\ pc'[u] = "fill" <=> pc[u] = "fill"
                        /\ u # t => pc'[u] = pc[u]
  BY <1>1, <1>2 DEF RingIInv, RingTypeOK, HasChunk
<1>6. RingClaims'
  BY <1>2, <1>3, <1>5 DEF RingIInv, RingClaims
<1>7. RowsKept' /\ AllPublished'
  BY <1>2, <1>3, <1>5 DEF RingIInv, RowsKept, AllPublished, UpTo
<1>8. RingInTurn'
  BY <1>1, <1>2, <1>5 DEF RingIInv, RingTypeOK, RingInTurn, R!Following, R!RowReady, R!SlotOf
<1>9. Filled' /\ Window'
  BY <1>2, <1>5 DEF RingIInv, Filled, Window
<1>10. Fills'
  BY <1>2, <1>5 DEF RingIInv, Fills, R!Filling, R!SlotOf
<1>11. QED
  BY <1>4, <1>6, <1>7, <1>8, <1>9, <1>10 DEF RingIInv

\* A thread takes a row only when it fits in the ring of the last chunk.
LEMMA WantRowStep ==
  ASSUME RingIInv, NEW t \in Thread, R!WantRow(t)
  PROVE  RingIInv'
<1>1. PICK label \in {"take", "end"} :
        /\ pc' = [pc EXCEPT ![t] = label]
        /\ label = "take" => nextRow < Height /\ nextRow < MinProgress + RingRows
  BY RingChunks DEF R!WantRow, R!Goto
<1>2. /\ row' = [row EXCEPT ![t] = nextRow]
      /\ UNCHANGED <<progress, claimed, offset, first, progressed,
                     nextRow, produced, ring, states, visits>>
  BY DEF R!WantRow
<1>3. RingTypeOK'
  BY <1>1, <1>2 DEF RingIInv, RingTypeOK, RingLabels
<1>4. /\ pc'[t] = label /\ row'[t] = nextRow
      /\ \A u \in Thread \ {t} : pc'[u] = pc[u] /\ row'[u] = row[u]
  BY <1>1, <1>2 DEF RingIInv, RingTypeOK
<1>5. \A c \in Chunk : MinProgress <= progress[c] /\ MinProgress \in Nat /\ progress[c] \in Nat
  <2>1. {progress[c] : c \in Chunk} \in SUBSET Nat /\ {progress[c] : c \in Chunk} # {}
    BY ChunksAssumption DEF RingIInv, RingTypeOK, Chunk
  <2>2. QED
    BY <2>1, MinIsLeast DEF MinProgress
<1>6. label = "take" => nextRow < Height /\ \A c \in Chunk : nextRow < progress[c] + RingRows
  BY <1>1, <1>5, MatcherAssumption DEF RingIInv, RingTypeOK
<1>7. QED
  BY <1>2, <1>3, <1>4, <1>6, LeavesRows

\* The row is taken if nobody else has taken it since.
LEMMA TakeRowStep ==
  ASSUME RingIInv, NEW t \in Thread, R!TakeRow(t)
  PROVE  RingIInv'
<1>1. /\ pc[t] = "take"
      /\ UNCHANGED <<progress, claimed, offset, row, first, progressed, produced, ring, states, visits>>
  BY DEF R!TakeRow
<1>2. CASE nextRow # row[t]
  <2>1. pc' = [pc EXCEPT ![t] = "end"] /\ nextRow' = nextRow
    BY <1>2 DEF R!TakeRow, R!Goto
  <2>2. RingTypeOK'
    BY <1>1, <2>1 DEF RingIInv, RingTypeOK, RingLabels
  <2>3. pc'[t] = "end" /\ \A u \in Thread \ {t} : pc'[u] = pc[u]
    BY <2>1 DEF RingIInv, RingTypeOK
  <2>4. QED
    BY <1>1, <2>1, <2>2, <2>3, LeavesRows
<1>3. CASE nextRow = row[t]
  <2>1. pc' = [pc EXCEPT ![t] = "fill"] /\ nextRow' = nextRow + 1
    BY <1>3 DEF R!TakeRow, R!Goto
  <2>2. /\ pc'[t] = "fill" /\ \A u \in Thread \ {t} : pc'[u] = pc[u]
        /\ \A u \in Thread : /\ HasChunk(u)' <=> HasChunk(u)
                             /\ HasChunk(u) => u # t
                             /\ At(u)' = At(u)
    BY <1>1, <2>1 DEF RingIInv, RingTypeOK, HasChunk, At
  <2>3. /\ nextRow \in Nat /\ nextRow < Height
        /\ \A c \in Chunk : progress[c] \in Nat /\ progress[c] <= nextRow
        /\ \A u \in Thread : row[u] \in Nat
        /\ \A s \in R!Slot : produced[s] \in Nat /\ produced[s] <= nextRow
    BY <1>1, <1>3, ChunksAssumption DEF RingIInv, RingTypeOK, Window, Filled
  <2>4. RingTypeOK'
    <3>1. nextRow + 1 \in 0..Height
      BY <2>3, ChunksAssumption
    <3>2. QED
      BY <1>1, <2>1, <3>1 DEF RingIInv, RingTypeOK, RingLabels
  <2>5. RingClaims' /\ RowsKept' /\ AllPublished'
    BY <1>1, <2>2 DEF RingIInv, RingClaims, RowsKept, AllPublished, UpTo
  <2>6. RingInTurn'
    BY <1>1, <2>2 DEF RingIInv, RingInTurn, R!Following, R!RowReady, R!SlotOf
  <2>7. Filled'
    BY <1>1, <2>1, <2>3 DEF RingIInv, Filled
  <2>8. Window'
    <3>1. \A c \in Chunk : progress'[c] <= nextRow'
      BY <1>1, <2>1, <2>3
    <3>2. \A u \in Thread : HasChunk(u)' => row'[u] <= nextRow'
      BY <1>1, <2>1, <2>2, <2>3 DEF RingIInv, Window
    <3>3. \A u \in Thread : pc'[u] \in {"take", "fill"} =>
            row'[u] < Height /\ \A c \in Chunk : row'[u] < progress'[c] + RingRows
      BY <1>1, <2>2 DEF RingIInv, Window
    <3>4. QED
      BY <3>1, <3>2, <3>3 DEF Window
  <2>9. Fills'
    <3>1. SUFFICES ASSUME NEW u \in Thread, R!Filling(u)'
                   PROVE  /\ row[u] < nextRow + 1
                          /\ produced[R!SlotOf(row[u])] <= row[u]
                          /\ \A c \in Chunk : progress[c] <= row[u]
                          /\ \A v \in Thread \ {u} :
                               /\ R!Filling(v)' => row[v] # row[u]
                               /\ HasChunk(v) => row[v] <= row[u]
      BY <1>1, <2>1, <2>2 DEF Fills, R!SlotOf
    <3>2. \A v \in Thread : R!Filling(v)' => v = t \/ (v # t /\ R!Filling(v) /\ row[v] < nextRow)
      BY <2>2 DEF RingIInv, Fills, R!Filling
    <3>3. CASE u = t
      <4>1. produced[R!SlotOf(row[u])] <= row[u]
        BY <1>3, <2>3, <3>3, SlotTyped
      <4>2. \A v \in Thread : HasChunk(v) => row[v] <= row[u]
        BY <1>3, <3>3 DEF RingIInv, Window
      <4>3. \A v \in Thread \ {u} : R!Filling(v)' => row[v] # row[u]
        BY <1>3, <2>3, <3>2, <3>3
      <4>4. QED
        BY <1>3, <2>3, <3>3, <4>1, <4>2, <4>3
    <3>4. CASE u # t
      <4>1. R!Filling(u) /\ row[u] < nextRow
        BY <3>1, <3>2, <3>4
      <4>2. \A v \in Thread \ {u} : R!Filling(v)' => row[v] # row[u]
        BY <1>3, <2>3, <3>2, <4>1 DEF RingIInv, Fills
      <4>3. QED
        BY <2>3, <4>1, <4>2 DEF RingIInv, Fills
    <3>5. QED
      BY <3>3, <3>4
  <2>10. QED
    BY <2>4, <2>5, <2>6, <2>7, <2>8, <2>9 DEF RingIInv
<1>4. QED
  BY <1>2, <1>3

\* A thread in a row and one that fills a row are in different slots of the ring,
\* and so are two that fill one.
LEMMA FillsApart ==
  ASSUME RingIInv, NEW u \in Thread, R!Filling(u)
  PROVE  /\ \A t \in Thread : R!Following(t) =>
              R!SlotOf(row[t]) # R!SlotOf(row[u]) /\ row[t] < row[u]
         /\ \A t \in Thread \ {u} : R!Filling(t) => R!SlotOf(row[t]) # R!SlotOf(row[u])
<1>1. /\ \A t \in Thread : row[t] \in Nat
      /\ \A c \in Chunk : progress[c] \in Nat
      /\ \A s \in R!Slot : produced[s] \in Nat
      /\ RingRows \in Nat
  BY ChunksAssumption, MatcherAssumption DEF RingIInv, RingTypeOK
<1>2. /\ produced[R!SlotOf(row[u])] <= row[u] /\ row[u] < nextRow
      /\ \A c \in Chunk : progress[c] <= row[u] /\ row[u] < progress[c] + RingRows
  BY DEF RingIInv, Fills, Window, R!Filling
<1>3. ASSUME NEW t \in Thread, R!Following(t)
      PROVE  R!SlotOf(row[t]) # R!SlotOf(row[u]) /\ row[t] < row[u]
  <2>1. /\ HasChunk(t) /\ t # u /\ At(t) \in Chunk
        /\ progress[At(t)] <= row[t] /\ row[t] <= row[u]
    BY <1>3, RingAtTyped DEF R!Following, R!Filling, HasChunk, RingIInv, RingClaims, Fills
  <2>2. produced[R!SlotOf(row[t])] = row[t] + 1
    BY <1>3 DEF RingIInv, RingInTurn, R!RowReady
  <2>3. row[t] # row[u]
    BY <1>1, <1>2, <2>2
  <2>4. row[t] < row[u] /\ row[u] < row[t] + RingRows
    BY <1>1, <1>2, <2>1, <2>3
  <2>5. QED
    BY <1>1, <2>4, SlotsApart
<1>4. ASSUME NEW t \in Thread \ {u}, R!Filling(t)
      PROVE  R!SlotOf(row[t]) # R!SlotOf(row[u])
  <2>1. row[t] # row[u] /\ 0 \in Chunk
    BY <1>4, ChunksAssumption DEF RingIInv, Fills, Chunk
  <2>2. progress[0] <= row[t] /\ row[t] < progress[0] + RingRows
    BY <1>4, <2>1 DEF RingIInv, Fills, Window, R!Filling
  <2>3. row[t] < row[u] + RingRows /\ row[u] < row[t] + RingRows
    BY <1>1, <1>2, <2>1, <2>2
  <2>4. QED
    BY <1>1, <2>1, <2>3, SlotsApart
<1>5. QED
  BY <1>3, <1>4

\* Two threads in a row are in different chunks, and the states a row goes on from
\* are its own chunk's of the row before.
LEMMA FollowingHolds ==
  ASSUME RingIInv, NEW t \in Thread, R!Following(t)
  PROVE  /\ HasChunk(t) /\ At(t) \in Chunk /\ row[t] \in Row /\ row[t] \in Nat
         /\ row[t] < nextRow
         /\ produced[R!SlotOf(row[t])] = row[t] + 1
         /\ ring[R!SlotOf(row[t])] = row[t]
         /\ states[At(t)][1 - (row[t] % 2)] = row[t] - 1
         /\ \A u \in Thread \ {t} : HasChunk(u) => At(u) # At(t)
<1>1. HasChunk(t) /\ At(t) \in Chunk /\ row[t] \in 0..Height
  BY RingAtTyped DEF R!Following, HasChunk, RingIInv, RingTypeOK
<1>2. row[t] < Height /\ produced[R!SlotOf(row[t])] = row[t] + 1
  BY DEF RingIInv, RingInTurn, R!RowReady
<1>3. row[t] \in Row /\ row[t] \in Nat
  BY <1>1, <1>2, ChunksAssumption DEF Row
<1>4. R!SlotOf(row[t]) \in R!Slot
  BY <1>3, SlotTyped
<1>5. row[t] < nextRow /\ ring[R!SlotOf(row[t])] = row[t]
  BY <1>2, <1>3, <1>4, ChunksAssumption DEF RingIInv, Filled, RingTypeOK
<1>6. states[At(t)][1 - (row[t] % 2)] = row[t] - 1
  BY <1>1 DEF RingIInv, RowsKept, UpTo
<1>7. QED
  BY <1>1, <1>2, <1>3, <1>5, <1>6 DEF RingIInv, RingClaims

\* The chunk has one more row; no other thread's chunk is touched.
LEMMA EndVerticalRowStep ==
  ASSUME RingIInv, NEW t \in Thread, R!EndVerticalRow(t)
  PROVE  RingIInv'
<1> DEFINE c == At(t)  r == row[t]
<1>1. R!Following(t)
  BY DEF R!EndVerticalRow, R!Following
<1>2. /\ HasChunk(t) /\ c \in Chunk /\ r \in Row /\ r \in Nat /\ r < nextRow /\ r < Height
      /\ \A u \in Thread \ {t} : HasChunk(u) => At(u) # c
  BY <1>1, FollowingHolds, ChunksAssumption DEF Row
<1>3. /\ states' = [states EXCEPT ![c][r % 2] = r]
      /\ visits' = [visits EXCEPT ![c][r] = @ + 1]
      /\ row' = [row EXCEPT ![t] = r + 1]
      /\ pc' = [pc EXCEPT ![t] = "held"]
      /\ UNCHANGED <<progress, claimed, offset, first, progressed, nextRow, produced, ring>>
  <2>1. row' = [row EXCEPT ![t] = r + 1]
    BY DEF R!EndVerticalRow
  <2>2. QED
    BY <2>1, RingChunks DEF R!EndVerticalRow, R!Goto
<1>4. r % 2 \in 0..1 /\ 1 - (r % 2) \in 0..1 /\ (r + 1) % 2 = 1 - (r % 2)
  BY <1>2, Parities
<1>5. RingTypeOK'
  <2>1. r + 1 \in 0..Height
    BY <1>2, ChunksAssumption
  <2>2. row' \in [Thread -> 0..Height] /\ pc' \in [Thread -> RingLabels]
    BY <1>3, <2>1 DEF RingIInv, RingTypeOK, RingLabels
  <2>3. states' \in [Chunk -> [0..1 -> Int]]
    BY <1>2, <1>3, <1>4 DEF RingIInv, RingTypeOK
  <2>4. visits' \in [Chunk -> [Row -> Nat]]
    BY <1>2, <1>3 DEF RingIInv, RingTypeOK
  <2>5. QED
    BY <1>3, <2>2, <2>3, <2>4 DEF RingIInv, RingTypeOK
<1>6. /\ pc'[t] = "held" /\ row'[t] = r + 1
      /\ \A u \in Thread \ {t} : pc'[u] = pc[u] /\ row'[u] = row[u]
      /\ \A u \in Thread : /\ At(u)' = At(u) /\ At(u) \in Chunk
                           /\ HasChunk(u)' <=> HasChunk(u)
                           /\ row[u] \in Nat
  BY <1>2, <1>3, RingAtTyped, ChunksAssumption DEF RingIInv, RingTypeOK, HasChunk, At
<1>7. RingClaims'
  <2>1. progress[c] <= r + 1 /\ claimed[c]
    BY <1>2, ChunksAssumption DEF RingIInv, RingClaims, RingTypeOK
  <2>2. QED
    BY <1>2, <1>3, <1>6, <2>1 DEF RingIInv, RingClaims
<1>8. \A d \in Chunk : d # c => states'[d] = states[d] /\ visits'[d] = visits[d]
  BY <1>3 DEF RingIInv, RingTypeOK
<1>9. UpTo(c, r) /\ claimed[c] /\ progress[c] \in Nat /\ progress[c] <= r
  BY <1>2, ChunksAssumption DEF RingIInv, RowsKept, RingClaims, RingTypeOK
<1>10. /\ states'[c][r % 2] = r
       /\ visits'[c][r] = 1
       /\ \A k \in Row : k # r => visits'[c][k] = visits[c][k]
  <2>1. /\ states[c] \in [0..1 -> Int] /\ states'[c] = [states[c] EXCEPT ![r % 2] = r]
        /\ visits[c] \in [Row -> Nat] /\ visits'[c] = [visits[c] EXCEPT ![r] = @ + 1]
    BY <1>2, <1>3 DEF RingIInv, RingTypeOK
  <2>2. visits[c][r] = 0
    BY <1>2, <1>9 DEF UpTo
  <2>3. QED
    BY <1>2, <1>4, <2>1, <2>2
<1>11. /\ states'[c][1 - ((r + 1) % 2)] = (r + 1) - 1
       /\ \A k \in Row : visits'[c][k] = IF k < r + 1 THEN 1 ELSE 0
  <2>1. 1 - ((r + 1) % 2) = r % 2 /\ (r + 1) - 1 = r
    <3> HIDE DEF r
    <3>1. r % 2 \in Int /\ r \in Int
      BY <1>2, <1>4
    <3>2. QED
      BY <1>4, <3>1
  <2>2. ASSUME NEW k \in Row PROVE visits'[c][k] = IF k < r + 1 THEN 1 ELSE 0
    <3>1. CASE k = r
      BY <1>2, <1>10, <3>1
    <3>2. CASE k # r
      <4>1. (k < r + 1) <=> (k < r)
        BY <1>2, <3>2, ChunksAssumption DEF Row
      <4>2. QED
        BY <1>9, <1>10, <3>2, <4>1 DEF UpTo
    <3>3. QED
      BY <3>1, <3>2
  <2>3. QED
    BY <1>10, <2>1, <2>2
<1>12. RowsKept'
  <2>1. ASSUME NEW u \in Thread, HasChunk(u)' PROVE UpTo(At(u), row[u])'
    <3>1. CASE u = t
      BY <1>6, <1>11, <3>1 DEF UpTo
    <3>2. CASE u # t
      <4>1. HasChunk(u) /\ At(u) # c /\ UpTo(At(u), row[u])
        BY <1>2, <1>6, <2>1, <3>2 DEF RingIInv, RowsKept
      <4>2. QED
        BY <1>6, <1>8, <3>2, <4>1 DEF UpTo
    <3>3. QED
      BY <3>1, <3>2
  <2>2. ASSUME NEW d \in Chunk, ~claimed'[d] PROVE UpTo(d, progress[d])'
    <3>1. d # c /\ ~claimed[d] /\ UpTo(d, progress[d])
      BY <1>3, <1>9, <2>2 DEF RingIInv, RowsKept
    <3>2. QED
      BY <1>3, <1>8, <3>1 DEF UpTo
  <2>3. ASSUME NEW d \in Chunk, NEW k \in Row
        PROVE  visits'[d][k] <= 1 /\ (k < progress'[d] => visits'[d][k] = 1)
    <3>1. CASE d # c
      BY <1>3, <1>8, <3>1 DEF RingIInv, RowsKept
    <3>2. CASE d = c
      <4>1. k < progress[c] => k < r + 1
        BY <1>2, <1>9, ChunksAssumption DEF Row
      <4>2. QED
        BY <1>3, <1>11, <3>2, <4>1
    <3>3. QED
      BY <3>1, <3>2
  <2>4. QED
    BY <2>1, <2>2, <2>3 DEF RowsKept
<1>13. AllPublished'
  BY <1>3, <1>6 DEF RingIInv, AllPublished
<1>14. RingInTurn' /\ Filled'
  BY <1>3, <1>6 DEF RingIInv, RingInTurn, Filled, R!Following, R!RowReady, R!SlotOf
<1>15. Window'
  BY <1>2, <1>3, <1>6 DEF RingIInv, RingTypeOK, Window
<1>16. Fills'
  <2>1. SUFFICES ASSUME NEW u \in Thread, R!Filling(u)'
                 PROVE  /\ row'[u] < nextRow'
                        /\ produced'[R!SlotOf(row'[u])] <= row'[u]
                        /\ \A d \in Chunk : progress'[d] <= row'[u]
                        /\ \A v \in Thread \ {u} :
                             /\ R!Filling(v)' => row'[v] # row'[u]
                             /\ HasChunk(v)' => row'[v] <= row'[u]
    BY DEF Fills, R!SlotOf
  <2>2. u # t /\ R!Filling(u) /\ row'[u] = row[u]
    BY <1>6, <2>1 DEF R!Filling
  <2>3. r + 1 <= row[u]
    BY <1>1, <1>6, <2>2, FillsApart
  <2>4. \A v \in Thread \ {u} : HasChunk(v)' => row'[v] <= row[u]
    BY <1>6, <2>2, <2>3 DEF RingIInv, Fills
  <2>5. \A v \in Thread : R!Filling(v)' => R!Filling(v) /\ row'[v] = row[v]
    BY <1>6 DEF R!Filling
  <2>6. QED
    BY <1>3, <2>2, <2>4, <2>5 DEF RingIInv, Fills
<1>17. QED
  BY <1>5, <1>7, <1>12, <1>13, <1>14, <1>15, <1>16 DEF RingIInv

\* The chunk's progress catches up with the rows it has.
LEMMA PublishRowsStep ==
  ASSUME RingIInv, NEW t \in Thread, R!PublishRows(t)
  PROVE  RingIInv'
<1> DEFINE c == At(t)
<1>1. /\ pc[t] = "publish"
      /\ progress' = [progress EXCEPT ![c] = row[t]]
      /\ pc' = [pc EXCEPT ![t] = "release"]
      /\ UNCHANGED <<claimed, offset, row, first, progressed, nextRow, produced, ring, states, visits>>
  BY RingChunks DEF R!PublishRows, R!Goto
<1>2. /\ HasChunk(t) /\ c \in Chunk /\ claimed[c] /\ UpTo(c, row[t])
      /\ progress[c] <= row[t] /\ row[t] <= nextRow
      /\ \A u \in Thread \ {t} : HasChunk(u) => At(u) # c
  BY <1>1, RingAtTyped DEF HasChunk, RingIInv, RingClaims, RowsKept, Window
<1>3. RingTypeOK'
  BY <1>1, <1>2 DEF RingIInv, RingTypeOK, RingLabels
<1>4. /\ progress'[c] = row[t]
      /\ \A d \in Chunk : d # c => progress'[d] = progress[d]
      /\ \A d \in Chunk : /\ progress[d] \in 0..Height /\ progress'[d] \in 0..Height
                         /\ progress'[d] >= progress[d]
  BY <1>1, <1>2, ChunksAssumption DEF RingIInv, RingTypeOK
<1>5. /\ pc'[t] = "release"
      /\ \A u \in Thread \ {t} : pc'[u] = pc[u]
      /\ \A u \in Thread : /\ At(u)' = At(u) /\ At(u) \in Chunk
                           /\ HasChunk(u)' <=> HasChunk(u)
                           /\ row[u] \in Nat
  BY <1>1, RingAtTyped, ChunksAssumption DEF RingIInv, RingTypeOK, HasChunk, At
<1>6. RingClaims'
  <2>1. \A u \in Thread \ {t} : HasChunk(u) => progress'[At(u)] = progress[At(u)]
    BY <1>2, <1>4, <1>5
  <2>2. \A u \in Thread \ {t} : HasChunk(u) =>
           /\ claimed[At(u)]
           /\ progress[At(u)] <= row[u]
           /\ pc[u] = "release" => progress[At(u)] = row[u]
           /\ \A v \in Thread \ {u} : HasChunk(v) => At(v) # At(u)
    BY DEF RingIInv, RingClaims
  <2>3. progress'[c] = row[t] /\ row[t] <= row[t]
    BY <1>4, <1>5
  <2>4. QED
    BY <1>1, <1>2, <1>5, <2>1, <2>2, <2>3 DEF RingClaims
<1>7. RowsKept'
  <2>1. \A u \in Thread : HasChunk(u)' => UpTo(At(u), row[u])'
    BY <1>1, <1>5 DEF RingIInv, RowsKept, UpTo
  <2>2. ASSUME NEW d \in Chunk, ~claimed'[d] PROVE UpTo(d, progress[d])'
    <3>1. d # c /\ UpTo(d, progress[d])
      BY <1>1, <1>2, <2>2 DEF RingIInv, RowsKept
    <3>2. QED
      BY <1>1, <1>4, <3>1 DEF UpTo
  <2>3. ASSUME NEW d \in Chunk, NEW k \in Row
        PROVE  visits[d][k] <= 1 /\ (k < progress'[d] => visits[d][k] = 1)
    <3>1. CASE d = c
      BY <1>2, <1>4, <3>1 DEF RingIInv, RowsKept, UpTo
    <3>2. CASE d # c
      BY <1>4, <3>2 DEF RingIInv, RowsKept
    <3>3. QED
      BY <3>1, <3>2
  <2>4. QED
    BY <1>1, <2>1, <2>2, <2>3 DEF RowsKept
<1>8. AllPublished'
  BY <1>4, <1>5, ChunksAssumption DEF RingIInv, AllPublished
<1>9. RingInTurn' /\ Filled'
  BY <1>1, <1>5 DEF RingIInv, RingInTurn, Filled, R!Following, R!RowReady, R!SlotOf
<1>10. Window'
  <2>1. \A d \in Chunk : progress'[d] <= nextRow
    BY <1>2, <1>4 DEF RingIInv, Window
  <2>2. \A u \in Thread : pc'[u] \in {"take", "fill"} => pc[u] \in {"take", "fill"}
    BY <1>5
  <2>3. \A u \in Thread : pc'[u] \in {"take", "fill"} =>
          row[u] < Height /\ \A d \in Chunk : row[u] < progress'[d] + RingRows
    BY <1>4, <1>5, <2>2, MatcherAssumption DEF RingIInv, Window
  <2>4. QED
    BY <1>1, <1>5, <2>1, <2>3 DEF RingIInv, Window
<1>11. Fills'
  <2>1. \A u \in Thread : R!Filling(u)' => R!Filling(u) /\ u # t
    BY <1>5 DEF R!Filling
  <2>2. ASSUME NEW u \in Thread, R!Filling(u)', NEW d \in Chunk PROVE progress'[d] <= row[u]
    BY <1>2, <1>4, <2>1, <2>2 DEF RingIInv, Fills
  <2>3. QED
    BY <1>1, <1>5, <2>1, <2>2 DEF RingIInv, Fills, R!SlotOf
<1>12. QED
  BY <1>3, <1>6, <1>7, <1>8, <1>9, <1>10, <1>11 DEF RingIInv

\* The row is in its slot before it is published, and nobody follows the slot.
LEMMA FillRowStep ==
  ASSUME RingIInv, NEW t \in Thread, R!FillRow(t)
  PROVE  RingIInv'
<1> DEFINE r == row[t]  s == R!SlotOf(r)
<1>1. /\ pc[t] = "fill"
      /\ ring' = [ring EXCEPT ![s] = r]
      /\ produced' = [produced EXCEPT ![s] = r + 1]
      /\ progressed' = [progressed EXCEPT ![t] = TRUE]
      /\ pc' = [pc EXCEPT ![t] = "end"]
      /\ UNCHANGED <<progress, claimed, offset, row, first, nextRow, states, visits>>
  <2>1. produced' = [produced EXCEPT ![s] = r + 1]
    BY DEF R!FillRow
  <2>2. QED
    BY <2>1 DEF R!FillRow, R!Goto
<1>2. /\ r \in Nat /\ r < Height /\ r < nextRow /\ nextRow \in Nat /\ s \in R!Slot
  BY <1>1, SlotTyped, ChunksAssumption DEF RingIInv, RingTypeOK, Window, Fills, R!Filling
<1>3. RingTypeOK'
  <2>1. r + 1 \in 0..Height /\ r \in Int
    BY <1>2, ChunksAssumption
  <2>2. produced' \in [R!Slot -> 0..Height] /\ ring' \in [R!Slot -> Int]
    BY <1>1, <1>2, <2>1 DEF RingIInv, RingTypeOK
  <2>3. QED
    BY <1>1, <2>2 DEF RingIInv, RingTypeOK, RingLabels
<1>4. /\ pc'[t] = "end"
      /\ \A u \in Thread \ {t} : pc'[u] = pc[u]
      /\ \A u \in Thread : /\ At(u)' = At(u)
                           /\ HasChunk(u)' <=> HasChunk(u)
                           /\ row[u] \in Nat
  BY <1>1, ChunksAssumption DEF RingIInv, RingTypeOK, HasChunk, At
<1>5. RingClaims' /\ RowsKept' /\ AllPublished'
  BY <1>1, <1>4 DEF RingIInv, RingClaims, RowsKept, AllPublished, UpTo
<1>6. /\ produced'[s] = r + 1 /\ ring'[s] = r
      /\ \A z \in R!Slot : z # s => produced'[z] = produced[z] /\ ring'[z] = ring[z]
  BY <1>1, <1>2 DEF RingIInv, RingTypeOK
<1>7. \A u \in Thread : R!SlotOf(row[u]) \in R!Slot
  BY <1>4, SlotTyped
<1>8. RingInTurn'
  <2>1. SUFFICES ASSUME NEW u \in Thread, R!Following(u)' PROVE R!RowReady(row[u])'
    BY <1>1 DEF RingInTurn
  <2>2. R!Following(u) /\ R!RowReady(row[u])
    BY <1>4, <2>1 DEF R!Following, RingIInv, RingInTurn
  <2>3. R!SlotOf(row[u]) # s
    BY <1>1, <2>2, FillsApart DEF R!Filling
  <2>4. QED
    BY <1>1, <1>6, <1>7, <2>2, <2>3 DEF R!RowReady, R!SlotOf
<1>9. Filled'
  BY <1>1, <1>2, <1>6 DEF RingIInv, Filled
<1>10. Window'
  BY <1>1, <1>4 DEF RingIInv, Window
<1>11. Fills'
  <2>1. \A u \in Thread : R!Filling(u)' => R!Filling(u) /\ u # t
    BY <1>4 DEF R!Filling
  <2>2. ASSUME NEW u \in Thread, R!Filling(u)'
        PROVE  produced'[R!SlotOf(row[u])] = produced[R!SlotOf(row[u])]
    <3>1. R!SlotOf(row[u]) # s
      BY <1>1, <2>1, <2>2, FillsApart DEF R!Filling
    <3>2. QED
      BY <1>6, <1>7, <3>1
  <2>3. QED
    BY <1>1, <1>4, <2>1, <2>2 DEF RingIInv, Fills, R!SlotOf
<1>12. QED
  BY <1>3, <1>5, <1>8, <1>9, <1>10, <1>11 DEF RingIInv

\* A pass ends the job when every chunk is at the last row.
LEMMA EndPassStep ==
  ASSUME RingIInv, NEW t \in Thread, R!EndPass(t)
  PROVE  RingIInv'
<1>1. EndRound(t, "end") /\ UNCHANGED <<nextRow, produced, ring, states, visits>>
  BY RingChunks DEF R!EndPass
<1>2. /\ pc[t] = "end"
      /\ UNCHANGED <<progress, claimed, offset, row, first>>
  BY <1>1 DEF EndRound
<1>3. CASE pc' = [pc EXCEPT ![t] = "look"] /\ progressed' = [progressed EXCEPT ![t] = FALSE]
  <2>1. /\ RingTypeOK' /\ pc'[t] = "look"
        /\ \A u \in Thread \ {t} : pc'[u] = pc[u]
    BY <1>1, <1>2, <1>3 DEF RingIInv, RingTypeOK, RingLabels
  <2>2. QED
    BY <1>1, <1>2, <2>1, LeavesRows
<1>4. CASE pc' = [pc EXCEPT ![t] = "done"] /\ UNCHANGED progressed /\ MinProgress = Height
  <2>1. \A c \in Chunk : progress[c] = Height
    <3>1. {progress[c] : c \in Chunk} \in SUBSET Nat /\ {progress[c] : c \in Chunk} # {}
      BY ChunksAssumption DEF RingIInv, RingTypeOK, Chunk
    <3>2. \A c \in Chunk : Height <= progress[c]
      BY <1>4, <3>1, MinIsLeast DEF MinProgress
    <3>3. \A c \in Chunk : progress[c] \in 0..Height
      BY DEF RingIInv, RingTypeOK
    <3>4. QED
      BY <3>2, <3>3, ChunksAssumption
  <2>2. RingTypeOK'
    BY <1>1, <1>2, <1>4 DEF RingIInv, RingTypeOK, RingLabels
  <2>3. /\ pc'[t] = "done" /\ \A u \in Thread \ {t} : pc'[u] = pc[u]
        /\ \A u \in Thread : At(u)' = At(u) /\ (HasChunk(u)' <=> HasChunk(u))
    BY <1>2, <1>4 DEF RingIInv, RingTypeOK, HasChunk, At
  <2>4. RingClaims' /\ RowsKept' /\ AllPublished'
    BY <1>1, <1>2, <2>1, <2>3 DEF RingIInv, RingClaims, RowsKept, AllPublished, UpTo
  <2>5. RingInTurn' /\ Filled' /\ Window'
    BY <1>1, <1>2, <2>3 DEF RingIInv, RingInTurn, Filled, Window, R!Following, R!RowReady, R!SlotOf
  <2>6. Fills'
    BY <1>1, <1>2, <2>3 DEF RingIInv, Fills, R!Filling, R!SlotOf
  <2>7. QED
    BY <2>2, <2>4, <2>5, <2>6 DEF RingIInv
<1>5. QED
  BY <1>1, <1>3, <1>4 DEF EndRound, Goto

LEMMA RingStart ==
  ASSUME R!RingInit
  PROVE  RingIInv
<1>1. /\ progress = [c \in Chunk |-> 0] /\ claimed = [c \in Chunk |-> FALSE]
      /\ pc = [t \in Thread |-> "look"] /\ offset = [t \in Thread |-> 0]
      /\ row = [t \in Thread |-> 0] /\ first = [t \in Thread |-> 0]
      /\ progressed = [t \in Thread |-> FALSE]
      /\ nextRow = 0 /\ produced = [s \in R!Slot |-> 0] /\ ring = [s \in R!Slot |-> -1]
      /\ states = [c \in Chunk |-> [parity \in 0..1 |-> -1]]
      /\ visits = [c \in Chunk |-> [r \in Row |-> 0]]
  BY RingChunks DEF R!RingInit, R!ChunksInit, R!NoRow
<1>2. 0 \in 0..Height /\ 0 \in Chunk /\ -1 \in Int
  BY ChunksAssumption DEF Chunk
<1>3. RingTypeOK
  BY <1>1, <1>2 DEF RingTypeOK, RingLabels
<1>4. RingClaims /\ AllPublished /\ RingInTurn /\ Fills
  BY <1>1 DEF RingClaims, AllPublished, RingInTurn, Fills, HasChunk, R!Following, R!Filling
<1>5. RowsKept
  BY <1>1 DEF RowsKept, HasChunk, UpTo, Row
<1>6. Filled /\ Window
  BY <1>1 DEF Filled, Window, HasChunk
<1>7. QED
  BY <1>3, <1>4, <1>5, <1>6 DEF RingIInv

LEMMA RingStepKeeps ==
  ASSUME RingIInv, R!RingNext
  PROVE  RingIInv'
<1>1. ASSUME NEW t \in Thread, R!RingStep(t) PROVE RingIInv'
  BY <1>1, LookAtStep, ClaimChunkStep, FollowStep, EndVerticalRowStep, PublishRowsStep,
     ReleaseChunkStep, WantRowStep, TakeRowStep, FillRowStep, EndPassStep DEF R!RingStep
<1>2. CASE R!RingReturned
  BY <1>2, RingIdle DEF R!RingReturned, R!ringVars
<1>3. QED
  BY <1>1, <1>2, RingChunks DEF R!RingNext

LEMMA RingInvIsDisjoint ==
  ASSUME RingIInv
  PROVE  R!RingDisjoint
<1>1. ASSUME NEW t \in Thread, R!Following(t)
      PROVE  /\ ring[R!SlotOf(row[t])] = row[t]
             /\ states[R!At(t)][1 - (row[t] % 2)] = row[t] - 1
             /\ \A u \in Thread \ {t} :
                  /\ R!Filling(u) => R!SlotOf(row[u]) # R!SlotOf(row[t])
                  /\ R!Following(u) => R!At(u) # R!At(t)
  BY <1>1, FollowingHolds, FillsApart, RingChunks
<1>2. ASSUME NEW t \in Thread, R!Filling(t), NEW u \in Thread \ {t}, R!Filling(u)
      PROVE  R!SlotOf(row[u]) # R!SlotOf(row[t])
  BY <1>2, FillsApart
<1>3. QED
  BY <1>1, <1>2, RingChunks DEF R!RingDisjoint

LEMMA RingInvVisits ==
  ASSUME RingIInv
  PROVE  R!RingVisitsOnce
<1>1. \A c \in Chunk, r \in Row : visits[c][r] <= 1
  BY DEF RingIInv, RowsKept
<1>2. ASSUME R!AllDone PROVE \A c \in Chunk, r \in Row : visits[c][r] = 1
  <2>1. 0 \in Thread
    BY ChunksAssumption DEF Thread
  <2>2. \A c \in Chunk : progress[c] = Height
    BY <1>2, <2>1, RingChunks DEF RingIInv, AllPublished, R!AllDone
  <2>3. \A r \in Row : r < Height
    BY ChunksAssumption DEF Row
  <2>4. QED
    BY <2>2, <2>3 DEF RingIInv, RowsKept
<1>3. QED
  BY <1>1, <1>2, RingChunks DEF R!RingVisitsOnce

----------------------------------------------------------------------------
(***************************************************************************)
(* The jobs with queues of rows                                            *)
(***************************************************************************)

\* The queue a thread's rows are from.
QueueOf(t) == IF pc[t] = "first" THEN "first" ELSE "median"

RowsTypeOK ==
  /\ jobKind \in {"costs", "check"}
  /\ next \in [Q!Phase -> Nat]
  /\ pc \in [Thread -> {"first", "median", "filtering", "done"}]
  /\ taken \in [Thread -> SUBSET Row]
  /\ done \subseteq Row
  /\ written \in [Q!Phase -> [Row -> Nat]]

InHand(q, r) == \E t \in Thread : QueueOf(t) = q /\ r \in taken[t]

\* A row in hand was handed out, to one thread.
OneHand ==
  \A t \in Thread :
    /\ \A r \in taken[t] : r < next[QueueOf(t)]
    /\ \A u \in Thread \ {t} : QueueOf(t) = QueueOf(u) => taken[t] \intersect taken[u] = {}

\* A row that was handed out is in a hand or written, once.
WrittenOnce ==
  \A q \in Q!Phase, r \in Row :
    written[q][r] = IF r < next[q] /\ ~InHand(q, r) THEN 1 ELSE 0

\* What a phase leaves to the next one.
Phased ==
  /\ \A r \in done : written["first"][r] = 1
  /\ jobKind = "costs" => next["median"] = 0
  /\ \A t \in Thread :
       /\ pc[t] # "first" => next["first"] >= Height
       /\ pc[t] \in {"median", "filtering"} => jobKind = "check"
       /\ pc[t] = "filtering" => taken[t] # {} /\ Q!Neighbours(Q!Min(taken[t])) \subseteq done
       /\ pc[t] = "done" => taken[t] = {} /\ (jobKind = "check" => next["median"] >= Height)

RowsIInv == RowsTypeOK /\ OneHand /\ WrittenOnce /\ Phased

\* The jobs' threads and rows are those of the sweep.
LEMMA RowsOfJobs ==
  /\ Q!Thread = Thread /\ Q!Row = Row /\ Q!Phase = {"first", "median"}
  /\ \A S \in SUBSET Row : S # {} => Q!Min(S) \in S
<1>1. Q!Thread = Thread /\ Q!Row = Row /\ Q!Phase = {"first", "median"}
  BY DEF Q!Thread, Thread, Q!Row, Row, Q!Phase
<1>2. ASSUME NEW S \in SUBSET Row, S # {} PROVE Q!Min(S) \in S
  <2>1. S \in SUBSET Nat
    BY ChunksAssumption DEF Row
  <2>2. Q!Min(S) = Min(S)
    BY DEF Q!Min, Min
  <2>3. QED
    BY <1>2, <2>1, <2>2, MinIsLeast
<1>3. QED
  BY <1>1, <1>2

\* Rows are handed out once: the queue goes past them.
LEMMA TakeStep ==
  ASSUME RowsIInv, NEW t \in Thread, Q!Take(t)
  PROVE  RowsIInv'
<1> DEFINE q == pc[t]  start == next[q]
           more == {r \in Row : start <= r /\ r < start + RowsPerTake}
<1>1. /\ q \in {"first", "median"} /\ taken[t] = {} /\ QueueOf(t) = q
      /\ next' = [next EXCEPT ![q] = start + RowsPerTake]
      /\ taken' = [taken EXCEPT ![t] = more]
      /\ UNCHANGED <<jobKind, done, written>>
  BY RowsOfJobs DEF Q!Take, Q!TakeRows, QueueOf
<1>2. PICK label \in {"first", "median", "done"} :
        /\ pc' = [pc EXCEPT ![t] = label]
        /\ \/ start < Height /\ label = q
           \/ start >= Height /\ q = "first" /\ jobKind = "check" /\ label = "median"
           \/ start >= Height /\ ~(q = "first" /\ jobKind = "check") /\ label = "done"
  <2> DEFINE label == IF start < Height THEN q
                      ELSE IF q = "first" /\ jobKind = "check" THEN "median" ELSE "done"
  <2>1. pc' = [pc EXCEPT ![t] = label]
    BY DEF Q!Take
  <2>2. start \in Nat
    BY <1>1, RowsOfJobs DEF RowsIInv, RowsTypeOK
  <2>3. label \in {"first", "median", "done"}
    BY <1>1
  <2>4. \/ start < Height /\ label = q
        \/ start >= Height /\ q = "first" /\ jobKind = "check" /\ label = "median"
        \/ start >= Height /\ ~(q = "first" /\ jobKind = "check") /\ label = "done"
    BY <2>2, ChunksAssumption
  <2> HIDE DEF label
  <2>5. QED
    BY <2>1, <2>3, <2>4
<1>3. /\ start \in Nat /\ Height \in Nat /\ RowsPerTake \in Nat \ {0}
      /\ Row \subseteq Nat /\ \A r \in Row : r < Height
      /\ more \subseteq Row
      /\ start >= Height => more = {}
  <2>1. start \in Nat
    BY <1>1, RowsOfJobs DEF RowsIInv, RowsTypeOK
  <2>2. Row \subseteq Nat /\ \A r \in Row : r < Height
    BY ChunksAssumption DEF Row
  <2>3. more \subseteq Row
    OBVIOUS
  <2>4. ASSUME start >= Height, NEW r \in more PROVE FALSE
    <3>1. r \in Nat /\ r < Height /\ start <= r
      BY <2>2, <2>4
    <3>2. QED
      BY <2>1, <2>4, <3>1, ChunksAssumption
  <2>5. QED
    BY <2>1, <2>2, <2>3, <2>4, ChunksAssumption, MatcherAssumption
<1>4. /\ pc'[t] = label /\ taken'[t] = more
      /\ \A u \in Thread \ {t} : /\ pc'[u] = pc[u] /\ taken'[u] = taken[u]
                                 /\ QueueOf(u)' = QueueOf(u)
  BY <1>1, <1>2 DEF RowsIInv, RowsTypeOK, QueueOf
<1>5. /\ next'[q] = start + RowsPerTake
      /\ \A p \in Q!Phase : p # q => next'[p] = next[p]
      /\ \A p \in Q!Phase : next[p] \in Nat /\ next'[p] \in Nat /\ next'[p] >= next[p]
  BY <1>1, <1>3, RowsOfJobs DEF RowsIInv, RowsTypeOK
<1>6. /\ QueueOf(t)' = q \/ taken'[t] = {}
      /\ \A u \in Thread : QueueOf(u) \in Q!Phase
  BY <1>1, <1>2, <1>3, <1>4, RowsOfJobs DEF QueueOf
<1>7. RowsTypeOK'
  <2>1. taken' \in [Thread -> SUBSET Row] /\ next' \in [Q!Phase -> Nat]
    BY <1>1, <1>3, RowsOfJobs DEF RowsIInv, RowsTypeOK
  <2>2. QED
    BY <1>1, <1>2, <2>1 DEF RowsIInv, RowsTypeOK
<1>8. \A u \in Thread \ {t} : QueueOf(u) = q => taken[u] \intersect more = {}
  <2>1. SUFFICES ASSUME NEW u \in Thread \ {t}, QueueOf(u) = q, NEW r \in taken[u]
                 PROVE  r \notin more
    OBVIOUS
  <2>2. r < start /\ r \in Nat
    BY <1>3, <2>1 DEF RowsIInv, RowsTypeOK, OneHand
  <2>3. QED
    BY <1>3, <2>2
<1>9. OneHand'
  <2>1. \A u \in Thread : \A r \in taken'[u] : r < next'[QueueOf(u)']
    <3>1. ASSUME NEW u \in Thread, u # t, NEW r \in taken[u] PROVE r < next'[QueueOf(u)]
      <4>1. r < next[QueueOf(u)] /\ r \in Nat /\ QueueOf(u) \in Q!Phase
        BY <1>3, <1>6, <3>1 DEF RowsIInv, RowsTypeOK, OneHand
      <4>2. QED
        BY <1>5, <4>1
    <3>2. ASSUME NEW r \in more PROVE QueueOf(t)' = q /\ r < next'[q]
      BY <1>3, <1>4, <1>5, <1>6
    <3>3. QED
      BY <1>4, <3>1, <3>2
  <2>2. \A u \in Thread : \A v \in Thread \ {u} :
          QueueOf(u)' = QueueOf(v)' => taken'[u] \intersect taken'[v] = {}
    BY <1>4, <1>6, <1>8 DEF RowsIInv, OneHand
  <2>3. QED
    BY <2>1, <2>2 DEF OneHand
<1>10. WrittenOnce'
  <2>1. SUFFICES ASSUME NEW p \in Q!Phase, NEW r \in Row
                 PROVE  (r < next'[p] /\ ~InHand(p, r)') <=> (r < next[p] /\ ~InHand(p, r))
    BY <1>1 DEF RowsIInv, WrittenOnce, InHand, QueueOf
  <2>2. ASSUME NEW u \in Thread, u # t
        PROVE  (QueueOf(u)' = p /\ r \in taken'[u]) <=> (QueueOf(u) = p /\ r \in taken[u])
    BY <1>4, <2>2
  <2>3. ~(QueueOf(t) = p /\ r \in taken[t])
    BY <1>1
  <2>4. (QueueOf(t)' = p /\ r \in taken'[t]) <=> (p = q /\ r \in more)
    BY <1>4, <1>6
  <2>5. InHand(p, r)' <=> InHand(p, r) \/ (p = q /\ r \in more)
    <3>1. InHand(p, r)' <=> \E u \in Thread : QueueOf(u)' = p /\ r \in taken'[u]
      BY DEF InHand
    <3>2. QED
      BY <2>2, <2>3, <2>4, <3>1 DEF InHand
  <2>6. CASE p = q
    <3>1. InHand(q, r) => r < start
      BY DEF RowsIInv, OneHand, InHand
    <3>2. r \in more <=> start <= r /\ r < start + RowsPerTake
      OBVIOUS
    <3>3. r \in Nat
      BY <1>3
    <3>4. QED
      BY <1>3, <1>5, <2>5, <2>6, <3>1, <3>2, <3>3
  <2>7. CASE p # q
    BY <1>5, <2>5, <2>7
  <2>8. QED
    BY <2>6, <2>7
<1>11. Phased'
  <2>1. \A r \in done' : written'["first"][r] = 1
    BY <1>1 DEF RowsIInv, Phased
  <2>2. jobKind' = "costs" => next'["median"] = 0
    BY <1>1, <1>5, RowsOfJobs DEF RowsIInv, Phased
  <2>3. ASSUME NEW u \in Thread, u # t
        PROVE  /\ pc'[u] # "first" => next'["first"] >= Height
               /\ pc'[u] \in {"median", "filtering"} => jobKind' = "check"
               /\ pc'[u] = "filtering" =>
                    taken'[u] # {} /\ Q!Neighbours(Q!Min(taken'[u])) \subseteq done'
               /\ pc'[u] = "done" =>
                    taken'[u] = {} /\ (jobKind' = "check" => next'["median"] >= Height)
    <3>1. /\ next["first"] >= Height => next'["first"] >= Height
          /\ next["median"] >= Height => next'["median"] >= Height
      BY <1>3, <1>5, RowsOfJobs
    <3>2. QED
      BY <1>1, <1>4, <2>3, <3>1 DEF RowsIInv, Phased
  <2>4. /\ pc'[t] # "first" => next'["first"] >= Height
        /\ pc'[t] \in {"median", "filtering"} => jobKind' = "check"
        /\ pc'[t] # "filtering"
        /\ pc'[t] = "done" =>
             taken'[t] = {} /\ (jobKind' = "check" => next'["median"] >= Height)
    <3>1. next'["first"] >= next["first"] /\ next["first"] \in Nat /\ next'["first"] \in Nat
      BY <1>5, RowsOfJobs
    <3>2. q = "median" => jobKind = "check" /\ next["first"] >= Height
      BY <1>1 DEF RowsIInv, Phased
    <3>3. next'[q] >= start /\ next'[q] \in Nat
      BY <1>1, <1>5, RowsOfJobs
    <3>4. label # "first" => next'["first"] >= Height
      BY <1>1, <1>2, <1>3, <3>1, <3>2, <3>3
    <3>5. label = "median" => jobKind = "check"
      BY <1>1, <1>2, <3>2
    <3>6. label = "done" => more = {} /\ (jobKind = "check" => next'["median"] >= Height)
      BY <1>1, <1>2, <1>3, <3>3
    <3>7. QED
      BY <1>1, <1>4, <3>4, <3>5, <3>6
  <2>5. QED
    BY <2>1, <2>2, <2>3, <2>4 DEF Phased, Q!Neighbours
<1>12. QED
  BY <1>7, <1>9, <1>10, <1>11 DEF RowsIInv

\* A thread writes the row it has in hand, and has it no longer.
LEMMA RowWritten ==
  ASSUME RowsIInv, NEW t \in Thread, NEW r \in taken[t],
         next' = next, \A u \in Thread : QueueOf(u)' = QueueOf(u),
         taken'[t] = taken[t] \ {r},
         \A u \in Thread \ {t} : taken'[u] = taken[u],
         written'[QueueOf(t)][r] = written[QueueOf(t)][r] + 1,
         \A p \in Q!Phase, k \in Row :
           ~(p = QueueOf(t) /\ k = r) => written'[p][k] = written[p][k]
  PROVE  OneHand' /\ WrittenOnce' /\ written'[QueueOf(t)][r] = 1
<1> DEFINE q == QueueOf(t)
<1>1. r \in Row /\ q \in Q!Phase
  BY RowsOfJobs DEF RowsIInv, RowsTypeOK, QueueOf
<1>2. OneHand'
  BY DEF RowsIInv, OneHand
<1>3. InHand(q, r) /\ r < next[q]
  BY DEF RowsIInv, OneHand, InHand
<1>4. written[q][r] = 0
  BY <1>1, <1>3 DEF RowsIInv, WrittenOnce
<1>5. ~InHand(q, r)'
  <2>1. \A u \in Thread : QueueOf(u) = q => r \notin taken'[u]
    BY DEF RowsIInv, OneHand
  <2>2. QED
    BY <2>1 DEF InHand
<1>6. \A p \in Q!Phase, k \in Row : ~(p = q /\ k = r) => (InHand(p, k)' <=> InHand(p, k))
  BY DEF InHand
<1>7. written'[q][r] = 1
  BY <1>4
<1>8. WrittenOnce'
  BY <1>3, <1>5, <1>6, <1>7 DEF RowsIInv, WrittenOnce
<1>9. QED
  BY <1>2, <1>7, <1>8

\* A checked row is done once written.
LEMMA FirstRowStep ==
  ASSUME RowsIInv, NEW t \in Thread, Q!FirstRow(t)
  PROVE  RowsIInv'
<1> DEFINE r == Q!Min(taken[t])
<1>1. /\ pc[t] = "first" /\ taken[t] # {} /\ r \in taken[t] /\ r \in Row
      /\ written' = [written EXCEPT !["first"][r] = @ + 1]
      /\ done' = IF jobKind = "check" THEN done \union {r} ELSE done
      /\ taken' = [taken EXCEPT ![t] = @ \ {r}]
      /\ UNCHANGED <<jobKind, next, pc>>
  BY RowsOfJobs DEF Q!FirstRow, RowsIInv, RowsTypeOK
<1>2. QueueOf(t) = "first" /\ "first" \in Q!Phase /\ \A u \in Thread : QueueOf(u)' = QueueOf(u)
  BY <1>1, RowsOfJobs DEF QueueOf
<1>3. RowsTypeOK'
  BY <1>1, RowsOfJobs DEF RowsIInv, RowsTypeOK
<1> HIDE DEF r
<1>4. /\ taken'[t] = taken[t] \ {r} /\ \A u \in Thread \ {t} : taken'[u] = taken[u]
      /\ written'["first"][r] = written["first"][r] + 1
      /\ \A p \in Q!Phase, k \in Row :
           ~(p = "first" /\ k = r) => written'[p][k] = written[p][k]
  BY <1>1, <1>2 DEF RowsIInv, RowsTypeOK
<1>5. OneHand' /\ WrittenOnce' /\ written'["first"][r] = 1
  BY <1>1, <1>2, <1>4, RowWritten
<1>6. Phased'
  <2>1. \A k \in done' : written'["first"][k] = 1
    BY <1>1, <1>2, <1>4, <1>5 DEF RowsIInv, RowsTypeOK, Phased
  <2>2. \A u \in Thread : pc[u] \in {"filtering", "done"} => taken'[u] = taken[u]
    BY <1>1, <1>4
  <2>3. done \subseteq done'
    BY <1>1
  <2>4. QED
    BY <1>1, <2>1, <2>2, <2>3 DEF RowsIInv, Phased, Q!Neighbours
<1>7. QED
  BY <1>3, <1>5, <1>6 DEF RowsIInv

\* The median begins a row when the rows beside it are done.
LEMMA BeginMedianStep ==
  ASSUME RowsIInv, NEW t \in Thread, Q!BeginMedian(t)
  PROVE  RowsIInv'
<1>1. /\ pc[t] = "median" /\ taken[t] # {}
      /\ Q!Neighbours(Q!Min(taken[t])) \subseteq done
      /\ pc' = [pc EXCEPT ![t] = "filtering"]
      /\ UNCHANGED <<jobKind, next, taken, done, written>>
  BY DEF Q!BeginMedian
<1>2. /\ pc'[t] = "filtering" /\ \A u \in Thread \ {t} : pc'[u] = pc[u]
      /\ \A u \in Thread : QueueOf(u)' = QueueOf(u)
  BY <1>1 DEF RowsIInv, RowsTypeOK, QueueOf
<1>3. RowsTypeOK'
  BY <1>1 DEF RowsIInv, RowsTypeOK
<1>4. OneHand' /\ WrittenOnce'
  BY <1>1, <1>2 DEF RowsIInv, OneHand, WrittenOnce, InHand
<1>5. Phased'
  BY <1>1, <1>2 DEF RowsIInv, Phased, Q!Neighbours
<1>6. QED
  BY <1>3, <1>4, <1>5 DEF RowsIInv

LEMMA EndMedianStep ==
  ASSUME RowsIInv, NEW t \in Thread, Q!EndMedian(t)
  PROVE  RowsIInv'
<1> DEFINE r == Q!Min(taken[t])
<1>1. /\ pc[t] = "filtering" /\ taken[t] # {} /\ r \in taken[t] /\ r \in Row
      /\ written' = [written EXCEPT !["median"][r] = @ + 1]
      /\ taken' = [taken EXCEPT ![t] = @ \ {r}]
      /\ pc' = [pc EXCEPT ![t] = "median"]
      /\ UNCHANGED <<jobKind, next, done>>
  BY RowsOfJobs DEF Q!EndMedian, RowsIInv, RowsTypeOK, Phased
<1>2. /\ pc'[t] = "median" /\ \A u \in Thread \ {t} : pc'[u] = pc[u]
      /\ QueueOf(t) = "median" /\ "median" \in Q!Phase /\ "first" \in Q!Phase
      /\ \A u \in Thread : QueueOf(u)' = QueueOf(u)
  BY <1>1, RowsOfJobs DEF RowsIInv, RowsTypeOK, QueueOf
<1>3. RowsTypeOK'
  BY <1>1, RowsOfJobs DEF RowsIInv, RowsTypeOK
<1> HIDE DEF r
<1>4. /\ taken'[t] = taken[t] \ {r} /\ \A u \in Thread \ {t} : taken'[u] = taken[u]
      /\ written'["median"][r] = written["median"][r] + 1
      /\ \A p \in Q!Phase, k \in Row :
           ~(p = "median" /\ k = r) => written'[p][k] = written[p][k]
  BY <1>1, <1>2 DEF RowsIInv, RowsTypeOK
<1>5. OneHand' /\ WrittenOnce'
  BY <1>1, <1>2, <1>4, RowWritten
<1>6. Phased'
  <2>1. \A k \in done' : written'["first"][k] = 1
    BY <1>1, <1>2, <1>4 DEF RowsIInv, RowsTypeOK, Phased
  <2>2. QED
    BY <1>1, <1>2, <1>4, <2>1 DEF RowsIInv, Phased, Q!Neighbours
<1>7. QED
  BY <1>3, <1>5, <1>6 DEF RowsIInv

LEMMA RowsIdle ==
  ASSUME RowsIInv, UNCHANGED <<jobKind, next, pc, taken, done, written>>
  PROVE  RowsIInv'
  BY DEF RowsIInv, RowsTypeOK, OneHand, WrittenOnce, Phased, InHand, QueueOf, Q!Neighbours

LEMMA RowsStart ==
  ASSUME Q!RowsInit
  PROVE  RowsIInv
<1>1. /\ jobKind \in {"costs", "check"} /\ done = {}
      /\ next = [q \in Q!Phase |-> 0]
      /\ pc = [t \in Thread |-> "first"] /\ taken = [t \in Thread |-> {}]
      /\ written = [q \in Q!Phase |-> [r \in Row |-> 0]]
  BY RowsOfJobs DEF Q!RowsInit
<1>2. RowsTypeOK
  BY <1>1 DEF RowsTypeOK
<1>3. OneHand /\ Phased
  BY <1>1, RowsOfJobs DEF OneHand, Phased
<1>4. WrittenOnce
  BY <1>1 DEF WrittenOnce, Row
<1>5. QED
  BY <1>2, <1>3, <1>4 DEF RowsIInv

LEMMA RowsStepKeeps ==
  ASSUME RowsIInv, Q!RowsNext
  PROVE  RowsIInv'
<1>1. ASSUME NEW t \in Thread, Q!RowStep(t) PROVE RowsIInv'
  BY <1>1, TakeStep, FirstRowStep, BeginMedianStep, EndMedianStep DEF Q!RowStep
<1>2. CASE Q!RowsReturned
  BY <1>2, RowsIdle DEF Q!RowsReturned, Q!rowVars
<1>3. QED
  BY <1>1, <1>2, RowsOfJobs DEF Q!RowsNext

\* A row in hand is not written yet, and so not among the rows that are done.
LEMMA RowsInvIsDisjoint ==
  ASSUME RowsIInv
  PROVE  Q!RowsDisjoint
<1>1. ASSUME NEW t \in Thread, NEW u \in Thread \ {t}, (pc[t] = "first") = (pc[u] = "first")
      PROVE  taken[t] \intersect taken[u] = {}
  <2>1. QueueOf(t) = QueueOf(u)
    BY <1>1 DEF QueueOf
  <2>2. QED
    BY <2>1 DEF RowsIInv, OneHand
<1>2. ASSUME NEW t \in Thread, pc[t] = "filtering"
      PROVE  /\ \A r \in Q!Neighbours(Q!Min(taken[t])) : written["first"][r] = 1
             /\ \A u \in Thread : pc[u] = "first" =>
                  taken[u] \intersect Q!Neighbours(Q!Min(taken[t])) = {}
  <2>1. Q!Neighbours(Q!Min(taken[t])) \subseteq done
    BY <1>2 DEF RowsIInv, Phased
  <2>2. \A r \in done : r \in Row /\ written["first"][r] = 1
    BY DEF RowsIInv, RowsTypeOK, Phased
  <2>3. ASSUME NEW u \in Thread, pc[u] = "first", NEW r \in taken[u] PROVE r \notin done
    <3>1. InHand("first", r)
      BY <2>3 DEF InHand, QueueOf
    <3>2. QED
      BY <2>2, <3>1, RowsOfJobs DEF RowsIInv, WrittenOnce
  <2>4. QED
    BY <2>1, <2>2, <2>3
<1>3. QED
  BY <1>1, <1>2, RowsOfJobs DEF Q!RowsDisjoint

LEMMA RowsInvVisits ==
  ASSUME RowsIInv
  PROVE  Q!RowsVisitOnce
<1>1. \A q \in Q!Phase, r \in Row : written[q][r] <= 1
  BY DEF RowsIInv, WrittenOnce
<1>2. ASSUME Q!RowsOver, NEW q \in Q!Phase, NEW r \in Row
      PROVE  written[q][r] = IF q = "median" /\ jobKind = "costs" THEN 0 ELSE 1
  <2>1. 0 \in Thread /\ r \in Nat /\ r < Height /\ Height \in Nat
    BY ChunksAssumption DEF Thread, Row
  <2>2. \A t \in Thread : pc[t] = "done" /\ taken[t] = {}
    BY <1>2, RowsOfJobs DEF Q!RowsOver, RowsIInv, Phased
  <2>3. ~InHand(q, r)
    BY <2>2 DEF InHand
  <2>4. /\ next["first"] >= Height
        /\ jobKind = "check" => next["median"] >= Height
        /\ jobKind = "costs" => next["median"] = 0
        /\ jobKind \in {"costs", "check"}
        /\ next["first"] \in Nat /\ next["median"] \in Nat
    BY <2>1, <2>2, RowsOfJobs DEF RowsIInv, RowsTypeOK, Phased
  <2>5. r < next[q] <=> ~(q = "median" /\ jobKind = "costs")
    BY <2>1, <2>4, RowsOfJobs
  <2>6. QED
    BY <2>3, <2>5 DEF RowsIInv, WrittenOnce
<1>3. QED
  BY <1>1, <1>2, RowsOfJobs DEF Q!RowsVisitOnce

----------------------------------------------------------------------------
(***************************************************************************)
(* The matcher                                                             *)
(***************************************************************************)

\* The pool keeps its invariant whatever the behaviour is about, a job its own.
MatcherIInv ==
  /\ PoolIInv
  /\ part = "sweep" => SweepIInv
  /\ part = "ring" => RingIInv
  /\ part = "rows" => RowsIInv

LEMMA MatcherStart ==
  ASSUME Init
  PROVE  MatcherIInv
<1>1. PoolIInv
  BY PoolStart DEF Init
<1>2. CASE part = "sweep"
  <2>1. SweepInit
    BY <1>2 DEF Init
  <2>2. QED
    BY <1>1, <1>2, <2>1, SweepStart DEF MatcherIInv
<1>3. CASE part = "ring"
  <2>1. R!RingInit
    BY <1>3 DEF Init
  <2>2. QED
    BY <1>1, <1>3, <2>1, RingStart DEF MatcherIInv
<1>4. CASE part = "rows"
  <2>1. Q!RowsInit
    BY <1>4 DEF Init
  <2>2. QED
    BY <1>1, <1>4, <2>1, RowsStart DEF MatcherIInv
<1>5. QED
  BY <1>1, <1>2, <1>3, <1>4 DEF MatcherIInv

\* A step of a job is one of its part, and leaves the pool as it is.
LEMMA MatcherStep ==
  ASSUME MatcherIInv, [Next]_allVars
  PROVE  MatcherIInv'
<1>1. CASE SweepPart(SweepNext)
  <2>1. SweepIInv' /\ PoolIInv'
    BY <1>1, SweepKeeps, PoolStep DEF SweepPart, MatcherIInv
  <2>2. QED
    BY <1>1, <2>1 DEF SweepPart, MatcherIInv
<1>2. CASE RingPart(R!RingNext)
  <2>1. RingIInv' /\ PoolIInv'
    BY <1>2, RingStepKeeps, PoolStep DEF RingPart, MatcherIInv
  <2>2. QED
    BY <1>2, <2>1 DEF RingPart, MatcherIInv
<1>3. CASE RowsPart(Q!RowsNext)
  <2>1. RowsIInv' /\ PoolIInv'
    BY <1>3, RowsStepKeeps, PoolStep DEF RowsPart, MatcherIInv
  <2>2. QED
    BY <1>3, <2>1 DEF RowsPart, MatcherIInv
<1>4. CASE PoolPart(PoolNext)
  <2>1. PoolIInv'
    BY <1>4, PoolStep DEF PoolPart, MatcherIInv
  <2>2. QED
    BY <1>4, <2>1 DEF PoolPart, MatcherIInv
<1>5. CASE Compute
  <2>1. PoolIInv' /\ part' = "computation"
    BY <1>5, PoolStep DEF Compute, MatcherIInv
  <2>2. QED
    BY <2>1 DEF MatcherIInv
<1>6. CASE UNCHANGED allVars
  <2>1. PoolIInv' /\ part' = part
    BY <1>6, PoolStep DEF allVars, MatcherIInv
  <2>2. ASSUME part = "sweep" PROVE SweepIInv'
    BY <1>6, <2>2, SweepKeeps DEF allVars, chunkVars, sweepVars, MatcherIInv
  <2>3. ASSUME part = "ring" PROVE RingIInv'
    BY <1>6, <2>3, RingIdle DEF allVars, chunkVars, ringOnly, MatcherIInv
  <2>4. ASSUME part = "rows" PROVE RowsIInv'
    BY <1>6, <2>4, RowsIdle DEF allVars, rowsOnly, MatcherIInv
  <2>5. QED
    BY <2>1, <2>2, <2>3, <2>4 DEF MatcherIInv
<1>7. QED
  BY <1>1, <1>2, <1>3, <1>4, <1>5, <1>6 DEF Next, Computed

LEMMA MatcherInvariant == Spec => []MatcherIInv
<1>1. Init => MatcherIInv
  BY MatcherStart
<1>2. MatcherIInv /\ [Next]_allVars => MatcherIInv'
  BY MatcherStep
<1>3. QED
  BY <1>1, <1>2, PTL DEF Spec

\* Whichever job runs, no thread writes what another one reads or writes
\* meanwhile, and what it reads is what the job is defined to read.
THEOREM ThreadsAreDisjoint == Spec => []ThreadsDisjoint
<1>1. MatcherIInv => ThreadsDisjoint
  <2>1. SweepIInv => SweepDisjoint
    BY ReadsRowBefore, WritesApart DEF SweepDisjoint
  <2>2. QED
    BY <2>1, RingInvIsDisjoint, RowsInvIsDisjoint DEF MatcherIInv, ThreadsDisjoint
<1>2. QED
  BY MatcherInvariant, <1>1, PTL

\* Whichever job runs, each pixel is done once when its threads have returned.
THEOREM EveryPixelIsDoneOnce == Spec => []EveryPixelOnce
<1>1. MatcherIInv => EveryPixelOnce
  BY SweepInvVisits, RingInvVisits, RowsInvVisits DEF MatcherIInv, EveryPixelOnce
<1>2. QED
  BY MatcherInvariant, <1>1, PTL

\* The matcher's pool is the pool: what a worker runs is alive, and every
\* call of on_threads gets what it promises.
THEOREM MatcherKeepsItsPool == Spec => []WorkOutlivesItsUse /\ PoolKeepsPromise
<1>1. Init => PoolInit
  BY DEF Init
<1>2. [Next]_allVars => [PoolNext]_poolVars
  BY DEF Next, SweepPart, RingPart, RowsPart, PoolPart, Compute, Computed, allVars
<1>3. Spec => PoolSpec
  BY <1>1, <1>2, PTL DEF Spec, PoolSpec
<1>4. QED
  BY <1>3, WorkIsAlive, PoolImplementsOnThreads, PTL

-----------------------------------------------------------------------------
(***************************************************************************)
(* The computations                                                        *)
(***************************************************************************)

\* The less and the greater of two numbers.
LEMMA MinOfTwo ==
  ASSUME NEW a \in Int, NEW b \in Int
  PROVE  Min({a, b}) = IF a <= b THEN a ELSE b
  BY DEF Min

LEMMA MaxOfTwo ==
  ASSUME NEW a \in Int, NEW b \in Int
  PROVE  Max({a, b}) = IF a >= b THEN a ELSE b
  BY DEF Max

\* Induction, of a set: what holds of 0, and of a number that follows one of
\* which it holds, holds of all.
LEMMA EachUpTo ==
  ASSUME NEW N \in Nat, NEW S, 0 \in S,
         \A n \in 0..(N - 1) : n \in S => n + 1 \in S
  PROVE  \A n \in 0..N : n \in S
<1> DEFINE Odd == {n \in 0..N : n \notin S}
<1>1. SUFFICES ASSUME Odd # {} PROVE FALSE
  OBVIOUS
<1>2. PICK k \in Odd : \A n \in Odd : k <= n
  <2>1. Odd \in SUBSET Nat
    OBVIOUS
  <2>2. QED
    BY <1>1, <2>1, LeastExists
<1>3. k \in 0..N /\ k # 0 /\ k \notin S
  OBVIOUS
<1>4. k - 1 \in 0..(N - 1) /\ (k - 1) + 1 = k /\ ~(k <= k - 1)
  BY <1>3
<1>5. k - 1 \in S
  BY <1>2, <1>4
<1>6. QED
  BY <1>3, <1>4, <1>5

\* f goes by steps from a base.
Goes(f, N, base, step) == f[0] = base /\ \A n \in 1..N : f[n] = step[<<n, f[n - 1]>>]

\* Such a function exists: it does up to 0, and from each number up to the next.
LEMMA RecursionExists ==
  ASSUME NEW N \in Nat, NEW S, NEW base \in S, NEW step \in [(1..N) \X S -> S]
  PROVE  \E f \in [0..N -> S] : Goes(f, N, base, step)
<1> DEFINE GoesTo(k) == \E f \in [0..k -> S] : f[0] = base /\ \A n \in 1..k : f[n] = step[<<n, f[n - 1]>>]
<1>1. GoesTo(0)
  <2> DEFINE f == [n \in 0..0 |-> base]
  <2>1. f \in [0..0 -> S] /\ f[0] = base
    OBVIOUS
  <2>2. \A n \in 1..0 : f[n] = step[<<n, f[n - 1]>>]
    OBVIOUS
  <2>3. QED
    BY <2>1, <2>2
<1>2. ASSUME NEW k \in 0..N, k # 0, GoesTo(k - 1) PROVE GoesTo(k)
  <2>1. PICK f \in [0..(k - 1) -> S] : f[0] = base /\ \A n \in 1..(k - 1) : f[n] = step[<<n, f[n - 1]>>]
    BY <1>2
  <2> DEFINE g == [n \in 0..k |-> IF n = k THEN step[<<k, f[k - 1]>>] ELSE f[n]]
  <2>2. step[<<k, f[k - 1]>>] \in S
    <3>1. f[k - 1] \in S /\ k \in 1..N
      BY <1>2
    <3>2. QED
      BY <3>1
  <2>3. g \in [0..k -> S]
    BY <2>2
  <2>4. g[0] = base
    BY <1>2, <2>1
  <2>5. ASSUME NEW n \in 1..k PROVE g[n] = step[<<n, g[n - 1]>>]
    <3>1. CASE n = k
      BY <3>1, <1>2
    <3>2. CASE n # k
      BY <3>2, <2>1
    <3>3. QED
      BY <3>1, <3>2
  <2>6. QED
    BY <2>3, <2>4, <2>5
<1>3. \A k \in 0..N : GoesTo(k)
  <2> DEFINE T == {k \in 0..N : GoesTo(k)}
  <2> HIDE DEF GoesTo
  <2>1. 0 \in T
    BY <1>1
  <2>2. \A k \in 0..(N - 1) : k \in T => k + 1 \in T
    <3>1. TAKE k \in 0..(N - 1)
    <3>2. HAVE k \in T
    <3>3. k + 1 \in 0..N /\ k + 1 # 0 /\ (k + 1) - 1 = k
      OBVIOUS
    <3>4. GoesTo(k + 1)
      BY <1>2, <3>2, <3>3
    <3>5. QED
      BY <3>3, <3>4
  <2> HIDE DEF T
  <2>3. \A k \in 0..N : k \in T
    BY <2>1, <2>2, EachUpTo
  <2>4. QED
    BY <2>3 DEF T
<1>4. GoesTo(N)
  <2> HIDE DEF GoesTo
  <2>1. QED
    BY <1>3
<1>5. QED
  BY <1>4 DEF Goes

----------------------------------------------------------------------------
(* Paths                                                                   *)

Costs == 0..CensusBits
PixelCosts == [Disparity -> Costs]

\* What the settings come to.
LEMMA Settings ==
  /\ D \in Nat /\ D >= 4 /\ D <= 128 /\ Width \in Nat /\ Width >= 1
  /\ P1 \in Nat /\ P2 \in Nat /\ P1 < P2 /\ P2 <= 79 /\ CensusBits = 48
  BY MatchingAssumption DEF CensusBits

\* A change of disparity costs P2 at most.
LEMMA PenaltyIs ==
  ASSUME NEW a \in Disparity, NEW b \in Disparity
  PROVE  Penalty(a, b) \in Nat /\ Penalty(a, b) <= P2
<1>1. a \in Int /\ b \in Int
  BY Settings DEF Disparity
<1>2. QED
  BY <1>1, Settings DEF Penalty, Distance

\* A matching cost is a number.
LEMMA CostIs ==
  ASSUME NEW costs \in Seq(PixelCosts), NEW n \in 1..Len(costs), NEW d \in Disparity
  PROVE  costs[n][d] \in Nat /\ costs[n][d] <= 48
<1>1. costs[n] \in PixelCosts
  OBVIOUS
<1>2. costs[n][d] \in 0..48
  BY <1>1, Settings DEF PixelCosts, Costs
<1>3. \A m \in 0..48 : m \in Nat /\ m <= 48
  OBVIOUS
<1>4. QED
  BY <1>2, <1>3, Zenon

LEMMA SumOfThree ==
  ASSUME NEW a \in Nat, NEW b \in Nat, NEW c \in Nat
  PROVE  a + b + c \in Nat
  OBVIOUS

\* The energies of the first 0, 1... n pixels.
EnergyGoes(e, costs, choice, n) ==
  /\ e \in [0..n -> Nat]
  /\ e[0] = 0
  /\ \A i \in 1..n : e[i] = e[i - 1] + costs[i][choice[i]]
                              + (IF i = 1 THEN 0 ELSE Penalty(choice[i - 1], choice[i]))

\* An energy is the last of them.
LEMMA EnergyIs ==
  ASSUME NEW costs \in Seq(PixelCosts), NEW n \in 0..Len(costs), NEW choice,
         \A i \in 1..n : choice[i] \in Disparity
  PROVE  \E e : EnergyGoes(e, costs, choice, n) /\ Energy(costs, choice, n) = e[n]
<1> DEFINE More(i) == costs[i][choice[i]] + (IF i = 1 THEN 0 ELSE Penalty(choice[i - 1], choice[i]))
           Is(f) == f = [i \in 0..n |-> IF i = 0 THEN 0
                           ELSE f[i - 1] + costs[i][choice[i]]
                                  + (IF i = 1 THEN 0 ELSE Penalty(choice[i - 1], choice[i]))]
           step == [x \in (1..n) \X Nat |-> x[2] + costs[x[1]][choice[x[1]]]
                      + (IF x[1] = 1 THEN 0 ELSE Penalty(choice[x[1] - 1], choice[x[1]]))]
<1>1. n \in Nat /\ \A i \in 1..n : i \in DOMAIN costs
  OBVIOUS
<1>2. \A i \in 1..n : costs[i][choice[i]] \in Nat /\ (i # 1 => Penalty(choice[i - 1], choice[i]) \in Nat)
  <2>1. TAKE i \in 1..n
  <2> HIDE DEF More, Is, step
  <2>2. i \in 1..Len(costs) /\ choice[i] \in Disparity /\ (i # 1 => i - 1 \in 1..n)
    BY <1>1
  <2>3. costs[i][choice[i]] \in Nat
    BY <2>2, CostIs
  <2>4. i # 1 => Penalty(choice[i - 1], choice[i]) \in Nat
    BY <2>2, PenaltyIs
  <2>5. QED
    BY <2>3, <2>4
<1>3. step \in [(1..n) \X Nat -> Nat]
  <2>1. ASSUME NEW i \in 1..n, NEW s \in Nat PROVE s + costs[i][choice[i]] + (IF i = 1 THEN 0 ELSE Penalty(choice[i - 1], choice[i])) \in Nat
    BY <1>2
  <2>2. QED
    BY <2>1
<1>4. \E f \in [0..n -> Nat] : Goes(f, n, 0, step)
  <2>1. 0 \in Nat
    OBVIOUS
  <2> HIDE DEF step
  <2>2. QED
    BY <1>1, <1>3, <2>1, RecursionExists, Zenon
<1>5. PICK f \in [0..n -> Nat] : f[0] = 0 /\ \A i \in 1..n : f[i] = step[<<i, f[i - 1]>>]
  BY <1>4 DEF Goes
<1>6. \A i \in 1..n : f[i] = f[i - 1] + costs[i][choice[i]] + (IF i = 1 THEN 0 ELSE Penalty(choice[i - 1], choice[i]))
  <2>1. TAKE i \in 1..n
  <2>2. f[i - 1] \in Nat
    BY <1>1
  <2>3. QED
    BY <1>5, <2>2
<1>7. Is(f)
  BY <1>5, <1>6
<1>8. Is(CHOOSE g : Is(g))
  BY <1>7
<1> DEFINE e == CHOOSE g : Is(g)
<1>9. Energy(costs, choice, n) = e[n]
  BY DEF Energy
<1>10. e = [i \in 0..n |-> IF i = 0 THEN 0
              ELSE e[i - 1] + costs[i][choice[i]] + (IF i = 1 THEN 0 ELSE Penalty(choice[i - 1], choice[i]))]
  BY <1>8
<1> HIDE DEF e
<1>11. DOMAIN e = 0..n /\ e[0] = 0
       /\ \A i \in 1..n : e[i] = e[i - 1] + costs[i][choice[i]] + (IF i = 1 THEN 0 ELSE Penalty(choice[i - 1], choice[i]))
  BY <1>1, <1>10
<1>12. \A k \in 0..n : e[k] \in Nat
  <2> DEFINE T == {k \in 0..n : e[k] \in Nat}
  <2>1. 0 \in T
    BY <1>1, <1>11
  <2>2. ASSUME NEW k \in 0..(n - 1), k \in T PROVE k + 1 \in T
    <3>1. k + 1 \in 1..n /\ (k + 1) - 1 = k
      BY <1>1
    <3>2. e[k + 1] = e[k] + costs[k + 1][choice[k + 1]] + (IF k + 1 = 1 THEN 0 ELSE Penalty(choice[k], choice[k + 1]))
      BY <1>11, <3>1
    <3>3. costs[k + 1][choice[k + 1]] \in Nat
      BY <1>2, <3>1
    <3> DEFINE penalty == IF k + 1 = 1 THEN 0 ELSE Penalty(choice[k], choice[k + 1])
    <3>4. penalty \in Nat
      <4>1. k + 1 # 1 => Penalty(choice[(k + 1) - 1], choice[k + 1]) \in Nat
        BY <1>2, <3>1
      <4>2. QED
        BY <3>1, <4>1
    <3>5. e[k] \in Nat /\ k + 1 \in 0..n
      BY <1>1, <2>2
    <3>6. e[k] + costs[k + 1][choice[k + 1]] + penalty \in Nat
      <4> HIDE DEF T, penalty
      <4>1. QED
        BY <3>3, <3>4, <3>5, SumOfThree
    <3>7. QED
      BY <3>2, <3>5, <3>6
  <2> HIDE DEF T
  <2>3. \A k \in 0..n : k \in T
    BY <1>1, <2>1, <2>2, EachUpTo
  <2>4. QED
    BY <2>3 DEF T
<1>13. QED
  BY <1>9, <1>10, <1>11, <1>12 DEF EnergyGoes

\* Two sequences are the same up to k.
Same(c, b, k) == \A i \in 1..k : c[i] = b[i]

\* Choices and costs that are the same as far as a pixel have the same energy there.
LEMMA EnergiesAgree ==
  ASSUME NEW costs, NEW other, NEW e, NEW f, NEW c, NEW b,
         NEW n \in Nat, NEW m \in Nat, NEW k \in Nat, k <= n, k <= m,
         EnergyGoes(e, costs, c, n), EnergyGoes(f, other, b, m),
         Same(c, b, k), Same(costs, other, k)
  PROVE  e[k] = f[k]
<1> DEFINE T == {i \in 0..k : e[i] = f[i]}
<1>1. 0 \in T
  BY DEF EnergyGoes
<1>2. ASSUME NEW i \in 0..(k - 1), i \in T PROVE i + 1 \in T
  <2> DEFINE j == i + 1
  <2>1. j \in 1..n /\ j \in 1..m /\ j \in 1..k /\ j - 1 = i /\ (j # 1 => i \in 1..k)
    OBVIOUS
  <2> HIDE DEF j
  <2>2. e[j] = e[i] + costs[j][c[j]] + (IF j = 1 THEN 0 ELSE Penalty(c[i], c[j]))
    BY <2>1 DEF EnergyGoes
  <2>3. f[j] = f[i] + other[j][b[j]] + (IF j = 1 THEN 0 ELSE Penalty(b[i], b[j]))
    BY <2>1 DEF EnergyGoes
  <2>4. c[j] = b[j] /\ costs[j] = other[j] /\ (j # 1 => c[i] = b[i])
    BY <2>1 DEF Same
  <2>5. e[j] = f[j]
    BY <1>2, <2>2, <2>3, <2>4
  <2>6. QED
    BY <2>1, <2>5 DEF j
<1> HIDE DEF T
<1>3. \A i \in 0..k : i \in T
  BY <1>1, <1>2, EachUpTo
<1>4. QED
  BY <1>3 DEF T

\* The choices of n disparities that end in d.
EndingIn(n, d) == {c \in [1..n -> Disparity] : c[n] = d}

\* There is one, and its energy is a natural number.
LEMMA ChoicesEnd ==
  ASSUME NEW costs \in Seq(PixelCosts), NEW n \in 1..Len(costs), NEW d \in Disparity
  PROVE  EndingIn(n, d) # {} /\ \A c \in EndingIn(n, d) : Energy(costs, c, n) \in Nat
<1>1. n \in Nat /\ n \in 1..n
  OBVIOUS
<1>2. [i \in 1..n |-> d] \in EndingIn(n, d)
  BY <1>1 DEF EndingIn
<1>3. ASSUME NEW c \in EndingIn(n, d) PROVE Energy(costs, c, n) \in Nat
  <2>1. \A i \in 1..n : c[i] \in Disparity
    BY DEF EndingIn
  <2>2. PICK e : EnergyGoes(e, costs, c, n) /\ Energy(costs, c, n) = e[n]
    BY <1>1, <2>1, EnergyIs
  <2>3. QED
    BY <1>1, <2>2 DEF EnergyGoes
<1>4. QED
  BY <1>2, <1>3

\* The least energy is that of one of them, and not above any other's.
LEMMA LeastIs ==
  ASSUME NEW costs \in Seq(PixelCosts), NEW n \in 1..Len(costs), NEW d \in Disparity
  PROVE  /\ LeastEnergy(costs, n, d) \in Nat
         /\ \E c \in EndingIn(n, d) : LeastEnergy(costs, n, d) = Energy(costs, c, n)
         /\ \A c \in EndingIn(n, d) : LeastEnergy(costs, n, d) <= Energy(costs, c, n)
<1> DEFINE S == {Energy(costs, c, n) : c \in EndingIn(n, d)}
<1>1. S \in SUBSET Nat /\ S # {}
  BY ChoicesEnd
<1>2. LeastEnergy(costs, n, d) = Min(S)
  BY DEF LeastEnergy, EndingIn
<1>3. Min(S) \in S /\ \A e \in S : Min(S) <= e
  BY <1>1, MinIsLeast
<1>4. QED
  BY <1>1, <1>2, <1>3

\* What an energy adds at its last pixel.
LEMMA EnergyGrows ==
  ASSUME NEW costs \in Seq(PixelCosts), NEW n \in 0..(Len(costs) - 1),
         NEW c \in [1..(n + 1) -> Disparity], NEW b, \A i \in 1..n : b[i] = c[i]
  PROVE  Energy(costs, c, n + 1) = Energy(costs, b, n) + costs[n + 1][c[n + 1]]
                                     + (IF n = 0 THEN 0 ELSE Penalty(c[n], c[n + 1]))
<1>1. n \in Nat /\ n + 1 \in 0..Len(costs) /\ n \in 0..Len(costs) /\ n + 1 \in 1..(n + 1)
      /\ (n + 1) - 1 = n /\ (n + 1 = 1 <=> n = 0)
  OBVIOUS
<1>2. \A i \in 1..(n + 1) : c[i] \in Disparity
  OBVIOUS
<1>3. \A i \in 1..n : b[i] \in Disparity
  BY <1>1
<1>4. PICK e : EnergyGoes(e, costs, c, n + 1) /\ Energy(costs, c, n + 1) = e[n + 1]
  BY <1>1, <1>2, EnergyIs
<1>5. PICK f : EnergyGoes(f, costs, b, n) /\ Energy(costs, b, n) = f[n]
  BY <1>1, <1>3, EnergyIs
<1>6. e[n] = f[n]
  <2>1. n <= n + 1 /\ n <= n /\ n + 1 \in Nat
    BY <1>1
  <2>2. Same(c, b, n) /\ Same(costs, costs, n)
    BY DEF Same
  <2>3. QED
    BY <1>1, <1>4, <1>5, <2>1, <2>2, EnergiesAgree
<1>7. e[n + 1] = e[n] + costs[n + 1][c[n + 1]] + (IF n = 0 THEN 0 ELSE Penalty(c[n], c[n + 1]))
  BY <1>1, <1>4 DEF EnergyGoes
<1>8. QED
  BY <1>4, <1>5, <1>6, <1>7

\* The least energy at the first pixel is its matching cost.
LEMMA LeastFirst ==
  ASSUME NEW costs \in Seq(PixelCosts), Len(costs) >= 1, NEW d \in Disparity
  PROVE  LeastEnergy(costs, 1, d) = costs[1][d]
<1>1. 1 \in 1..Len(costs) /\ 0 \in 0..(Len(costs) - 1) /\ 0 + 1 = 1
  OBVIOUS
<1>2. PICK c \in EndingIn(1, d) : LeastEnergy(costs, 1, d) = Energy(costs, c, 1)
  BY <1>1, LeastIs
<1>3. c \in [1..1 -> Disparity] /\ c[1] = d
  BY DEF EndingIn
<1>4. Energy(costs, c, 0) = 0
  <2>1. 0 \in 0..Len(costs) /\ \A i \in 1..0 : c[i] \in Disparity
    OBVIOUS
  <2>2. PICK e : EnergyGoes(e, costs, c, 0) /\ Energy(costs, c, 0) = e[0]
    BY <2>1, EnergyIs
  <2>3. QED
    BY <2>2 DEF EnergyGoes
<1>5. Energy(costs, c, 1) = Energy(costs, c, 0) + costs[1][c[1]] + 0
  <2>1. \A i \in 1..0 : c[i] = c[i]
    OBVIOUS
  <2>2. Energy(costs, c, 0 + 1) = Energy(costs, c, 0) + costs[0 + 1][c[0 + 1]]
                                     + (IF 0 = 0 THEN 0 ELSE Penalty(c[0], c[0 + 1]))
    BY <1>1, <1>3, <2>1, EnergyGrows
  <2>3. QED
    BY <2>2
<1>6. costs[1][d] \in Nat
  BY <1>1, CostIs
<1>7. QED
  BY <1>2, <1>3, <1>4, <1>5, <1>6

\* The least energy at a later one goes on from the best one before it.
LEMMA LeastStep ==
  ASSUME NEW costs \in Seq(PixelCosts), NEW n \in 1..(Len(costs) - 1), NEW d \in Disparity
  PROVE  /\ \A k \in Disparity : LeastEnergy(costs, n + 1, d)
              <= LeastEnergy(costs, n, k) + Penalty(k, d) + costs[n + 1][d]
         /\ \E k \in Disparity : LeastEnergy(costs, n + 1, d)
              = LeastEnergy(costs, n, k) + Penalty(k, d) + costs[n + 1][d]
<1>1. n \in 1..Len(costs) /\ n + 1 \in 1..Len(costs) /\ n \in 0..(Len(costs) - 1) /\ n # 0
      /\ n \in 1..n /\ n \in 1..(n + 1) /\ n + 1 \in 1..(n + 1) /\ n + 1 \notin 1..n /\ n \in Nat
  OBVIOUS
<1>2. ASSUME NEW k \in Disparity
      PROVE  LeastEnergy(costs, n + 1, d) <= LeastEnergy(costs, n, k) + Penalty(k, d) + costs[n + 1][d]
  <2>1. PICK b \in EndingIn(n, k) : LeastEnergy(costs, n, k) = Energy(costs, b, n)
    BY <1>1, LeastIs
  <2> DEFINE c == [i \in 1..(n + 1) |-> IF i = n + 1 THEN d ELSE b[i]]
  <2>2. b \in [1..n -> Disparity] /\ b[n] = k
    BY DEF EndingIn
  <2>3. c \in [1..(n + 1) -> Disparity] /\ c[n + 1] = d /\ c[n] = k /\ \A i \in 1..n : b[i] = c[i]
    BY <1>1, <2>2
  <2> HIDE DEF c
  <2>4. Energy(costs, c, n + 1) = Energy(costs, b, n) + costs[n + 1][d] + Penalty(k, d)
    BY <1>1, <2>3, EnergyGrows
  <2>5. LeastEnergy(costs, n + 1, d) <= Energy(costs, c, n + 1)
    <3>1. c \in EndingIn(n + 1, d)
      BY <2>3 DEF EndingIn
    <3>2. QED
      BY <1>1, <3>1, LeastIs
  <2>6. Energy(costs, b, n) \in Nat /\ Penalty(k, d) \in Nat /\ costs[n + 1][d] \in Nat
    BY <1>1, <2>1, LeastIs, PenaltyIs, CostIs
  <2>7. QED
    BY <2>1, <2>4, <2>5, <2>6
<1>3. \E k \in Disparity : LeastEnergy(costs, n + 1, d) = LeastEnergy(costs, n, k) + Penalty(k, d) + costs[n + 1][d]
  <2>1. PICK c \in EndingIn(n + 1, d) : LeastEnergy(costs, n + 1, d) = Energy(costs, c, n + 1)
    BY <1>1, LeastIs
  <2> DEFINE b == [i \in 1..n |-> c[i]]
             k == c[n]
  <2>2. c \in [1..(n + 1) -> Disparity] /\ c[n + 1] = d
    BY DEF EndingIn
  <2>3. b \in EndingIn(n, k) /\ k \in Disparity /\ \A i \in 1..n : b[i] = c[i]
    BY <1>1, <2>2 DEF EndingIn
  <2> HIDE DEF b
  <2>4. Energy(costs, c, n + 1) = Energy(costs, b, n) + costs[n + 1][d] + Penalty(k, d)
    BY <1>1, <2>2, <2>3, EnergyGrows
  <2> HIDE DEF k
  <2>5. LeastEnergy(costs, n, k) <= Energy(costs, b, n) /\ LeastEnergy(costs, n, k) \in Nat
        /\ Energy(costs, b, n) \in Nat
    BY <1>1, <2>3, LeastIs, ChoicesEnd
  <2>6. LeastEnergy(costs, n + 1, d) <= LeastEnergy(costs, n, k) + Penalty(k, d) + costs[n + 1][d]
    BY <1>2, <2>3
  <2>7. Penalty(k, d) \in Nat /\ costs[n + 1][d] \in Nat
    BY <1>1, <2>3, PenaltyIs, CostIs
  <2>8. LeastEnergy(costs, n + 1, d) = LeastEnergy(costs, n, k) + Penalty(k, d) + costs[n + 1][d]
    BY <2>1, <2>4, <2>5, <2>6, <2>7
  <2>9. QED
    BY <2>3, <2>8
<1>4. QED
  BY <1>2, <1>3

\* The least energy is of the costs up to its pixel.
LEMMA LeastAgrees ==
  ASSUME NEW costs \in Seq(PixelCosts), NEW other \in Seq(PixelCosts), NEW n \in Nat,
         n >= 1, n <= Len(costs), n <= Len(other),
         \A i \in 1..n : costs[i] = other[i], NEW d \in Disparity
  PROVE  LeastEnergy(costs, n, d) = LeastEnergy(other, n, d)
<1>1. n \in 1..Len(costs) /\ n \in 1..Len(other) /\ n \in 0..Len(costs) /\ n \in 0..Len(other) /\ n <= n
  OBVIOUS
<1>2. ASSUME NEW c \in EndingIn(n, d) PROVE Energy(costs, c, n) = Energy(other, c, n)
  <2>1. \A i \in 1..n : c[i] \in Disparity
    BY DEF EndingIn
  <2>2. PICK e : EnergyGoes(e, costs, c, n) /\ Energy(costs, c, n) = e[n]
    BY <1>1, <2>1, EnergyIs
  <2>3. PICK f : EnergyGoes(f, other, c, n) /\ Energy(other, c, n) = f[n]
    BY <1>1, <2>1, EnergyIs
  <2>4. Same(c, c, n) /\ Same(costs, other, n)
    BY DEF Same
  <2>5. e[n] = f[n]
    <3>1. n <= n
      OBVIOUS
    <3>2. QED
      BY <2>2, <2>3, <2>4, <3>1, EnergiesAgree
  <2>6. QED
    BY <2>2, <2>3, <2>5
<1>3. {Energy(costs, c, n) : c \in EndingIn(n, d)} = {Energy(other, c, n) : c \in EndingIn(n, d)}
  BY <1>2
<1>4. QED
  BY <1>3 DEF LeastEnergy, EndingIn

\* The least energy of the first n pixels of a path.
Least(costs, n) == IF n = 0 THEN 0 ELSE Min({LeastEnergy(costs, n, k) : k \in Disparity})

\* It is one of theirs, and above none.
LEMMA LeastOfAll ==
  ASSUME NEW costs \in Seq(PixelCosts), NEW n \in 1..Len(costs)
  PROVE  /\ Least(costs, n) \in Nat
         /\ \E k \in Disparity : Least(costs, n) = LeastEnergy(costs, n, k)
         /\ \A k \in Disparity : Least(costs, n) <= LeastEnergy(costs, n, k)
<1> DEFINE S == {LeastEnergy(costs, n, k) : k \in Disparity}
<1>1. S \in SUBSET Nat
  BY LeastIs
<1>2. 0 \in Disparity /\ n # 0
  BY Settings DEF Disparity
<1>3. S # {}
  BY <1>2
<1>4. Min(S) \in S /\ \A e \in S : Min(S) <= e
  BY <1>1, <1>3, MinIsLeast
<1>5. Least(costs, n) = Min(S)
  BY <1>2 DEF Least
<1> HIDE DEF Least
<1>6. QED
  BY <1>1, <1>4, <1>5

\* What is held of the places of a state.
LEMMA PlacesAre == \A i : i \in 1..D <=> \E d \in Disparity : i = d + 1
<1>1. \A i \in 1..D : i - 1 \in Disparity /\ i = (i - 1) + 1
  BY Settings DEF Disparity
<1>2. \A d \in Disparity : d + 1 \in 1..D
  BY Settings DEF Disparity
<1>3. QED
  BY <1>1, <1>2

\* The lowest cost of a state is one of its costs.
LEMMA LowestIs ==
  ASSUME NEW s, \A d \in Disparity : s[d + 1] \in Nat
  PROVE  /\ LowestCost(s) \in Nat
         /\ \E d \in Disparity : LowestCost(s) = s[d + 1]
         /\ \A d \in Disparity : LowestCost(s) <= s[d + 1]
<1> DEFINE S == {s[i] : i \in 1..D}
<1>1. S \in SUBSET Nat /\ \A d \in Disparity : s[d + 1] \in S
  BY PlacesAre
<1>2. 0 \in Disparity
  BY Settings DEF Disparity
<1>3. Min(S) \in S /\ \A e \in S : Min(S) <= e
  BY <1>1, <1>2, MinIsLeast
<1>4. LowestCost(s) = Min(S)
  BY DEF LowestCost
<1>5. QED
  BY <1>1, <1>3, <1>4, PlacesAre

\* It is the number that is one of the costs and above none.
LEMMA LowestOf ==
  ASSUME NEW s, \A d \in Disparity : s[d + 1] \in Nat,
         NEW k \in Disparity, \A d \in Disparity : s[k + 1] <= s[d + 1]
  PROVE  LowestCost(s) = s[k + 1]
<1>1. PICK d \in Disparity : LowestCost(s) = s[d + 1]
  BY LowestIs
<1>2. s[d + 1] <= s[k + 1] /\ s[k + 1] <= s[d + 1] /\ s[d + 1] \in Nat /\ s[k + 1] \in Nat
  BY <1>1, LowestIs
<1>3. QED
  BY <1>1, <1>2

\* The next cost in bytes is the cost of the best way on, and fits.
LEMMA NextCostIs ==
  ASSUME NEW s \in [0..(D + 1) -> Nat], s[0] = 255, s[D + 1] = 255,
         \A d \in Disparity : s[d + 1] <= 127,
         NEW cost \in Nat, cost <= 48, NEW d \in Disparity
  PROVE  LET cheapest == NextCost(s, LowestCost(s), cost, d)
         IN  /\ cheapest \in Nat /\ cheapest <= 127
             /\ \A k \in Disparity : cheapest <= s[k + 1] - LowestCost(s) + Penalty(k, d) + cost
             /\ \E k \in Disparity : cheapest = s[k + 1] - LowestCost(s) + Penalty(k, d) + cost
<1> DEFINE low == LowestCost(s)
           after == NextCost(s, low, cost, d)
<1>1. \A k \in Disparity : k \in Nat /\ k <= D - 1 /\ s[k + 1] \in Nat
  BY Settings DEF Disparity
<1>2. low \in Nat /\ (\E k \in Disparity : low = s[k + 1]) /\ \A k \in Disparity : low <= s[k + 1]
  <2>1. \A k \in Disparity : s[k + 1] \in Nat
    BY <1>1
  <2>2. /\ LowestCost(s) \in Nat
        /\ \E k \in Disparity : LowestCost(s) = s[k + 1]
        /\ \A k \in Disparity : LowestCost(s) <= s[k + 1]
    BY <2>1, LowestIs
  <2>3. QED
    BY <2>2
<1>3. low <= 127
  BY <1>1, <1>2
<1> HIDE DEF low
<1> DEFINE a == s[d]
           b == s[d + 1]
           c == s[d + 2]
<1>4. a \in Nat /\ b \in Nat /\ c \in Nat /\ b <= 127 /\ a <= 255 /\ c <= 255
      /\ low <= a /\ low <= b /\ low <= c
      /\ (d = 0 => a = 255) /\ (d # 0 => a <= 127) /\ (d = D - 1 => c = 255) /\ (d # D - 1 => c <= 127)
  <2>1. d \in Nat /\ d <= D - 1
    BY <1>1
  <2>2. d \in 0..(D + 1) /\ d + 1 \in 0..(D + 1) /\ d + 2 \in 0..(D + 1)
    BY <2>1, Settings
  <2>3. d = 0 => a = 255
    OBVIOUS
  <2>4. d # 0 => d - 1 \in Disparity /\ (d - 1) + 1 = d
    BY <2>1, Settings DEF Disparity
  <2>5. d = D - 1 => c = 255
    BY <2>1, Settings
  <2>6. d # D - 1 => d + 1 \in Disparity /\ (d + 1) + 1 = d + 2
    BY <2>1, Settings DEF Disparity
  <2>7. d # 0 => a <= 127 /\ low <= a
    BY <1>2, <2>4
  <2>8. d # D - 1 => c <= 127 /\ low <= c
    BY <1>2, <2>6
  <2>9. a \in Nat /\ b \in Nat /\ c \in Nat /\ b <= 127 /\ low <= b
    BY <1>2, <2>2
  <2>10. QED
    BY <1>2, <1>3, <2>3, <2>5, <2>7, <2>8, <2>9
<1> HIDE DEF a, b, c
<1> DEFINE least == Min({a, c})
           near == Min({255, least + P1})
           best == Min({b, low + P2, near})
<1>5. least \in Nat /\ least <= a /\ least <= c /\ (least = a \/ least = c)
  BY <1>4, MinOfTwo
<1> HIDE DEF least
<1>6. near \in Nat /\ near <= 255 /\ near <= least + P1 /\ (near = 255 \/ near = least + P1)
  BY <1>5, MinOfTwo, Settings
<1> HIDE DEF near
<1>7. best \in Nat /\ best <= b /\ best <= low + P2 /\ best <= near
      /\ (best = b \/ best = low + P2 \/ best = near)
  <2>1. {b, low + P2, near} \in SUBSET Nat
    BY <1>2, <1>4, <1>6, Settings
  <2>2. best \in {b, low + P2, near} /\ \A e \in {b, low + P2, near} : best <= e
    BY <2>1, MinIsLeast
  <2>3. QED
    BY <2>1, <2>2
<1> HIDE DEF best
<1>8. low <= best /\ best <= 127 /\ best - low <= P2
  <2>1. low \in Nat /\ P1 \in Nat /\ P2 \in Nat
    BY <1>2, Settings
  <2>2. low <= least
    BY <1>4, <1>5
  <2>3. low <= near
    BY <1>3, <1>5, <1>6, <2>1, <2>2
  <2>4. QED
    BY <1>4, <1>7, <2>1, <2>3
<1>9. after = best - low + cost /\ after \in Nat /\ after <= 127
  <2> DEFINE jump == low + P2
             sum == best - low + cost
  <2>1. jump \in Nat /\ jump <= 255 /\ sum \in Nat /\ sum <= 127
    <3>1. low \in Nat /\ low <= 127 /\ best \in Nat /\ low <= best /\ best - low <= P2
      BY <1>2, <1>3, <1>7, <1>8
    <3>2. P2 \in Nat /\ P2 <= 79
      BY Settings
    <3> HIDE DEF after
    <3>3. QED
      BY <3>1, <3>2
  <2> HIDE DEF jump, sum
  <2>2. jump % 256 = jump /\ sum % 256 = sum
    BY <2>1
  <2>3. after = sum % 256
    BY <2>2 DEF NextCost, SaturatingAdd, a, b, c, least, near, best, jump, sum
  <2>4. QED
    BY <2>1, <2>2, <2>3 DEF sum
<1> HIDE DEF after
<1>10. \A k \in Disparity : Penalty(k, d) \in Nat /\ Penalty(k, d) <= P2
  BY PenaltyIs
<1>11. ASSUME NEW k \in Disparity
       PROVE  best <= s[k + 1] + Penalty(k, d)
  <2>1. k \in Nat /\ d \in Nat
    BY <1>1
  <2>2. CASE k = d
    BY <1>1, <1>4, <1>7, <1>10, <2>2 DEF b
  <2>3. CASE k = d + 1
    <3>1. Penalty(k, d) = P1 /\ s[k + 1] = c
      BY <2>1, <2>3, Settings DEF Penalty, Distance, c
    <3>2. QED
      BY <1>4, <1>5, <1>6, <1>7, <3>1, Settings
  <2>4. CASE k = d - 1
    <3>1. Penalty(k, d) = P1 /\ s[k + 1] = a
      BY <2>1, <2>4, Settings DEF Penalty, Distance, a
    <3>2. QED
      BY <1>4, <1>5, <1>6, <1>7, <3>1, Settings
  <2>5. CASE k # d /\ k # d + 1 /\ k # d - 1
    <3>1. Penalty(k, d) = P2
      BY <2>1, <2>5, Settings DEF Penalty, Distance
    <3>2. low <= s[k + 1] /\ s[k + 1] \in Nat
      BY <1>1, <1>2
    <3>3. QED
      BY <1>2, <1>7, <3>1, <3>2, Settings
  <2>6. QED
    BY <2>2, <2>3, <2>4, <2>5
<1>12. \E k \in Disparity : best = s[k + 1] + Penalty(k, d)
  <2>1. d \in Nat /\ d <= D - 1
    BY <1>1
  <2>2. CASE best = b
    <3>1. Penalty(d, d) = 0 /\ s[d + 1] = b
      BY DEF Penalty, b
    <3>2. QED
      BY <1>4, <2>2, <3>1
  <2>3. CASE best = low + P2
    <3>1. PICK k \in Disparity : low = s[k + 1]
      BY <1>2
    <3>2. low + P2 <= low + Penalty(k, d)
      BY <1>11, <2>3, <3>1
    <3>3. Penalty(k, d) = P2
      BY <1>2, <1>10, <3>2, Settings
    <3>4. QED
      BY <2>3, <3>1, <3>3
  <2>4. CASE best = near
    <3>1. near = least + P1 /\ least <= 127
      BY <1>5, <1>6, <1>8, <2>4, Settings
    <3>2. CASE least = a
      <4>1. d # 0
        BY <1>4, <3>1, <3>2
      <4>2. d - 1 \in Disparity /\ (d - 1) + 1 = d /\ d - 1 # d
        BY <2>1, <4>1, Settings DEF Disparity
      <4>3. Penalty(d - 1, d) = P1
        BY <2>1, <4>1 DEF Penalty, Distance
      <4>4. best = s[(d - 1) + 1] + Penalty(d - 1, d)
        BY <2>4, <3>1, <3>2, <4>2, <4>3 DEF a
      <4>5. QED
        BY <4>2, <4>4
    <3>3. CASE least = c
      <4>1. d # D - 1
        BY <1>4, <3>1, <3>3
      <4>2. d + 1 \in Disparity /\ (d + 1) + 1 = d + 2
        BY <2>1, <4>1, Settings DEF Disparity
      <4>3. Penalty(d + 1, d) = P1
        BY <2>1 DEF Penalty, Distance
      <4>4. best = s[(d + 1) + 1] + Penalty(d + 1, d)
        BY <2>4, <3>1, <3>3, <4>2, <4>3 DEF c
      <4>5. QED
        BY <4>2, <4>4
    <3>4. QED
      BY <1>5, <3>2, <3>3
  <2>5. QED
    BY <1>7, <2>2, <2>3, <2>4
<1>13. \A k \in Disparity : after <= s[k + 1] - low + Penalty(k, d) + cost
  <2>1. TAKE k \in Disparity
  <2>2. best <= s[k + 1] + Penalty(k, d) /\ s[k + 1] \in Nat /\ Penalty(k, d) \in Nat
    BY <1>1, <1>10, <1>11
  <2>3. low \in Nat /\ best \in Nat /\ after = best - low + cost
    BY <1>2, <1>7, <1>9
  <2>4. QED
    BY <2>2, <2>3
<1>14. \E k \in Disparity : after = s[k + 1] - low + Penalty(k, d) + cost
  <2>1. PICK k \in Disparity : best = s[k + 1] + Penalty(k, d)
    BY <1>12
  <2>2. s[k + 1] \in Nat /\ Penalty(k, d) \in Nat
    BY <1>1, <1>10
  <2>3. low \in Nat /\ best \in Nat /\ after = best - low + cost
    BY <1>2, <1>7, <1>9
  <2>4. after = s[k + 1] - low + Penalty(k, d) + cost
    BY <2>1, <2>2, <2>3
  <2>5. QED
    BY <2>4
<1>15. QED
  BY <1>9, <1>13, <1>14 DEF after, low

\* The states of a path: costs that fit between the sentinels.
PathStates ==
  {s \in [0..(D + 1) -> Nat] : s[0] = 255 /\ s[D + 1] = 255 /\ \A d \in Disparity : s[d + 1] <= 127}

\* A step of a path, from a state on the matching costs of a pixel.
Stepped(s, pixel) == PathStep(s, LowestCost(s), pixel)

\* s is the state of a path after the first n pixels of costs: it holds the
\* least energies, less the least energy of getting to the pixel before.
StateOf(s, costs, n) ==
  /\ s \in PathStates
  /\ \A d \in Disparity :
       s[d + 1] = IF n = 0 THEN 0 ELSE LeastEnergy(costs, n, d) - Least(costs, n - 1)
  /\ LowestCost(s) = IF n = 0 THEN 0 ELSE Least(costs, n) - Least(costs, n - 1)

\* A step keeps to the states, and each cost is the next one.
LEMMA SteppedIs ==
  ASSUME NEW s \in PathStates, NEW pixel \in PixelCosts
  PROVE  /\ Stepped(s, pixel) \in PathStates
         /\ \A d \in Disparity : Stepped(s, pixel)[d + 1] = NextCost(s, LowestCost(s), pixel[d], d)
<1> DEFINE t == Stepped(s, pixel)
           cost(d) == NextCost(s, LowestCost(s), pixel[d], d)
<1>1. s \in [0..(D + 1) -> Nat] /\ s[0] = 255 /\ s[D + 1] = 255 /\ \A d \in Disparity : s[d + 1] <= 127
  BY DEF PathStates
<1>2. \A d \in Disparity : pixel[d] \in Nat /\ pixel[d] <= 48
  <2>1. \A d \in Disparity : pixel[d] \in 0..48
    BY Settings DEF PixelCosts, Costs
  <2>2. \A m \in 0..48 : m \in Nat /\ m <= 48
    OBVIOUS
  <2>3. QED
    BY <2>1, <2>2, Zenon
<1>3. \A d \in Disparity : cost(d) \in Nat /\ cost(d) <= 127
  BY <1>1, <1>2, NextCostIs
<1>4. t = [i \in 0..(D + 1) |-> IF i \in 1..D THEN cost(i - 1) ELSE 255]
  BY DEF Stepped, PathStep, Sentinel
<1> HIDE DEF t, cost
<1>5. \A i \in 1..D : i - 1 \in Disparity
  BY Settings DEF Disparity
<1>6. \A i \in 0..(D + 1) : t[i] \in Nat
  BY <1>3, <1>4, <1>5
<1>7. t \in [0..(D + 1) -> Nat]
  BY <1>4, <1>6
<1>8. t[0] = 255 /\ t[D + 1] = 255
  BY <1>4, Settings
<1>9. \A d \in Disparity : t[d + 1] = cost(d)
  <2>1. TAKE d \in Disparity
  <2>2. d + 1 \in 0..(D + 1) /\ d + 1 \in 1..D /\ (d + 1) - 1 = d
    BY Settings DEF Disparity
  <2>3. QED
    BY <1>4, <2>2
<1>10. t \in PathStates
  BY <1>3, <1>7, <1>8, <1>9 DEF PathStates
<1>11. QED
  BY <1>9, <1>10 DEF t, cost

\* A path starts from reset.
LEMMA ResetIs ==
  ASSUME NEW costs
  PROVE  StateOf(ResetState, costs, 0)
<1>1. \A d \in Disparity : ResetState[d + 1] = 0
  BY Settings DEF Disparity, ResetState
<1>2. ResetState \in PathStates
  <2>1. ResetState \in [0..(D + 1) -> Nat] /\ ResetState[0] = 255 /\ ResetState[D + 1] = 255
    BY Settings DEF ResetState, Sentinel
  <2>2. QED
    BY <1>1, <2>1 DEF PathStates
<1>3. LowestCost(ResetState) = 0
  <2>1. 0 \in Disparity
    BY Settings DEF Disparity
  <2>2. \A d \in Disparity : ResetState[d + 1] \in Nat /\ ResetState[0 + 1] <= ResetState[d + 1]
    BY <1>1, <2>1
  <2>3. LowestCost(ResetState) = ResetState[0 + 1]
    BY <2>1, <2>2, LowestOf
  <2>4. QED
    BY <1>1, <2>1, <2>3
<1>4. QED
  BY <1>1, <1>2, <1>3 DEF StateOf

\* A step leads from the state after n pixels to the one after n + 1.
LEMMA StepIs ==
  ASSUME NEW costs \in Seq(PixelCosts), NEW n \in 0..(Len(costs) - 1), NEW s, StateOf(s, costs, n)
  PROVE  StateOf(Stepped(s, costs[n + 1]), costs, n + 1)
<1> DEFINE t == Stepped(s, costs[n + 1])
           low == LowestCost(s)
           m(k) == Least(costs, k)
<1>1. n \in Nat /\ n + 1 \in 1..Len(costs) /\ n + 1 # 0 /\ (n + 1) - 1 = n /\ costs[n + 1] \in PixelCosts
  OBVIOUS
<1>2. s \in PathStates
  BY DEF StateOf
<1>3. t \in PathStates /\ \A d \in Disparity : t[d + 1] = NextCost(s, low, costs[n + 1][d], d)
  BY <1>1, <1>2, SteppedIs
<1>4. \A d \in Disparity : t[d + 1] \in Nat
  <2>1. \A d \in Disparity : d + 1 \in 0..(D + 1)
    BY Settings DEF Disparity
  <2> HIDE DEF t
  <2>2. t \in [0..(D + 1) -> Nat]
    BY <1>3 DEF PathStates
  <2>3. QED
    BY <2>1, <2>2
<1>5. ASSUME NEW d \in Disparity
      PROVE  t[d + 1] = LeastEnergy(costs, n + 1, d) - m(n)
  <2> DEFINE cost == costs[n + 1][d]
             after == NextCost(s, low, cost, d)
             e == LeastEnergy(costs, n + 1, d)
  <2>1. cost \in Nat /\ cost <= 48
    BY <1>1, CostIs
  <2>2. s \in [0..(D + 1) -> Nat] /\ s[0] = 255 /\ s[D + 1] = 255 /\ \A k \in Disparity : s[k + 1] <= 127
    BY <1>2 DEF PathStates
  <2> HIDE DEF cost
  <2>3. after \in Nat
        /\ (\A k \in Disparity : after <= s[k + 1] - low + Penalty(k, d) + cost)
        /\ \E k \in Disparity : after = s[k + 1] - low + Penalty(k, d) + cost
    BY <2>1, <2>2, NextCostIs
  <2>4. after = t[d + 1]
    BY <1>3 DEF cost
  <2>5. e \in Nat
    BY <1>1, LeastIs
  <2> HIDE DEF t, low, cost, after, e, m
  <2>6. CASE n = 0
    <3>1. e = cost
      <4>1. Len(costs) >= 1
        BY <1>1
      <4>2. QED
        BY <2>6, <4>1, LeastFirst DEF e, cost
    <3>2. low = 0 /\ \A k \in Disparity : s[k + 1] = 0
      BY <2>6 DEF StateOf, low
    <3>3. after <= cost
      <4>1. Penalty(d, d) = 0
        BY DEF Penalty
      <4>2. after <= s[d + 1] - low + Penalty(d, d) + cost
        BY <2>3
      <4>3. QED
        BY <2>1, <2>3, <3>2, <4>1, <4>2
    <3>4. cost <= after
      <4>1. PICK k \in Disparity : after = s[k + 1] - low + Penalty(k, d) + cost
        BY <2>3
      <4>2. s[k + 1] = 0 /\ Penalty(k, d) \in Nat
        BY <3>2, PenaltyIs
      <4>3. QED
        BY <2>1, <3>2, <4>1, <4>2
    <3>5. m(n) = 0
      BY <2>6 DEF Least, m
    <3>6. QED
      BY <2>1, <2>3, <2>4, <3>1, <3>3, <3>4, <3>5 DEF e, m
  <2>7. CASE n # 0
    <3>1. n \in 1..Len(costs) /\ n \in 1..(Len(costs) - 1) /\ (n - 1 # 0 => n - 1 \in 1..Len(costs))
      BY <1>1, <2>7
    <3>2. m(n) \in Nat
      BY <3>1, LeastOfAll DEF m
    <3>3. m(n - 1) \in Nat
      <4>1. CASE n - 1 = 0
        BY <4>1 DEF m, Least
      <4>2. CASE n - 1 # 0
        BY <3>1, <4>2, LeastOfAll DEF m
      <4>3. QED
        BY <4>1, <4>2
    <3>4. low = m(n) - m(n - 1)
      BY <2>7 DEF StateOf, low, m
    <3>5. \A k \in Disparity : /\ s[k + 1] = LeastEnergy(costs, n, k) - m(n - 1)
                               /\ LeastEnergy(costs, n, k) \in Nat /\ Penalty(k, d) \in Nat
      <4>1. TAKE k \in Disparity
      <4>2. s[k + 1] = LeastEnergy(costs, n, k) - m(n - 1)
        BY <2>7 DEF StateOf, m
      <4>3. LeastEnergy(costs, n, k) \in Nat
        BY <3>1, LeastIs
      <4>4. Penalty(k, d) \in Nat
        BY PenaltyIs
      <4>5. QED
        BY <4>2, <4>3, <4>4
    <3>6. /\ \A k \in Disparity : e <= LeastEnergy(costs, n, k) + Penalty(k, d) + cost
          /\ \E k \in Disparity : e = LeastEnergy(costs, n, k) + Penalty(k, d) + cost
      BY <3>1, LeastStep DEF e, cost
    <3>7. after + m(n) <= e
      <4>1. PICK k \in Disparity : e = LeastEnergy(costs, n, k) + Penalty(k, d) + cost
        BY <3>6
      <4>2. after <= s[k + 1] - low + Penalty(k, d) + cost
        BY <2>3
      <4>3. s[k + 1] = LeastEnergy(costs, n, k) - m(n - 1)
            /\ LeastEnergy(costs, n, k) \in Nat /\ Penalty(k, d) \in Nat
        BY <3>5
      <4>4. s[k + 1] - low = LeastEnergy(costs, n, k) - m(n)
        BY <3>2, <3>3, <3>4, <4>3
      <4>5. after <= LeastEnergy(costs, n, k) - m(n) + Penalty(k, d) + cost /\ after \in Nat
        BY <2>3, <4>2, <4>4
      <4>6. QED
        BY <2>1, <3>2, <4>1, <4>3, <4>5
    <3>8. e <= after + m(n)
      <4>1. PICK k \in Disparity : after = s[k + 1] - low + Penalty(k, d) + cost
        BY <2>3
      <4>2. e <= LeastEnergy(costs, n, k) + Penalty(k, d) + cost
        BY <3>6
      <4>3. s[k + 1] = LeastEnergy(costs, n, k) - m(n - 1)
            /\ LeastEnergy(costs, n, k) \in Nat /\ Penalty(k, d) \in Nat
        BY <3>5
      <4>4. s[k + 1] - low = LeastEnergy(costs, n, k) - m(n)
        BY <3>2, <3>3, <3>4, <4>3
      <4>5. after = LeastEnergy(costs, n, k) - m(n) + Penalty(k, d) + cost
        BY <4>1, <4>4
      <4>6. QED
        BY <2>1, <2>5, <3>2, <4>2, <4>3, <4>5
    <3>9. after = e - m(n)
      BY <2>3, <2>5, <3>2, <3>7, <3>8
    <3>10. QED
      BY <2>4, <3>9 DEF e, m
  <2>8. QED
    BY <2>6, <2>7
<1>6. LowestCost(t) = m(n + 1) - m(n)
  <2> HIDE DEF t
  <2>1. PICK k \in Disparity : m(n + 1) = LeastEnergy(costs, n + 1, k)
    BY <1>1, LeastOfAll
  <2>2. ASSUME NEW d \in Disparity PROVE t[k + 1] <= t[d + 1]
    <3>1. LeastEnergy(costs, n + 1, k) <= LeastEnergy(costs, n + 1, d)
      BY <1>1, <2>1, LeastOfAll
    <3>2. LeastEnergy(costs, n + 1, k) \in Nat /\ LeastEnergy(costs, n + 1, d) \in Nat
      BY <1>1, LeastIs
    <3>3. m(n) \in Nat
      <4>1. CASE n = 0
        BY <4>1 DEF Least
      <4>2. CASE n # 0
        <5>1. n \in 1..Len(costs)
          BY <1>1, <4>2
        <5>2. QED
          BY <5>1, LeastOfAll
      <4>3. QED
        BY <4>1, <4>2
    <3> HIDE DEF m
    <3>4. QED
      BY <1>5, <3>1, <3>2, <3>3
  <2>3. LowestCost(t) = t[k + 1]
    BY <1>4, <2>2, LowestOf
  <2>4. QED
    BY <1>5, <2>1, <2>3
<1>7. QED
  <2> HIDE DEF t
  <2>1. StateOf(t, costs, n + 1)
    BY <1>1, <1>3, <1>5, <1>6 DEF StateOf
  <2>2. QED
    BY <2>1 DEF t

\* The state is of the costs up to its pixel.
LEMMA StateAgrees ==
  ASSUME NEW costs \in Seq(PixelCosts), NEW other \in Seq(PixelCosts), NEW n \in Nat,
         n <= Len(costs), n <= Len(other), \A i \in 1..n : costs[i] = other[i],
         NEW s, StateOf(s, costs, n)
  PROVE  StateOf(s, other, n)
<1>1. CASE n = 0
  BY <1>1 DEF StateOf
<1>2. CASE n # 0
  <2>1. ASSUME NEW k \in Nat, k >= 1, k <= n, NEW d \in Disparity
        PROVE  LeastEnergy(costs, k, d) = LeastEnergy(other, k, d)
    <3>1. k <= Len(costs) /\ k <= Len(other) /\ \A i \in 1..k : costs[i] = other[i]
      BY <2>1
    <3>2. QED
      BY <2>1, <3>1, LeastAgrees
  <2>2. ASSUME NEW k \in Nat, k <= n PROVE Least(costs, k) = Least(other, k)
    <3>1. CASE k = 0
      BY <3>1 DEF Least
    <3>2. CASE k # 0
      <4>1. k >= 1
        BY <3>2
      <4>2. {LeastEnergy(costs, k, d) : d \in Disparity} = {LeastEnergy(other, k, d) : d \in Disparity}
        BY <2>1, <2>2, <4>1
      <4>3. QED
        BY <4>2 DEF Least
    <3>3. QED
      BY <3>1, <3>2
  <2>3. n >= 1 /\ n <= n /\ n - 1 \in Nat /\ n - 1 <= n
    BY <1>2
  <2>4. Least(costs, n) = Least(other, n) /\ Least(costs, n - 1) = Least(other, n - 1)
    BY <2>2, <2>3
  <2>5. \A d \in Disparity : LeastEnergy(costs, n, d) = LeastEnergy(other, n, d)
    BY <2>1, <2>3
  <2>6. QED
    BY <1>2, <2>4, <2>5 DEF StateOf
<1>3. QED
  BY <1>1, <1>2

\* The state of a path is that after all its pixels.
LEMMA PathStateIs ==
  ASSUME NEW costs \in Seq(PixelCosts)
  PROVE  StateOf(PathState(costs), costs, Len(costs))
<1> DEFINE N == Len(costs)
           Is(f) == f = [n \in 0..N |-> IF n = 0 THEN ResetState
                           ELSE PathStep(f[n - 1], LowestCost(f[n - 1]), costs[n])]
           step == [x \in (1..N) \X PathStates |-> Stepped(x[2], costs[x[1]])]
           after == CHOOSE f : Is(f)
<1>1. N \in Nat /\ \A n \in 1..N : costs[n] \in PixelCosts
  OBVIOUS
<1>2. PathState(costs) = after[N]
  BY DEF PathState
<1>3. step \in [(1..N) \X PathStates -> PathStates]
  BY <1>1, SteppedIs
<1>4. ResetState \in PathStates
  BY ResetIs DEF StateOf
<1> HIDE DEF N
<1>5. PICK f \in [0..N -> PathStates] : f[0] = ResetState /\ \A n \in 1..N : f[n] = step[<<n, f[n - 1]>>]
  <2> HIDE DEF step
  <2>1. \E f \in [0..N -> PathStates] : Goes(f, N, ResetState, step)
    BY <1>1, <1>3, <1>4, RecursionExists, Zenon
  <2>2. QED
    BY <2>1 DEF Goes
<1>6. \A n \in 1..N : f[n] = PathStep(f[n - 1], LowestCost(f[n - 1]), costs[n])
  <2>1. TAKE n \in 1..N
  <2>2. f[n - 1] \in PathStates
    BY <1>1
  <2>3. QED
    BY <1>5, <2>2 DEF Stepped
<1>7. Is(f)
  BY <1>1, <1>5, <1>6
<1>8. Is(after)
  BY <1>7
<1> HIDE DEF after
<1>9. after[0] = ResetState /\ \A n \in 1..N : after[n] = Stepped(after[n - 1], costs[n])
  BY <1>1, <1>8 DEF Stepped
<1> HIDE DEF Is
<1>10. \A n \in 0..N : StateOf(after[n], costs, n)
  <2> DEFINE T == {n \in 0..N : StateOf(after[n], costs, n)}
  <2>1. 0 \in T
    BY <1>1, <1>9, ResetIs
  <2>2. ASSUME NEW n \in 0..(N - 1), n \in T PROVE n + 1 \in T
    <3>1. n + 1 \in 1..N /\ (n + 1) - 1 = n /\ n \in 0..(Len(costs) - 1) /\ n + 1 \in 0..N
      BY <1>1 DEF N
    <3>2. StateOf(Stepped(after[n], costs[n + 1]), costs, n + 1)
      BY <2>2, <3>1, StepIs
    <3>3. QED
      BY <1>9, <3>1, <3>2
  <2> HIDE DEF T
  <2>3. \A n \in 0..N : n \in T
    BY <1>1, <2>1, <2>2, EachUpTo
  <2>4. QED
    BY <2>3 DEF T
<1>11. QED
  BY <1>1, <1>2, <1>10 DEF N

\* What a state holds at the end of a path is the path's cost.
LEMMA StateCosts ==
  ASSUME NEW costs \in Seq(PixelCosts), Len(costs) >= 1, NEW s, StateOf(s, costs, Len(costs)),
         NEW d \in Disparity
  PROVE  s[d + 1] = RefPathCost(costs, d) /\ s[d + 1] \in Nat /\ s[d + 1] <= 127
<1>1. Len(costs) # 0 /\ (Len(costs) = 1 <=> Len(costs) - 1 = 0)
  OBVIOUS
<1>2. s[d + 1] = LeastEnergy(costs, Len(costs), d) - Least(costs, Len(costs) - 1)
  BY <1>1 DEF StateOf
<1>3. s[d + 1] = RefPathCost(costs, d)
  BY <1>1, <1>2 DEF RefPathCost, Least
<1>4. d + 1 \in 0..(D + 1)
  BY Settings DEF Disparity
<1>5. QED
  BY <1>3, <1>4 DEF StateOf, PathStates

----------------------------------------------------------------------------
(* A row                                                                   *)

LEMMA BytesFit ==
  ASSUME NEW n \in Nat, n <= 255
  PROVE  n % 256 = n
  OBVIOUS

\* The paths of a row from its left border, and from its right.
Forward(pixels, x) == [i \in 1..(x + 1) |-> pixels[i - 1]]
Backward(pixels, x) == [i \in 1..(Width - x) |-> pixels[Width - i]]

\* They are not empty.
LEMMA RowPathsAre ==
  ASSUME NEW pixels \in [Column -> PixelCosts], NEW x \in Column
  PROVE  /\ Forward(pixels, x) \in Seq(PixelCosts) /\ Len(Forward(pixels, x)) = x + 1 /\ x + 1 >= 1
         /\ Backward(pixels, x) \in Seq(PixelCosts) /\ Len(Backward(pixels, x)) = Width - x
         /\ Width - x >= 1
<1>1. x \in Nat /\ x + 1 \in Nat /\ Width - x \in Nat /\ Width - x >= 1
  BY Settings DEF Column
<1>2. \A i \in 1..(x + 1) : i - 1 \in Column
  BY <1>1, Settings DEF Column
<1>3. \A i \in 1..(Width - x) : Width - i \in Column
  BY <1>1, Settings DEF Column
<1>4. Forward(pixels, x) \in [1..(x + 1) -> PixelCosts]
  BY <1>2 DEF Forward
<1>5. Backward(pixels, x) \in [1..(Width - x) -> PixelCosts]
  BY <1>3 DEF Backward
<1>6. QED
  BY <1>1, <1>4, <1>5

\* The sum in a byte is the sum of the two paths.
LEMMA RowIs ==
  ASSUME NEW pixels \in [Column -> PixelCosts], NEW x \in Column, NEW d \in Disparity
  PROVE  /\ HorizontalSum(pixels, x, d)
              = RefPathCost(Forward(pixels, x), d) + RefPathCost(Backward(pixels, x), d)
         /\ RefPathCost(Forward(pixels, x), d) \in Nat /\ RefPathCost(Backward(pixels, x), d) \in Nat
<1> DEFINE f == PathState(Forward(pixels, x))[d + 1]
           b == PathState(Backward(pixels, x))[d + 1]
<1>1. HorizontalSum(pixels, x, d) = (f + b) % 256
  BY DEF HorizontalSum, Forward, Backward
<1>2. f = RefPathCost(Forward(pixels, x), d) /\ f \in Nat /\ f <= 127
  BY RowPathsAre, PathStateIs, StateCosts
<1>3. b = RefPathCost(Backward(pixels, x), d) /\ b \in Nat /\ b <= 127
  BY RowPathsAre, PathStateIs, StateCosts
<1> HIDE DEF f, b
<1>4. f + b \in Nat /\ f + b <= 255
  BY <1>2, <1>3
<1>5. (f + b) % 256 = f + b
  BY <1>4, BytesFit
<1>6. QED
  BY <1>1, <1>2, <1>3, <1>5

\* A row's computation is right.
LEMMA RowCorrect ==
  ASSUME NEW c \in RowCases
  PROVE  Correct(c)
<1>1. c.kind = "row" /\ c.costs \in [Column -> PixelCosts]
  <2>1. c.kind = "row" /\ c.costs \in [Column -> [Disparity -> Cost]]
    BY DEF RowCases
  <2>2. [Disparity -> Cost] \subseteq PixelCosts
    BY MatcherAssumption DEF PixelCosts, Costs
  <2>3. QED
    BY <2>1, <2>2
<1>2. ASSUME NEW x \in Column, NEW d \in Disparity
      PROVE  HorizontalSum(c.costs, x, d) = RefPathCost([i \in 1..(x + 1) |-> c.costs[i - 1]], d)
               + RefPathCost([i \in 1..(Width - x) |-> c.costs[Width - i]], d)
  BY <1>1, RowIs DEF Forward, Backward
<1>3. QED
  BY <1>1, <1>2 DEF Correct

----------------------------------------------------------------------------
(* An image                                                                *)

\* The pixel n steps back from one, against a direction.
Inside(y, x, dy, dx, n) == y - n * dy \in 0..(Rows - 1) /\ x - n * dx \in Column

Direction == {-1, 0, 1}

\* A path is inside the image from its start at the border on.
LEMMA InsideConvex ==
  ASSUME NEW y \in 0..(Rows - 1), NEW x \in Column, NEW dy \in Direction, NEW dx \in Direction,
         NEW n \in Nat, NEW k \in Nat, k <= n, Inside(y, x, dy, dx, n)
  PROVE  Inside(y, x, dy, dx, k)
<1>1. y \in Int /\ x \in Int /\ 0 <= y /\ y <= Rows - 1 /\ 0 <= x /\ x <= Width - 1
      /\ Rows \in Nat /\ Width \in Nat
  BY Settings, MatcherAssumption DEF Column
<1>2. \A v \in Int, M \in Nat : v \in 0..(M - 1) <=> 0 <= v /\ v <= M - 1
  OBVIOUS
<1>3. ASSUME NEW v \in Int, NEW M \in Nat, 0 <= v, v <= M - 1, NEW dv \in Direction,
             0 <= v - n * dv, v - n * dv <= M - 1
      PROVE  v - k * dv \in Int /\ 0 <= v - k * dv /\ v - k * dv <= M - 1
  <2>1. CASE dv = 1
    BY <1>3, <2>1
  <2>2. CASE dv = 0
    BY <1>3, <2>2
  <2>3. CASE dv = -1
    BY <1>3, <2>3
  <2>4. QED
    BY <2>1, <2>2, <2>3 DEF Direction
<1>4. y - n * dy \in Int /\ x - n * dx \in Int
  BY <1>1 DEF Direction
<1>5. 0 <= y - n * dy /\ y - n * dy <= Rows - 1 /\ 0 <= x - n * dx /\ x - n * dx <= Width - 1
  BY <1>1, <1>2, <1>4 DEF Inside, Column
<1>6. y - k * dy \in Int /\ 0 <= y - k * dy /\ y - k * dy <= Rows - 1
  BY <1>1, <1>3, <1>5
<1>7. x - k * dx \in Int /\ 0 <= x - k * dx /\ x - k * dx <= Width - 1
  BY <1>1, <1>3, <1>5
<1>8. QED
  BY <1>1, <1>6, <1>7 DEF Inside, Column

\* n pixels lie on a path up to a pixel.
LengthIs(y, x, dy, dx, n) ==
  n \in 1..(Rows + Width) /\ Inside(y, x, dy, dx, n - 1) /\ ~Inside(y, x, dy, dx, n)

\* A path has one length.
LEMMA OneLength ==
  ASSUME NEW y \in 0..(Rows - 1), NEW x \in Column, NEW dy \in Direction, NEW dx \in Direction,
         NEW n, NEW m, LengthIs(y, x, dy, dx, n), LengthIs(y, x, dy, dx, m)
  PROVE  n = m
<1>1. n \in Nat /\ m \in Nat /\ n - 1 \in Nat /\ m - 1 \in Nat
  BY Settings, MatcherAssumption DEF LengthIs
<1>2. ~(n <= m - 1)
  BY <1>1, InsideConvex DEF LengthIs
<1>3. ~(m <= n - 1)
  BY <1>1, InsideConvex DEF LengthIs
<1>4. QED
  BY <1>1, <1>2, <1>3

\* A path has a length: it leaves the image in the end.
LEMMA LengthExists ==
  ASSUME NEW y \in 0..(Rows - 1), NEW x \in Column, NEW dy \in Direction, NEW dx \in Direction,
         dy # 0 \/ dx # 0
  PROVE  \E n : LengthIs(y, x, dy, dx, n)
<1> DEFINE N == Rows + Width
<1>1. Rows \in Nat /\ Width \in Nat /\ N \in Nat /\ y \in Int /\ x \in Int
      /\ 0 <= y /\ y <= Rows - 1 /\ 0 <= x /\ x <= Width - 1
  BY Settings, MatcherAssumption DEF Column
<1>2. Inside(y, x, dy, dx, 0)
  BY <1>1 DEF Inside, Direction
<1>3. ~Inside(y, x, dy, dx, N)
  <2>1. CASE dy = 1
    BY <1>1, <2>1 DEF Inside
  <2>2. CASE dy = -1
    BY <1>1, <2>2 DEF Inside
  <2>3. CASE dx = 1
    BY <1>1, <2>3 DEF Inside, Column
  <2>4. CASE dx = -1
    BY <1>1, <2>4 DEF Inside, Column
  <2>5. QED
    BY <2>1, <2>2, <2>3, <2>4 DEF Direction
<1> DEFINE T == {n \in 0..N : Inside(y, x, dy, dx, n)}
<1>4. SUFFICES ASSUME \A n : ~LengthIs(y, x, dy, dx, n) PROVE FALSE
  OBVIOUS
<1>5. \A n \in 0..(N - 1) : n \in T => n + 1 \in T
  <2>1. TAKE n \in 0..(N - 1)
  <2>2. HAVE n \in T
  <2>3. n + 1 \in 1..N /\ n + 1 \in 0..N /\ (n + 1) - 1 = n
    BY <1>1
  <2>4. Inside(y, x, dy, dx, (n + 1) - 1)
    BY <2>2, <2>3
  <2>5. Inside(y, x, dy, dx, n + 1)
    BY <1>4, <2>3, <2>4 DEF LengthIs
  <2>6. QED
    BY <2>3, <2>5
<1>6. 0 \in T
  BY <1>1, <1>2
<1> HIDE DEF T
<1>7. N \in T
  <2>1. \A n \in 0..N : n \in T
    BY <1>1, <1>5, <1>6, EachUpTo
  <2>2. QED
    BY <1>1, <2>1
<1>8. QED
  BY <1>3, <1>7 DEF T

\* The costs a path of n pixels meets.
RayOf(costs, y, x, dy, dx, n) == [i \in 1..n |-> costs[y - (n - i) * dy][x - (n - i) * dx]]

Ray(costs, y, x, dy, dx) == RefRay(costs, Rows, y, x, <<dy, dx>>)

\* The reference collects them.
LEMMA RayIs ==
  ASSUME NEW costs \in Image(PixelCosts), NEW y \in 0..(Rows - 1), NEW x \in Column,
         NEW dy \in Direction, NEW dx \in Direction, NEW n, LengthIs(y, x, dy, dx, n)
  PROVE  /\ Ray(costs, y, x, dy, dx) = RayOf(costs, y, x, dy, dx, n)
         /\ RayOf(costs, y, x, dy, dx, n) \in Seq(PixelCosts)
         /\ Len(RayOf(costs, y, x, dy, dx, n)) = n /\ n \in Nat /\ n >= 1
<1> DEFINE length == CHOOSE m \in 1..(Rows + Width) : Inside(y, x, dy, dx, m - 1) /\ ~Inside(y, x, dy, dx, m)
<1>1. LengthIs(y, x, dy, dx, length)
  BY DEF LengthIs
<1>2. length = n
  <2> HIDE DEF length
  <2>1. QED
    BY <1>1, OneLength
<1>3. Ray(costs, y, x, dy, dx) = RayOf(costs, y, x, dy, dx, length)
  BY DEF Ray, RefRay, RayOf, Inside
<1> HIDE DEF length
<1>4. n \in Nat /\ n >= 1
  BY Settings, MatcherAssumption DEF LengthIs
<1>5. \A i \in 1..n : costs[y - (n - i) * dy][x - (n - i) * dx] \in PixelCosts
  <2>1. TAKE i \in 1..n
  <2>2. n - i \in Nat /\ n - i <= n - 1 /\ n - 1 \in Nat
    BY <1>4
  <2>3. Inside(y, x, dy, dx, n - i)
    <3>1. Inside(y, x, dy, dx, n - 1)
      BY DEF LengthIs
    <3>2. QED
      BY <2>2, <3>1, InsideConvex
  <2>4. QED
    BY <2>3 DEF Inside, Image
<1>6. RayOf(costs, y, x, dy, dx, n) \in [1..n -> PixelCosts]
  BY <1>5 DEF RayOf
<1>7. QED
  BY <1>2, <1>3, <1>4, <1>6

\* The path of a pixel whose predecessor is in the image is the
\* predecessor's, and the pixel itself.
LEMMA RayGoesOn ==
  ASSUME NEW y \in 0..(Rows - 1), NEW x \in Column, NEW dy \in Direction, NEW dx \in Direction,
         NEW m, LengthIs(y, x, dy, dx, m), Inside(y, x, dy, dx, 1), NEW costs
  PROVE  /\ y - dy \in 0..(Rows - 1) /\ x - dx \in Column
         /\ LengthIs(y - dy, x - dx, dy, dx, m - 1)
         /\ \A i \in 1..(m - 1) :
              RayOf(costs, y, x, dy, dx, m)[i] = RayOf(costs, y - dy, x - dx, dy, dx, m - 1)[i]
<1>1. m \in Nat /\ m >= 1 /\ m <= Rows + Width /\ Rows \in Nat /\ Width \in Nat /\ y \in Int /\ x \in Int
      /\ dy \in Int /\ dx \in Int
  BY Settings, MatcherAssumption DEF LengthIs, Column, Direction
<1>2. y - 1 * dy = y - dy /\ x - 1 * dx = x - dx
  BY <1>1
<1>3. y - dy \in 0..(Rows - 1) /\ x - dx \in Column
  BY <1>2 DEF Inside
<1>4. m # 1
  BY DEF LengthIs
<1>5. \A n \in Int : y - n * dy = (y - dy) - (n - 1) * dy /\ x - n * dx = (x - dx) - (n - 1) * dx
  <2>1. ASSUME NEW v \in Int, NEW dv \in Direction, NEW n \in Int
        PROVE  v - n * dv = (v - dv) - (n - 1) * dv
    <3>1. CASE dv = 1
      BY <3>1
    <3>2. CASE dv = 0
      BY <3>2
    <3>3. CASE dv = -1
      BY <3>3
    <3>4. QED
      BY <3>1, <3>2, <3>3 DEF Direction
  <2>2. QED
    BY <1>1, <2>1
<1>6. \A n \in Int : Inside(y - dy, x - dx, dy, dx, n - 1) <=> Inside(y, x, dy, dx, n)
  BY <1>5 DEF Inside
<1>7. m - 1 \in 1..(Rows + Width) /\ m \in Int /\ m - 1 \in Int
  BY <1>1, <1>4
<1>8. LengthIs(y - dy, x - dx, dy, dx, m - 1)
  BY <1>6, <1>7 DEF LengthIs
<1>9. ASSUME NEW i \in 1..(m - 1)
      PROVE  RayOf(costs, y, x, dy, dx, m)[i] = RayOf(costs, y - dy, x - dx, dy, dx, m - 1)[i]
  <2>1. i \in 1..m /\ m - i \in Int /\ (m - i) - 1 = (m - 1) - i
    BY <1>1
  <2>2. y - (m - i) * dy = (y - dy) - ((m - 1) - i) * dy /\ x - (m - i) * dx = (x - dx) - ((m - 1) - i) * dx
    BY <1>5, <2>1
  <2>3. QED
    BY <2>1, <2>2 DEF RayOf
<1>10. QED
  BY <1>3, <1>8, <1>9

\* A path without a predecessor in the image is a pixel.
LEMMA RayStarts ==
  ASSUME NEW y \in 0..(Rows - 1), NEW x \in Column, NEW dy \in Direction, NEW dx \in Direction,
         NEW m, LengthIs(y, x, dy, dx, m), ~Inside(y, x, dy, dx, 1)
  PROVE  m = 1
<1>1. m \in Nat /\ m >= 1 /\ m - 1 \in Nat
  BY Settings, MatcherAssumption DEF LengthIs
<1>2. ~(1 <= m - 1)
  BY <1>1, InsideConvex DEF LengthIs
<1>3. QED
  BY <1>1, <1>2

\* It ends at the pixel itself.
LEMMA RayEnds ==
  ASSUME NEW y \in 0..(Rows - 1), NEW x \in Column, NEW dy \in Direction, NEW dx \in Direction,
         NEW m \in Nat, m >= 1, NEW costs
  PROVE  RayOf(costs, y, x, dy, dx, m)[m] = costs[y][x]
<1>1. m \in 1..m /\ y \in Int /\ x \in Int /\ dy \in Int /\ dx \in Int
  BY Settings, MatcherAssumption DEF Column, Direction
<1>2. m - m = 0
  OBVIOUS
<1>3. \A v, dv \in Int : v - 0 * dv = v
  OBVIOUS
<1>4. y - (m - m) * dy = y /\ x - (m - m) * dx = x
  BY <1>1, <1>2, <1>3
<1>5. QED
  BY <1>1, <1>4 DEF RayOf

\* What a sweep goes on from, and the row it does n-th.
Before(line, x, dx) == IF x - dx \in Column THEN line[x - dx] ELSE ResetState
RowAt(down, n) == IF down THEN n - 1 ELSE Rows - n
Down(down) == IF down THEN 1 ELSE -1

\* The states of the row that is done n-th are those after its pixels' paths.
RowStates(line, costs, down, dx, n) ==
  /\ line \in [Column -> PathStates]
  /\ n = 0 => \A x \in Column : line[x] = ResetState
  /\ n # 0 => \A x \in Column : \E m :
       /\ LengthIs(RowAt(down, n), x, Down(down), dx, m)
       /\ StateOf(line[x], RayOf(costs, RowAt(down, n), x, Down(down), dx, m), m)

\* The row swept next.
NextRowStates(line, costs, down, dx, n) ==
  [x \in Column |-> Stepped(Before(line, x, dx), costs[RowAt(down, n)][x])]

\* A sweep comes from outside the image, and goes on to a next row.
LEMMA RowsAt ==
  ASSUME NEW down \in BOOLEAN, NEW n \in 1..Rows
  PROVE  /\ RowAt(down, n) \in 0..(Rows - 1) /\ Down(down) \in Direction /\ Down(down) # 0
         /\ \A x, dx : n = 1 => ~Inside(RowAt(down, n), x, Down(down), dx, 1)
         /\ RowAt(down, n) - Down(down) = RowAt(down, n - 1)
<1>1. Rows \in Nat /\ n \in Nat /\ n >= 1 /\ n <= Rows
  BY MatcherAssumption
<1>2. CASE down = TRUE
  BY <1>1, <1>2 DEF RowAt, Down, Direction, Inside
<1>3. CASE down = FALSE
  BY <1>1, <1>3 DEF RowAt, Down, Direction, Inside
<1>4. QED
  BY <1>2, <1>3

\* What a sweep goes on from is a state.
LEMMA BeforeIs ==
  ASSUME NEW line \in [Column -> PathStates], NEW x, NEW dx
  PROVE  Before(line, x, dx) \in PathStates
<1>1. ResetState \in PathStates
  BY ResetIs DEF StateOf
<1>2. QED
  BY <1>1 DEF Before

\* A row swept holds the states of its pixels.
LEMMA NextRowIs ==
  ASSUME NEW costs \in Image(PixelCosts), NEW down \in BOOLEAN, NEW dx \in Direction,
         NEW n \in 1..Rows, NEW line, RowStates(line, costs, down, dx, n - 1)
  PROVE  RowStates(NextRowStates(line, costs, down, dx, n), costs, down, dx, n)
<1> DEFINE y == RowAt(down, n)
           dy == Down(down)
           new == NextRowStates(line, costs, down, dx, n)
<1>1. y \in 0..(Rows - 1) /\ dy \in Direction /\ dy # 0 /\ n \in Nat /\ n >= 1 /\ n # 0
      /\ y - dy = RowAt(down, n - 1) /\ \A x : n = 1 => ~Inside(y, x, dy, dx, 1)
  BY RowsAt, MatcherAssumption
<1>2. line \in [Column -> PathStates]
  BY DEF RowStates
<1>3. \A x \in Column : costs[y][x] \in PixelCosts
  BY <1>1 DEF Image
<1>4. n # 1 => n - 1 \in 1..Rows
  BY MatcherAssumption
<1>5. new \in [Column -> PathStates]
  <2>1. \A x \in Column : Stepped(Before(line, x, dx), costs[y][x]) \in PathStates
    BY <1>2, <1>3, BeforeIs, SteppedIs
  <2>2. QED
    BY <2>1 DEF NextRowStates
<1>6. ASSUME NEW x \in Column
      PROVE  \E m : LengthIs(y, x, dy, dx, m) /\ StateOf(new[x], RayOf(costs, y, x, dy, dx, m), m)
  <2>1. PICK m : LengthIs(y, x, dy, dx, m)
    BY <1>1, LengthExists
  <2> DEFINE ray == RayOf(costs, y, x, dy, dx, m)
             from == Before(line, x, dx)
  <2>2. new[x] = Stepped(from, costs[y][x])
    BY DEF NextRowStates
  <2> HIDE DEF y, dy, new
  <2>3. ray \in Seq(PixelCosts) /\ Len(ray) = m /\ m \in Nat /\ m >= 1
    BY <1>1, <2>1, RayIs
  <2>4. ray[m] = costs[y][x]
    BY <1>1, <2>3, RayEnds
  <2>5. StateOf(from, ray, m - 1)
    <3>1. CASE Inside(y, x, dy, dx, 1)
      <4>1. /\ y - dy \in 0..(Rows - 1) /\ x - dx \in Column
            /\ LengthIs(y - dy, x - dx, dy, dx, m - 1)
            /\ \A i \in 1..(m - 1) : ray[i] = RayOf(costs, y - dy, x - dx, dy, dx, m - 1)[i]
        BY <1>1, <2>1, <3>1, RayGoesOn
      <4>2. n - 1 # 0
        BY <1>1, <3>1
      <4>3. PICK k : /\ LengthIs(y - dy, x - dx, dy, dx, k)
                     /\ StateOf(line[x - dx], RayOf(costs, y - dy, x - dx, dy, dx, k), k)
        BY <1>1, <4>1, <4>2 DEF RowStates, dy
      <4>4. k = m - 1
        BY <1>1, <4>1, <4>3, OneLength
      <4> DEFINE other == RayOf(costs, y - dy, x - dx, dy, dx, m - 1)
      <4>5. other \in Seq(PixelCosts) /\ Len(other) = m - 1 /\ m - 1 \in Nat
        BY <1>1, <4>1, RayIs
      <4>6. StateOf(line[x - dx], other, m - 1)
        BY <4>3, <4>4
      <4>7. \A i \in 1..(m - 1) : other[i] = ray[i]
        BY <4>1
      <4>8. m - 1 <= Len(other) /\ m - 1 <= Len(ray)
        BY <2>3, <4>5
      <4> HIDE DEF other, ray
      <4>9. StateOf(line[x - dx], ray, m - 1)
        BY <2>3, <4>5, <4>6, <4>7, <4>8, StateAgrees
      <4>10. QED
        BY <4>1, <4>9 DEF Before
    <3>2. CASE ~Inside(y, x, dy, dx, 1)
      <4>1. m = 1
        BY <1>1, <2>1, <3>2, RayStarts
      <4>2. from = ResetState
        <5>1. CASE x - dx \in Column
          <6>1. ~(y - dy \in 0..(Rows - 1))
            <7>1. y \in Int /\ x \in Int /\ dy \in Int /\ dx \in Int
              BY <1>1, Settings, MatcherAssumption DEF Column, Direction
            <7>2. y - 1 * dy = y - dy /\ x - 1 * dx = x - dx
              BY <7>1
            <7>3. QED
              BY <3>2, <5>1, <7>2 DEF Inside
          <6>2. n = 1
            <7>1. ASSUME n # 1 PROVE FALSE
              <8>1. RowAt(down, n - 1) \in 0..(Rows - 1)
                BY <1>4, <7>1, RowsAt
              <8>2. QED
                BY <1>1, <6>1, <8>1
            <7>2. QED
              BY <7>1
          <6>3. line[x - dx] = ResetState
            BY <5>1, <6>2 DEF RowStates
          <6>4. QED
            BY <5>1, <6>3 DEF Before
        <5>2. CASE x - dx \notin Column
          BY <5>2 DEF Before
        <5>3. QED
          BY <5>1, <5>2
      <4>3. QED
        BY <4>1, <4>2, ResetIs
    <3>3. QED
      BY <3>1, <3>2
  <2>6. m - 1 \in 0..(Len(ray) - 1) /\ (m - 1) + 1 = m
    BY <2>3
  <2> HIDE DEF ray, from
  <2>7. StateOf(Stepped(from, ray[(m - 1) + 1]), ray, (m - 1) + 1)
    BY <2>3, <2>5, <2>6, StepIs
  <2>8. QED
    BY <2>1, <2>2, <2>4, <2>6, <2>7 DEF ray
<1>7. QED
  BY <1>1, <1>5, <1>6 DEF RowStates

\* The states of a swept row are those of its pixels' paths.
LEMMA SweptIs ==
  ASSUME NEW costs \in Image(PixelCosts), NEW down \in BOOLEAN, NEW dx \in Direction,
         NEW y \in 0..(Rows - 1), NEW x \in Column, NEW d \in Disparity
  PROVE  LET cost == SweptStates(costs, Rows, down, dx)[y][x][d + 1]
         IN  cost = RefPathCost(Ray(costs, y, x, Down(down), dx), d) /\ cost \in Nat
<1> DEFINE S == [Column -> PathStates]
           reset == [k \in Column |-> ResetState]
           before(line, k) == IF k - dx \in Column THEN line[k - dx] ELSE ResetState
           rowOf(f, n) == [k \in Column |->
                             IF n = 0 THEN ResetState
                             ELSE PathStep(before(f[n - 1], k), LowestCost(before(f[n - 1], k)),
                                           costs[IF down THEN n - 1 ELSE Rows - n][k])]
           Is(f) == f = [n \in 0..Rows |-> rowOf(f, n)]
           after == CHOOSE f : Is(f)
           step == [p \in (1..Rows) \X S |-> NextRowStates(p[2], costs, down, dx, p[1])]
           at == IF down THEN y + 1 ELSE Rows - y
<1>1. Rows \in Nat /\ Rows >= 1
  BY MatcherAssumption
<1>2. SweptStates(costs, Rows, down, dx)[y] = after[at]
  BY DEF SweptStates
<1>3. reset \in S
  BY ResetIs DEF StateOf
<1>4. \A n \in 1..Rows, line \in S : NextRowStates(line, costs, down, dx, n) \in S
  <2>1. TAKE n \in 1..Rows, line \in S
  <2>2. RowAt(down, n) \in 0..(Rows - 1)
    BY RowsAt
  <2>3. \A k \in Column : Stepped(Before(line, k, dx), costs[RowAt(down, n)][k]) \in PathStates
    BY <2>2, BeforeIs, SteppedIs DEF Image
  <2>4. QED
    BY <2>3 DEF NextRowStates
<1>5. step \in [(1..Rows) \X S -> S]
  BY <1>4
<1>6. PICK f \in [0..Rows -> S] : f[0] = reset /\ \A n \in 1..Rows : f[n] = step[<<n, f[n - 1]>>]
  <2> HIDE DEF step, S, reset
  <2>1. \E f \in [0..Rows -> S] : Goes(f, Rows, reset, step)
    BY <1>1, <1>3, <1>5, RecursionExists, Zenon
  <2>2. QED
    BY <2>1 DEF Goes
<1>7. \A n \in 1..Rows : f[n] = NextRowStates(f[n - 1], costs, down, dx, n)
  <2>1. TAKE n \in 1..Rows
  <2>2. f[n - 1] \in S
    BY <1>1
  <2>3. QED
    BY <1>6, <2>2
<1>8. \A g : rowOf(g, 0) = reset
             /\ \A n \in 1..Rows : rowOf(g, n) = NextRowStates(g[n - 1], costs, down, dx, n)
  <2>1. TAKE g
  <2>2. rowOf(g, 0) = reset
    OBVIOUS
  <2>3. ASSUME NEW n \in 1..Rows PROVE rowOf(g, n) = NextRowStates(g[n - 1], costs, down, dx, n)
    <3>1. n # 0
      BY <1>1
    <3>2. QED
      BY <3>1 DEF NextRowStates, Stepped, Before, RowAt
  <2>4. QED
    BY <2>2, <2>3
<1>9. Is(after)
  <2> HIDE DEF rowOf
  <2>1. \A n \in 0..Rows : f[n] = rowOf(f, n)
    <3>1. \A n \in 0..Rows : n = 0 \/ n \in 1..Rows
      BY <1>1
    <3>2. f[0] = rowOf(f, 0)
      BY <1>6, <1>8
    <3>3. ASSUME NEW n \in 1..Rows PROVE f[n] = rowOf(f, n)
      BY <1>7, <1>8
    <3>4. QED
      BY <3>1, <3>2, <3>3
  <2>2. Is(f)
    BY <2>1
  <2>3. QED
    BY <2>2
<1> HIDE DEF after
<1>10. after[0] = reset /\ \A n \in 1..Rows : after[n] = NextRowStates(after[n - 1], costs, down, dx, n)
  <2> HIDE DEF rowOf
  <2>1. \A n \in 0..Rows : after[n] = rowOf(after, n)
    BY <1>9
  <2>2. 0 \in 0..Rows /\ \A n \in 1..Rows : n \in 0..Rows
    BY <1>1
  <2>3. QED
    BY <1>8, <2>1, <2>2
<1> HIDE DEF Is
<1>11. \A n \in 0..Rows : RowStates(after[n], costs, down, dx, n)
  <2> DEFINE T == {n \in 0..Rows : RowStates(after[n], costs, down, dx, n)}
  <2>1. 0 \in T
    BY <1>1, <1>3, <1>10 DEF RowStates
  <2>2. ASSUME NEW n \in 0..(Rows - 1), n \in T PROVE n + 1 \in T
    <3>1. n + 1 \in 1..Rows /\ (n + 1) - 1 = n /\ n + 1 \in 0..Rows
      BY <1>1
    <3>2. RowStates(NextRowStates(after[n], costs, down, dx, n + 1), costs, down, dx, n + 1)
      BY <2>2, <3>1, NextRowIs
    <3>3. QED
      BY <1>10, <3>1, <3>2
  <2> HIDE DEF T
  <2>3. \A n \in 0..Rows : n \in T
    BY <1>1, <2>1, <2>2, EachUpTo
  <2>4. QED
    BY <2>3 DEF T
<1>12. at \in 1..Rows /\ at # 0 /\ at \in 0..Rows /\ RowAt(down, at) = y
  BY <1>1 DEF RowAt
<1> HIDE DEF at, S, reset, step
<1>13. PICK m : /\ LengthIs(y, x, Down(down), dx, m)
                /\ StateOf(after[at][x], RayOf(costs, y, x, Down(down), dx, m), m)
  BY <1>11, <1>12 DEF RowStates
<1>14. Down(down) \in Direction
  BY DEF Down, Direction
<1> DEFINE ray == RayOf(costs, y, x, Down(down), dx, m)
<1>15. Ray(costs, y, x, Down(down), dx) = ray /\ ray \in Seq(PixelCosts) /\ Len(ray) = m /\ m >= 1
  BY <1>13, <1>14, RayIs
<1>16. after[at][x][d + 1] = RefPathCost(ray, d) /\ after[at][x][d + 1] \in Nat
  <2>1. StateOf(after[at][x], ray, Len(ray)) /\ Len(ray) >= 1
    BY <1>13, <1>15
  <2> HIDE DEF ray
  <2>2. QED
    BY <1>15, <2>1, StateCosts
<1>17. QED
  BY <1>2, <1>15, <1>16

\* The horizontal paths of a row are its rays.
LEMMA RowRays ==
  ASSUME NEW costs \in Image(PixelCosts), NEW y \in 0..(Rows - 1), NEW x \in Column
  PROVE  /\ Ray(costs, y, x, 0, 1) = Forward(costs[y], x)
         /\ Ray(costs, y, x, 0, -1) = Backward(costs[y], x)
<1>1. Rows \in Nat /\ Width \in Nat /\ y \in Int /\ x \in Nat /\ 0 <= y /\ y <= Rows - 1 /\ x <= Width - 1
  BY Settings, MatcherAssumption DEF Column
<1>2. 0 \in Direction /\ 1 \in Direction /\ -1 \in Direction
  BY DEF Direction
<1>3. Ray(costs, y, x, 0, 1) = RayOf(costs, y, x, 0, 1, x + 1)
  <2>1. LengthIs(y, x, 0, 1, x + 1)
    BY <1>1 DEF LengthIs, Inside, Column
  <2>2. QED
    BY <1>2, <2>1, RayIs
<1>4. Ray(costs, y, x, 0, -1) = RayOf(costs, y, x, 0, -1, Width - x)
  <2>1. LengthIs(y, x, 0, -1, Width - x)
    BY <1>1 DEF LengthIs, Inside, Column
  <2>2. QED
    BY <1>2, <2>1, RayIs
<1>5. RayOf(costs, y, x, 0, 1, x + 1) = Forward(costs[y], x)
  <2>1. \A i \in 1..(x + 1) : y - ((x + 1) - i) * 0 = y /\ x - ((x + 1) - i) * 1 = i - 1
    BY <1>1
  <2>2. QED
    BY <2>1 DEF RayOf, Forward
<1>6. RayOf(costs, y, x, 0, -1, Width - x) = Backward(costs[y], x)
  <2>1. \A i \in 1..(Width - x) : y - ((Width - x) - i) * 0 = y /\ x - ((Width - x) - i) * (-1) = Width - i
    BY <1>1
  <2>2. QED
    BY <2>1 DEF RayOf, Backward
<1>7. QED
  BY <1>3, <1>4, <1>5, <1>6

LEMMA SumOfEight ==
  ASSUME NEW a \in Nat, NEW b \in Nat, NEW c \in Nat, NEW d \in Nat,
         NEW e \in Nat, NEW f \in Nat, NEW g \in Nat, NEW h \in Nat
  PROVE  (a + b) + (c + d + e) + (f + g + h) = a + b + c + d + e + f + g + h
  OBVIOUS

\* An image's computation is right.
LEMMA ImageCorrect ==
  ASSUME NEW c \in ImageCases
  PROVE  Correct(c)
<1>1. c.kind = "image" /\ c.costs \in Image(PixelCosts)
  <2>1. c.kind = "image" /\ c.costs \in Image([Disparity -> Cost])
    BY MatcherAssumption DEF ImageCases
  <2>2. [Disparity -> Cost] \subseteq PixelCosts
    BY MatcherAssumption DEF PixelCosts, Costs
  <2>3. Image([Disparity -> Cost]) \subseteq Image(PixelCosts)
    BY <2>2 DEF Image
  <2>4. QED
    BY <2>1, <2>3
<1>2. ASSUME NEW costs \in Image(PixelCosts), NEW y \in 0..(Rows - 1), NEW x \in Column, NEW d \in Disparity
      PROVE  EightPathSums(costs, Rows)[y][x][d] = RefAggregate(costs, Rows, y, x, d)
  <2> DEFINE swept(down, dx) == SweptStates(costs, Rows, down, dx)[y][x][d + 1]
             path(dy, dx) == RefPathCost(Ray(costs, y, x, dy, dx), d)
             across == HorizontalSum(costs[y], x, d)
  <2>1. EightPathSums(costs, Rows)[y][x][d]
          = across + (swept(TRUE, -1) + swept(TRUE, 0) + swept(TRUE, 1))
                + (swept(FALSE, -1) + swept(FALSE, 0) + swept(FALSE, 1))
    BY DEF EightPathSums
  <2>2. RefAggregate(costs, Rows, y, x, d)
          = path(0, 1) + path(0, -1) + path(1, -1) + path(1, 0) + path(1, 1)
              + path(-1, -1) + path(-1, 0) + path(-1, 1)
    BY DEF RefAggregate, Ray
  <2>3. across = path(0, 1) + path(0, -1) /\ path(0, 1) \in Nat /\ path(0, -1) \in Nat
    <3>1. costs[y] \in [Column -> PixelCosts]
      BY DEF Image
    <3>2. QED
      BY <3>1, RowIs, RowRays
  <2>4. \A dx \in Direction :
          /\ swept(TRUE, dx) = path(1, dx) /\ path(1, dx) \in Nat
          /\ swept(FALSE, dx) = path(-1, dx) /\ path(-1, dx) \in Nat
    <3>1. TAKE dx \in Direction
    <3>2. swept(TRUE, dx) = path(Down(TRUE), dx) /\ swept(TRUE, dx) \in Nat
      BY SweptIs
    <3>3. swept(FALSE, dx) = path(Down(FALSE), dx) /\ swept(FALSE, dx) \in Nat
      BY SweptIs
    <3>4. Down(TRUE) = 1 /\ Down(FALSE) = -1
      BY DEF Down
    <3>5. QED
      BY <3>2, <3>3, <3>4
  <2>5. -1 \in Direction /\ 0 \in Direction /\ 1 \in Direction
    BY DEF Direction
  <2> HIDE DEF swept, path, across
  <2>6. /\ swept(TRUE, -1) = path(1, -1) /\ path(1, -1) \in Nat
        /\ swept(TRUE, 0) = path(1, 0) /\ path(1, 0) \in Nat
        /\ swept(TRUE, 1) = path(1, 1) /\ path(1, 1) \in Nat
        /\ swept(FALSE, -1) = path(-1, -1) /\ path(-1, -1) \in Nat
        /\ swept(FALSE, 0) = path(-1, 0) /\ path(-1, 0) \in Nat
        /\ swept(FALSE, 1) = path(-1, 1) /\ path(-1, 1) \in Nat
    BY <2>4, <2>5
  <2>7. EightPathSums(costs, Rows)[y][x][d]
          = (path(0, 1) + path(0, -1)) + (path(1, -1) + path(1, 0) + path(1, 1))
                + (path(-1, -1) + path(-1, 0) + path(-1, 1))
    BY <2>1, <2>3, <2>6, Zenon
  <2>8. (path(0, 1) + path(0, -1)) + (path(1, -1) + path(1, 0) + path(1, 1))
                + (path(-1, -1) + path(-1, 0) + path(-1, 1))
          = path(0, 1) + path(0, -1) + path(1, -1) + path(1, 0) + path(1, 1)
              + path(-1, -1) + path(-1, 0) + path(-1, 1)
    BY <2>3, <2>6, SumOfEight
  <2>9. QED
    BY <2>2, <2>7, <2>8, Zenon
<1>3. QED
  BY <1>1, <1>2 DEF Correct

----------------------------------------------------------------------------
(* Census features and matching costs                                      *)

LEMMA ClampIs ==
  ASSUME NEW v \in Int, NEW low \in Int, NEW high \in Int, low <= high
  PROVE  Clamp(v, low, high) = IF v < low THEN low ELSE IF v > high THEN high ELSE v
<1>1. Min({v, high}) = IF v <= high THEN v ELSE high
  BY MinOfTwo
<1>2. Max({low, Min({v, high})}) = IF low >= Min({v, high}) THEN low ELSE Min({v, high})
  BY <1>1, MaxOfTwo
<1>3. QED
  BY <1>1, <1>2 DEF Clamp

\* A padded row holds the pixels of the image with its borders replicated.
LEMMA PaddedIs ==
  ASSUME NEW image, NEW y \in Int, NEW x \in Column, NEW dx \in (-HalfWidth)..HalfWidth
  PROVE  PaddedRow(image, Rows, y)[HalfWidth + x + dx] = PixelAt(image, Rows, y, x + dx)
<1> DEFINE i == HalfWidth + x + dx
           source == image[Clamp(y, 0, Rows - 1)]
<1>1. HalfWidth \in Nat /\ Width \in Nat /\ Width >= 1 /\ x \in Nat /\ x <= Width - 1
      /\ dx \in Int /\ -HalfWidth <= dx /\ dx <= HalfWidth
  BY MatchingAssumption DEF Column
<1>2. i \in 0..(Width + 2 * HalfWidth - 1)
  BY <1>1
<1>3. PaddedRow(image, Rows, y)[i] = IF i < HalfWidth THEN source[0]
        ELSE IF i < HalfWidth + Width THEN source[i - HalfWidth] ELSE source[Width - 1]
  BY <1>2 DEF PaddedRow
<1>4. Clamp(x + dx, 0, Width - 1) = IF x + dx < 0 THEN 0 ELSE IF x + dx > Width - 1 THEN Width - 1 ELSE x + dx
  BY <1>1, ClampIs
<1>5. PixelAt(image, Rows, y, x + dx) = source[Clamp(x + dx, 0, Width - 1)]
  BY DEF PixelAt
<1> HIDE DEF source
<1>6. CASE x + dx < 0
  BY <1>1, <1>3, <1>4, <1>5, <1>6
<1>7. CASE 0 <= x + dx /\ x + dx <= Width - 1
  <2>1. i - HalfWidth = x + dx /\ ~(i < HalfWidth) /\ i < HalfWidth + Width
    BY <1>1, <1>7
  <2>2. Clamp(x + dx, 0, Width - 1) = x + dx
    BY <1>1, <1>4, <1>7
  <2>3. QED
    BY <1>3, <1>5, <2>1, <2>2
<1>8. CASE x + dx > Width - 1
  BY <1>1, <1>3, <1>4, <1>5, <1>8
<1>9. QED
  BY <1>1, <1>6, <1>7, <1>8

\* A pixel is a grey level of the image.
LEMMA PixelIs ==
  ASSUME NEW image \in Image(Grey), NEW y \in Int, NEW x \in Int
  PROVE  PixelAt(image, Rows, y, x) \in Nat
<1>1. Rows \in Nat /\ Rows >= 1 /\ Width \in Nat /\ Width >= 1 /\ Grey \subseteq Nat
  BY Settings, MatcherAssumption
<1>2. Clamp(y, 0, Rows - 1) \in 0..(Rows - 1)
  BY <1>1, ClampIs
<1>3. Clamp(x, 0, Width - 1) \in Column
  BY <1>1, ClampIs DEF Column
<1>4. QED
  BY <1>1, <1>2, <1>3 DEF PixelAt, Image

\* The features of a row are the reference's.
LEMMA CensusIs ==
  ASSUME NEW image \in Image(Grey), NEW y \in 0..(Rows - 1), NEW x \in Column
  PROVE  CensusRow(image, Rows, y)[x] = RefCensus(image, Rows, y, x)
<1> DEFINE padded == [dy \in RowOffsets \union {0} |-> PaddedRow(image, Rows, y + dy)]
<1>1. CensusRow(image, Rows, y)[x] = {o \in RowOffsets \X ColumnOffsets :
         padded[0][HalfWidth + x] - padded[o[1]][HalfWidth + x + o[2]] > 1}
  BY DEF CensusRow
<1>2. y \in Int /\ x \in Int /\ HalfWidth \in Nat
  BY Settings, MatcherAssumption, MatchingAssumption DEF Column
<1>3. padded[0][HalfWidth + x] = PixelAt(image, Rows, y, x)
  <2>1. 0 \in (-HalfWidth)..HalfWidth /\ y + 0 = y /\ HalfWidth + x + 0 = HalfWidth + x /\ x + 0 = x
    BY <1>2
  <2>2. PaddedRow(image, Rows, y)[HalfWidth + x + 0] = PixelAt(image, Rows, y, x + 0)
    BY <1>2, <2>1, PaddedIs
  <2>3. padded[0] = PaddedRow(image, Rows, y + 0)
    OBVIOUS
  <2>4. QED
    BY <2>1, <2>2, <2>3
<1>4. ASSUME NEW o \in RowOffsets \X ColumnOffsets
      PROVE  padded[0][HalfWidth + x] - padded[o[1]][HalfWidth + x + o[2]] > 1
               <=> PixelAt(image, Rows, y + o[1], x + o[2]) + 1 < PixelAt(image, Rows, y, x)
  <2>1. o[1] \in RowOffsets /\ o[2] \in (-HalfWidth)..HalfWidth /\ o[1] \in Int /\ o[2] \in Int
    BY MatchingAssumption DEF RowOffsets, ColumnOffsets
  <2>2. y + o[1] \in Int /\ x + o[2] \in Int
    BY <1>2, <2>1
  <2>3. padded[o[1]][HalfWidth + x + o[2]] = PixelAt(image, Rows, y + o[1], x + o[2])
    <3>1. padded[o[1]] = PaddedRow(image, Rows, y + o[1])
      BY <2>1
    <3>2. QED
      BY <2>1, <2>2, <3>1, PaddedIs
  <2>4. PixelAt(image, Rows, y + o[1], x + o[2]) \in Nat /\ PixelAt(image, Rows, y, x) \in Nat
    BY <1>2, <2>2, PixelIs
  <2> HIDE DEF padded
  <2>5. QED
    BY <1>3, <2>3, <2>4
<1>5. QED
  BY <1>1, <1>4 DEF RefCensus

\* A row's features are compared as the reference compares them.
LEMMA RowCostsAre ==
  ASSUME NEW left \in Image(Grey), NEW right \in Image(Grey), NEW y \in 0..(Rows - 1),
         NEW x \in Column, NEW d \in Disparity
  PROVE  CostsAndPaths(left, right, Rows, y).costs[x][d] = RefCost(left, right, Rows, y, x, d)
<1> DEFINE f == CensusRow(left, Rows, y)
           g == CensusRow(right, Rows, y)
           other == ReverseRight(g)[Width - 1 - x + d]
<1>1. CostsAndPaths(left, right, Rows, y).costs[x][d]
        = Cardinality((f[x] \ other) \union (other \ f[x]))
  BY DEF CostsAndPaths, CostsRow
<1>2. Width \in Nat /\ D \in Nat /\ x \in Nat /\ x <= Width - 1 /\ d \in Nat /\ d <= D - 1
  BY Settings DEF Column, Disparity
<1>3. f[x] = RefCensus(left, Rows, y, x)
  BY CensusIs
<1>4. other = IF x >= d THEN RefCensus(right, Rows, y, x - d) ELSE {}
  <2>1. Width - 1 - x + d \in 0..(Width + D - 1)
    BY <1>2
  <2> HIDE DEF f, g
  <2>2. other = IF Width - 1 - x + d < Width THEN g[Width - 1 - (Width - 1 - x + d)] ELSE {}
    BY <2>1 DEF ReverseRight
  <2>3. (Width - 1 - x + d < Width <=> x >= d) /\ Width - 1 - (Width - 1 - x + d) = x - d
    BY <1>2
  <2>4. ASSUME x >= d PROVE g[x - d] = RefCensus(right, Rows, y, x - d)
    <3>1. x - d \in Column
      BY <1>2, <2>4 DEF Column
    <3>2. QED
      BY <3>1, CensusIs DEF g
  <2>5. QED
    BY <2>2, <2>3, <2>4
<1> HIDE DEF f, other
<1>5. (f[x] \ other) \union (other \ f[x]) = (f[x] \union other) \ (f[x] \intersect other)
  OBVIOUS
<1>6. QED
  BY <1>1, <1>3, <1>4, <1>5 DEF RefCost

\* A census computation is right.
LEMMA CensusCorrect ==
  ASSUME NEW c \in CensusCases
  PROVE  Correct(c)
<1>1. c.kind = "census" /\ c.left \in Image(Grey) /\ c.right \in Image(Grey)
  BY DEF CensusCases
<1>2. \A y \in 0..(Rows - 1), x \in Column :
        /\ CensusRow(c.left, Rows, y)[x] = RefCensus(c.left, Rows, y, x)
        /\ \A d \in Disparity : CostsAndPaths(c.left, c.right, Rows, y).costs[x][d]
                                  = RefCost(c.left, c.right, Rows, y, x, d)
  BY <1>1, CensusIs, RowCostsAre
<1>3. QED
  BY <1>1, <1>2 DEF Correct

----------------------------------------------------------------------------
(* The selected disparity                                                  *)

LEMMA TimesAtMost ==
  ASSUME NEW a \in Nat, NEW b \in Nat, a <= b, NEW c \in Nat
  PROVE  a * c <= b * c
  OBVIOUS

\* Twice a number over twice another is the number.
LEMMA HalfOfTwice ==
  ASSUME NEW n \in Nat
  PROVE  (2 * n) \div 2 = n
  OBVIOUS

LEMMA WordsFit ==
  ASSUME NEW n \in Int, -Word < n, n < Word
  PROVE  n % Word = IF n < 0 THEN n + Word ELSE n
  BY DEF Word

\* The costs a disparity is selected by.
Raised(sums, x) == [d \in Disparity |-> sums[d] + IF d > x THEN PastEdge ELSE 0]

\* They do not overflow a word.
LEMMA RaisedIs ==
  ASSUME NEW sums \in [Disparity -> Sums], NEW x \in Nat
  PROVE  /\ RaisedCosts(sums, x) = Raised(sums, x)
         /\ \A d \in Disparity : Raised(sums, x)[d] \in Nat /\ Raised(sums, x)[d] < Word
<1>1. ASSUME NEW d \in Disparity
      PROVE  /\ (sums[d] + IF x < D - 1 /\ d > x THEN PastEdge ELSE 0) % Word
                   = sums[d] + IF d > x THEN PastEdge ELSE 0
             /\ sums[d] + (IF d > x THEN PastEdge ELSE 0) \in Nat
             /\ sums[d] + (IF d > x THEN PastEdge ELSE 0) < Word
  <2>1. d \in Nat /\ d <= D - 1 /\ D \in Nat
    BY Settings DEF Disparity
  <2>2. sums[d] \in Nat /\ sums[d] < PastEdge
    <3>1. sums[d] \in Sums /\ Sums \subseteq 0..(PastEdge - 1)
      BY MatcherAssumption
    <3>2. \A n \in 0..(PastEdge - 1) : n \in Nat /\ n < PastEdge
      BY DEF PastEdge
    <3>3. QED
      BY <3>1, <3>2, Zenon
  <2> DEFINE raised == sums[d] + IF d > x THEN PastEdge ELSE 0
  <2>3. sums[d] + (IF x < D - 1 /\ d > x THEN PastEdge ELSE 0) = raised
    BY <2>1
  <2>4. raised \in Nat /\ raised < Word /\ -Word < raised
    BY <2>2 DEF PastEdge, Word
  <2> HIDE DEF raised
  <2>5. raised % Word = raised
    BY <2>4, WordsFit
  <2>6. QED
    BY <2>3, <2>4, <2>5 DEF raised
<1>2. QED
  BY <1>1 DEF RaisedCosts, Raised

\* The lowest cost and the lowest disparity that has it.
LEMMA WinnerIs ==
  ASSUME NEW values, \A d \in Disparity : values[d] \in Nat,
         NEW least, least = Min({values[d] : d \in Disparity}),
         NEW winner, winner = Min({d \in Disparity : values[d] = least})
  PROVE  /\ least \in Nat /\ \A d \in Disparity : least <= values[d]
         /\ winner \in Disparity /\ values[winner] = least
         /\ winner = CHOOSE d \in Disparity : values[d] = least /\ \A e \in 0..(d - 1) : values[e] > least
<1> DEFINE S == {values[d] : d \in Disparity}
           W == {d \in Disparity : values[d] = least}
<1>1. S \in SUBSET Nat /\ S # {}
  BY Settings DEF Disparity
<1>2. least \in S /\ \A v \in S : least <= v
  BY <1>1, MinIsLeast
<1>3. W \in SUBSET Nat /\ W # {}
  BY <1>2 DEF Disparity
<1>4. winner \in W /\ \A d \in W : winner <= d
  BY <1>3, MinIsLeast
<1>5. \A e \in 0..(winner - 1) : values[e] > least
  <2>1. TAKE e \in 0..(winner - 1)
  <2>2. e \in Disparity /\ ~(winner <= e)
    BY <1>3, <1>4, Settings DEF Disparity
  <2>3. values[e] # least
    BY <1>4, <2>2
  <2>4. least <= values[e] /\ values[e] \in Nat /\ least \in Nat
    BY <1>1, <1>2, <2>2
  <2>5. QED
    BY <2>3, <2>4
<1>6. ASSUME NEW d \in Disparity, values[d] = least, \A e \in 0..(d - 1) : values[e] > least
      PROVE  d = winner
  <2>1. winner <= d /\ winner \in Nat /\ d \in Nat /\ least \in Nat
    BY <1>1, <1>2, <1>3, <1>4, <1>6
  <2>2. ~(winner < d)
    BY <1>4, <1>6, <2>1
  <2>3. QED
    BY <2>1, <2>2
<1>7. QED
  BY <1>1, <1>2, <1>4, <1>5, <1>6

\* The disparities other than the winner and its neighbours.
LEMMA OthersAre ==
  ASSUME NEW winner \in Disparity
  PROVE  LET below == Max({0, winner - 1})
             above == Min({winner + 1, D - 1})
             others == {d \in Disparity : (d - below) % Word > above - below}
         IN  /\ others = {d \in Disparity : Distance(d, winner) > 1}
             /\ others # {}
             /\ below \in Disparity /\ above \in Disparity /\ above = Min({D - 1, winner + 1})
<1> DEFINE below == Max({0, winner - 1})
           above == Min({winner + 1, D - 1})
           others == {d \in Disparity : (d - below) % Word > above - below}
<1>1. D \in Nat /\ D >= 4 /\ D <= 128 /\ winner \in Nat /\ winner <= D - 1
  BY Settings DEF Disparity
<1>2. below = IF winner = 0 THEN 0 ELSE winner - 1
  BY <1>1, MaxOfTwo
<1>3. above = IF winner = D - 1 THEN D - 1 ELSE winner + 1
  BY <1>1, MinOfTwo
<1>4. above = Min({D - 1, winner + 1})
  <2>1. {winner + 1, D - 1} = {D - 1, winner + 1}
    OBVIOUS
  <2>2. QED
    BY <2>1
<1> HIDE DEF below, above
<1>5. below \in Nat /\ above \in Nat /\ below <= winner /\ winner <= above /\ above <= D - 1
  BY <1>1, <1>2, <1>3
<1>6. ASSUME NEW d \in Disparity
      PROVE  (d - below) % Word > above - below <=> Distance(d, winner) > 1
  <2>1. d \in Nat /\ d <= D - 1
    BY <1>1 DEF Disparity
  <2>2. (d - below) % Word = IF d - below < 0 THEN d - below + Word ELSE d - below
    <3>1. d - below \in Int /\ -Word < d - below /\ d - below < Word
      BY <1>1, <1>5, <2>1 DEF Word
    <3>2. QED
      BY <3>1, WordsFit
  <2>3. (d - below) % Word > above - below <=> d < below \/ d > above
    BY <1>1, <1>5, <2>1, <2>2 DEF Word
  <2>4. Distance(d, winner) > 1 <=> d < winner - 1 \/ d > winner + 1
    BY <1>1, <2>1 DEF Distance
  <2>5. QED
    BY <1>1, <1>2, <1>3, <2>1, <2>3, <2>4
<1>7. others = {d \in Disparity : Distance(d, winner) > 1}
  BY <1>6
<1>8. others # {}
  <2>1. \E d \in Disparity : Distance(d, winner) > 1
    <3>1. CASE winner <= 1
      <4>1. 3 \in Disparity /\ Distance(3, winner) > 1
        BY <1>1, <3>1 DEF Disparity, Distance
      <4>2. QED
        BY <4>1
    <3>2. CASE winner > 1
      <4>1. 0 \in Disparity /\ Distance(0, winner) > 1
        BY <1>1, <3>2 DEF Disparity, Distance
      <4>2. QED
        BY <4>1
    <3>3. QED
      BY <1>1, <3>1, <3>2
  <2>2. QED
    BY <1>7, <2>1
<1>9. below \in Disparity /\ above \in Disparity
  BY <1>1, <1>5 DEF Disparity
<1>10. QED
  BY <1>4, <1>7, <1>8, <1>9 DEF below, above

\* The second best is compared as each rival is.
LEMMA SecondIs ==
  ASSUME NEW values, \A d \in Disparity : values[d] \in Nat /\ values[d] < Word,
         NEW others \in SUBSET Disparity, others # {}, NEW bound \in Int, NEW factor \in Nat
  PROVE  Min({values[d] : d \in others} \union {Word - 1}) * factor > bound
           <=> \A rival \in {values[d] : d \in others} : rival * factor > bound
<1> DEFINE S == {values[d] : d \in others}
           second == Min(S \union {Word - 1})
<1>1. S \in SUBSET Nat /\ S # {} /\ \A v \in S : v <= Word - 1
  BY DEF Word
<1>2. Word - 1 \in Nat
  BY DEF Word
<1>3. second \in S \union {Word - 1} /\ \A v \in S \union {Word - 1} : second <= v
  BY <1>1, <1>2, MinIsLeast
<1>4. second \in S
  <2>1. PICK v \in S : TRUE
    BY <1>1
  <2>2. second <= v /\ v <= Word - 1 /\ v \in Nat /\ second \in Nat
    BY <1>1, <1>2, <1>3, <2>1
  <2>3. second = Word - 1 => v = second
    BY <1>2, <2>2
  <2>4. QED
    BY <1>3, <2>1, <2>3
<1> HIDE DEF S, second
<1>5. ASSUME second * factor > bound, NEW rival \in S PROVE rival * factor > bound
  <2>1. second <= rival /\ second \in Nat /\ rival \in Nat
    BY <1>1, <1>3, <1>4
  <2>2. second * factor <= rival * factor /\ second * factor \in Int /\ rival * factor \in Int
    BY <2>1, TimesAtMost
  <2>3. QED
    BY <1>5, <2>2
<1>6. QED
  BY <1>4, <1>5 DEF S, second

\* The refined value is the reference's fraction.
LEMMA RefinedIs ==
  ASSUME NEW least \in Nat, NEW lower \in Nat, NEW upper \in Nat, least <= lower, least <= upper,
         NEW winner \in Nat, NEW refine \in BOOLEAN,
         refine => lower + upper - 2 * least > 0
  PROVE  LET bend == lower + upper - 2 * least
             half == 2 * Max({bend, 1})
             correction == Clamp(lower - upper, -(half \div 2), half \div 2)
         IN  SameValue(<<winner * half + (IF refine THEN correction ELSE 0), half>>,
                       IF refine THEN <<2 * winner * bend + lower - upper, 2 * bend>> ELSE <<winner, 1>>)
<1> DEFINE bend == lower + upper - 2 * least
           half == 2 * Max({bend, 1})
           correction == Clamp(lower - upper, -(half \div 2), half \div 2)
<1>1. bend \in Nat
  OBVIOUS
<1>2. Max({bend, 1}) = IF bend >= 1 THEN bend ELSE 1
  BY <1>1, MaxOfTwo
<1>3. half \in Nat
  BY <1>1, <1>2
<1>4. CASE refine
  <2>1. half = 2 * bend /\ half \div 2 = bend
    <3>1. half = 2 * bend
      BY <1>1, <1>2, <1>4
    <3> HIDE DEF bend, half
    <3>2. QED
      BY <1>1, <3>1, HalfOfTwice
  <2>2. -bend <= lower - upper /\ lower - upper <= bend
    OBVIOUS
  <2>3. correction = lower - upper
    <3> HIDE DEF half
    <3>1. correction = Clamp(lower - upper, -bend, bend)
      BY <2>1
    <3>2. lower - upper \in Int /\ -bend \in Int /\ bend \in Int /\ -bend <= bend
      BY <1>1
    <3> HIDE DEF bend
    <3>3. QED
      BY <2>2, <3>1, <3>2, ClampIs
  <2>4. winner * (2 * bend) + (lower - upper) = 2 * winner * bend + lower - upper
    <3> HIDE DEF bend
    <3>1. QED
      BY <1>1
  <2> HIDE DEF bend, half, correction
  <2>5. QED
    BY <1>4, <2>1, <2>3, <2>4 DEF SameValue, bend, half, correction
<1>5. CASE ~refine
  <2> HIDE DEF half
  <2>1. winner * half + 0 = winner * half /\ (winner * half) * 1 = half * winner
    BY <1>3
  <2>2. SameValue(<<winner * half + 0, half>>, <<winner, 1>>)
    BY <1>3, <2>1 DEF SameValue
  <2>3. QED
    BY <1>5, <2>2 DEF half
<1>6. QED
  BY <1>4, <1>5


\* What is selected and what should be, of a winner and its cost.
Selected(values, least, winner, x, uniqueness) ==
  LET below == Max({0, winner - 1})
      above == Min({winner + 1, D - 1})
      others == {d \in Disparity : (d - below) % Word > above - below}
      second == Min({values[d] : d \in others} \union {Word - 1})
      bend == values[below] + values[above] - 2 * least
      refine == bend > 0 /\ winner > 0 /\ winner < Min({D - 1, x})
      half == 2 * Max({bend, 1})
      correction == Clamp(values[below] - values[above], -(half \div 2), half \div 2)
  IN  IF second * uniqueness[2] > least * uniqueness[1]
        THEN [disparity |-> <<winner * half + (IF refine THEN correction ELSE 0), half>>,
              key |-> <<least, winner>>]
        ELSE [disparity |-> Unmatched, key |-> NoKey]

RefSelected(values, least, winner, x, uniqueness) ==
  LET rivals == {values[d] : d \in {d \in Disparity : Distance(d, winner) > 1}}
      lower == values[Max({0, winner - 1})]
      upper == values[Min({D - 1, winner + 1})]
      bend == lower + upper - 2 * least
      inner == winner > 0 /\ winner < D - 1 /\ winner < x
  IN  IF \A rival \in rivals : rival * uniqueness[2] > least * uniqueness[1]
        THEN [key |-> <<least, winner>>,
              disparity |-> IF inner /\ bend > 0
                              THEN <<2 * winner * bend + lower - upper, 2 * bend>>
                              ELSE <<winner, 1>>]
        ELSE [key |-> NoKey, disparity |-> Unmatched]

\* A selection and the reference's agree.
Agrees(got, want) == got.key = want.key /\ SameValue(got.disparity, want.disparity)

\* They agree.
LEMMA SelectedIs ==
  ASSUME NEW values, \A d \in Disparity : values[d] \in Nat /\ values[d] < Word,
         NEW least \in Nat, \A d \in Disparity : least <= values[d],
         NEW winner \in Disparity, NEW x \in Nat, NEW uniqueness \in Nat \X (Nat \ {0})
  PROVE  Agrees(Selected(values, least, winner, x, uniqueness),
                RefSelected(values, least, winner, x, uniqueness))
<1> DEFINE below == Max({0, winner - 1})
           above == Min({winner + 1, D - 1})
           others == {d \in Disparity : (d - below) % Word > above - below}
           rivals == {values[d] : d \in {d \in Disparity : Distance(d, winner) > 1}}
           second == Min({values[d] : d \in others} \union {Word - 1})
           lower == values[below]
           upper == values[above]
           bend == lower + upper - 2 * least
           refine == bend > 0 /\ winner > 0 /\ winner < Min({D - 1, x})
           half == 2 * Max({bend, 1})
           correction == Clamp(lower - upper, -(half \div 2), half \div 2)
           inner == winner > 0 /\ winner < D - 1 /\ winner < x
           accepted == second * uniqueness[2] > least * uniqueness[1]
           value == <<winner * half + (IF refine THEN correction ELSE 0), half>>
           refValue == IF inner /\ bend > 0
                         THEN <<2 * winner * bend + lower - upper, 2 * bend>> ELSE <<winner, 1>>
<1>1. winner \in Nat /\ D \in Nat /\ D >= 4
  BY Settings DEF Disparity
<1>2. /\ others = {d \in Disparity : Distance(d, winner) > 1} /\ others # {}
      /\ below \in Disparity /\ above \in Disparity /\ above = Min({D - 1, winner + 1})
  BY OthersAre
<1>3. Selected(values, least, winner, x, uniqueness)
        = IF accepted THEN [disparity |-> value, key |-> <<least, winner>>]
                      ELSE [disparity |-> Unmatched, key |-> NoKey]
  BY DEF Selected
<1>4. RefSelected(values, least, winner, x, uniqueness)
        = IF \A rival \in rivals : rival * uniqueness[2] > least * uniqueness[1]
            THEN [key |-> <<least, winner>>, disparity |-> refValue]
            ELSE [key |-> NoKey, disparity |-> Unmatched]
  <2> HIDE DEF above
  <2>1. values[Min({D - 1, winner + 1})] = upper
    BY <1>2
  <2>2. QED
    BY <2>1 DEF RefSelected
<1>5. accepted <=> \A rival \in rivals : rival * uniqueness[2] > least * uniqueness[1]
  <2>1. rivals = {values[d] : d \in others}
    BY <1>2
  <2> DEFINE bound == least * uniqueness[1]
             factor == uniqueness[2]
  <2>2. bound \in Int /\ factor \in Nat
    OBVIOUS
  <2>3. others \in SUBSET Disparity
    OBVIOUS
  <2> HIDE DEF bound, factor, others, rivals
  <2>4. second * factor > bound <=> \A rival \in {values[d] : d \in others} : rival * factor > bound
    BY <1>2, <2>2, <2>3, SecondIs
  <2>5. QED
    BY <2>1, <2>4 DEF bound, factor
<1>6. SameValue(value, refValue)
  <2>1. lower \in Nat /\ upper \in Nat /\ least <= lower /\ least <= upper
    BY <1>2
  <2>2. Min({D - 1, x}) = IF D - 1 <= x THEN D - 1 ELSE x
    BY <1>1, MinOfTwo
  <2> HIDE DEF lower, upper
  <2>3. refine <=> inner /\ bend > 0
    BY <1>1, <2>2
  <2>4. refine \in BOOLEAN /\ (refine => lower + upper - 2 * least > 0)
    OBVIOUS
  <2> HIDE DEF refine
  <2>5. SameValue(<<winner * half + (IF refine THEN correction ELSE 0), half>>,
                  IF refine THEN <<2 * winner * bend + lower - upper, 2 * bend>> ELSE <<winner, 1>>)
    BY <1>1, <2>1, <2>4, RefinedIs
  <2>6. refValue = IF refine THEN <<2 * winner * bend + lower - upper, 2 * bend>> ELSE <<winner, 1>>
    BY <2>3
  <2>7. QED
    BY <2>5, <2>6
<1>7. SameValue(Unmatched, Unmatched)
  BY DEF SameValue, Unmatched
<1> HIDE DEF accepted, rivals, value, refValue
<1>8. QED
  BY <1>3, <1>4, <1>5, <1>6, <1>7 DEF Agrees

\* A selection is right.
LEMMA SelectCorrect ==
  ASSUME NEW c \in SelectCases
  PROVE  Correct(c)
<1>1. c.kind = "select" /\ c.sums \in [Disparity -> Sums] /\ c.x \in 0..D /\ c.uniqueness \in Ratios
  BY DEF SelectCases
<1>2. ASSUME NEW sums \in [Disparity -> Sums], NEW x \in 0..D, NEW uniqueness \in Ratios
      PROVE  LET got == SelectPixel(sums, x, uniqueness)
                 want == RefSelect(sums, x, uniqueness)
             IN  got.key = want.key /\ SameValue(got.disparity, want.disparity)
  <2> DEFINE values == Raised(sums, x)
             least == Min({values[d] : d \in Disparity})
             winner == Min({d \in Disparity : values[d] = least})
             refWinner == CHOOSE d \in Disparity : values[d] = least /\ \A e \in 0..(d - 1) : values[e] > least
  <2>1. x \in Nat /\ RaisedCosts(sums, x) = values
        /\ \A d \in Disparity : values[d] \in Nat /\ values[d] < Word
    BY Settings, RaisedIs
  <2>2. SelectPixel(sums, x, uniqueness) = Selected(values, least, winner, x, uniqueness)
    <3> DEFINE below == Max({0, winner - 1})
               above == Min({winner + 1, D - 1})
               others == {d \in Disparity : (d - below) % Word > above - below}
    <3>1. Lowest(sums, x)
            = [minimum |-> least, winner |-> winner,
               second |-> Min({values[d] : d \in others} \union {Word - 1}),
               lower |-> values[below], upper |-> values[above]]
      BY <2>1 DEF Lowest
    <3> HIDE DEF values, least, winner
    <3>2. QED
      BY <3>1 DEF SelectPixel, Selected
  <2>3. RefSelect(sums, x, uniqueness) = RefSelected(values, least, refWinner, x, uniqueness)
    BY DEF RefSelect, RefSelected, Raised
  <2> HIDE DEF values
  <2>4. /\ least \in Nat /\ \A d \in Disparity : least <= values[d]
        /\ winner \in Disparity /\ winner = refWinner
    <3>1. \A d \in Disparity : values[d] \in Nat
      BY <2>1
    <3>2. least = Min({values[d] : d \in Disparity})
      OBVIOUS
    <3> HIDE DEF least
    <3>3. winner = Min({d \in Disparity : values[d] = least})
      OBVIOUS
    <3>4. refWinner = CHOOSE d \in Disparity : values[d] = least /\ \A e \in 0..(d - 1) : values[e] > least
      OBVIOUS
    <3> HIDE DEF winner, refWinner
    <3>5. /\ least \in Nat /\ \A d \in Disparity : least <= values[d]
          /\ winner \in Disparity
          /\ winner = CHOOSE d \in Disparity : values[d] = least /\ \A e \in 0..(d - 1) : values[e] > least
      BY <3>1, <3>2, <3>3, WinnerIs
    <3>6. QED
      BY <3>4, <3>5
  <2>5. uniqueness \in Nat \X (Nat \ {0})
    BY MatcherAssumption
  <2>6. \A d \in Disparity : values[d] \in Nat /\ values[d] < Word
    BY <2>1
  <2>7. least \in Nat /\ winner \in Disparity /\ \A d \in Disparity : least <= values[d]
    BY <2>4
  <2> HIDE DEF least, winner, refWinner
  <2>8. Agrees(Selected(values, least, winner, x, uniqueness),
               RefSelected(values, least, winner, x, uniqueness))
    BY <2>1, <2>5, <2>6, <2>7, SelectedIs
  <2>9. RefSelect(sums, x, uniqueness) = RefSelected(values, least, winner, x, uniqueness)
    BY <2>3, <2>4
  <2>10. QED
    BY <2>2, <2>8, <2>9 DEF Agrees
<1>3. QED
  BY <1>1, <1>2 DEF Correct

----------------------------------------------------------------------------
(* The left-right check                                                    *)

\* A set of disparities has a greatest one, which is what Max says.
LEMMA MaxOfDisparities ==
  ASSUME NEW S \in SUBSET Disparity, S # {}
  PROVE  Max(S) \in S /\ \A d \in S : d <= Max(S)
<1> DEFINE Below == {D - 1 - d : d \in S}
<1>1. \A d \in S : d \in Nat /\ d <= D - 1 /\ D \in Nat
  BY Settings DEF Disparity
<1>2. Below \in SUBSET Nat /\ Below # {}
  BY <1>1
<1>3. PICK b \in Below : \A n \in Below : b <= n
  BY <1>2, LeastExists
<1>4. PICK m \in S : b = D - 1 - m
  BY <1>3
<1>5. ASSUME NEW d \in S PROVE d <= m
  <2>1. b <= D - 1 - d
    BY <1>3
  <2>2. QED
    BY <1>1, <1>4, <2>1
<1>6. QED
  BY <1>5 DEF Max

\* Keys of matches inside the image.
GoodKeys(keys) ==
  \A x \in Column : keys[x] # NoKey => keys[x][1] \in Nat /\ keys[x][2] \in Disparity /\ keys[x][2] <= x

\* The disparities of the matches of a right pixel, and its candidates.
MatchesOf(keys, rx) ==
  {d \in Disparity : rx + d \in Column /\ keys[rx + d] # NoKey /\ keys[rx + d][2] = d}

CandidatesOf(keys, rx) ==
  {<<keys[x][1], (Word - 1) - keys[x][2]>> : x \in {x \in Column : keys[x] # NoKey /\ x - keys[x][2] = rx}}

\* They are the same matches.
LEMMA CandidatesAre ==
  ASSUME NEW keys, GoodKeys(keys), NEW rx \in Column
  PROVE  CandidatesOf(keys, rx) = {<<keys[rx + d][1], (Word - 1) - d>> : d \in MatchesOf(keys, rx)}
<1>1. rx \in Int /\ \A x \in Column : x \in Int
  BY Settings DEF Column
<1>2. ASSUME NEW d \in MatchesOf(keys, rx)
      PROVE  <<keys[rx + d][1], (Word - 1) - d>> \in CandidatesOf(keys, rx)
  <2>1. d \in Int /\ rx + d \in Column /\ keys[rx + d] # NoKey /\ keys[rx + d][2] = d
    BY Settings DEF MatchesOf, Disparity
  <2>2. (rx + d) - keys[rx + d][2] = rx
    BY <1>1, <2>1
  <2>3. QED
    BY <2>1, <2>2 DEF CandidatesOf
<1>3. ASSUME NEW x \in Column, keys[x] # NoKey, x - keys[x][2] = rx
      PROVE  \E d \in MatchesOf(keys, rx) :
               <<keys[x][1], (Word - 1) - keys[x][2]>> = <<keys[rx + d][1], (Word - 1) - d>>
  <2>1. keys[x][2] \in Disparity /\ keys[x][2] \in Int
    BY <1>3, Settings DEF GoodKeys, Disparity
  <2>2. rx + keys[x][2] = x
    BY <1>1, <1>3, <2>1
  <2>3. keys[x][2] \in MatchesOf(keys, rx)
    BY <1>3, <2>1, <2>2 DEF MatchesOf
  <2>4. QED
    BY <2>2, <2>3
<1>4. QED
  BY <1>2, <1>3 DEF CandidatesOf

\* Pairs in their order; two that precede each other are the same.
Precedes(a, b) == a[1] < b[1] \/ (a[1] = b[1] /\ a[2] <= b[2])

LEMMA PairsAreKeys == \A a, b : <<a, b>> # NoKey
<1>1. \A a, b : Len(<<a, b>>) = 2
  OBVIOUS
<1>2. Len(<<>>) = 0
  OBVIOUS
<1>3. QED
  BY <1>1, <1>2 DEF NoKey

\* The match a right pixel keeps is the one the reference searches.
LEMMA KeptIs ==
  ASSUME NEW keys, GoodKeys(keys), NEW rx \in Column
  PROVE  LET kept == KeptMatches(keys)[rx]
             found == RefKept(keys, rx)
         IN  /\ kept = NoKey <=> found = -1
             /\ kept # NoKey => (Word - 1) - kept[2] = found
<1> DEFINE M == MatchesOf(keys, rx)
           C == CandidatesOf(keys, rx)
           cost(d) == keys[rx + d][1]
           cheapest == {d \in M : \A e \in M : cost(d) <= cost(e)}
           preferred == CHOOSE a \in C : \A b \in C : Precedes(a, b)
<1>1. KeptMatches(keys)[rx] = IF C = {} THEN NoKey ELSE preferred
  BY DEF KeptMatches, CandidatesOf, Precedes
<1>2. RefKept(keys, rx) = IF M = {} THEN -1 ELSE Max(cheapest)
  BY DEF RefKept, MatchesOf
<1>3. C = {<<cost(d), (Word - 1) - d>> : d \in M}
  BY CandidatesAre
<1>4. \A d \in M : d \in Nat /\ d \in Disparity /\ cost(d) \in Nat
  <2>1. TAKE d \in M
  <2>2. d \in Disparity /\ rx + d \in Column /\ keys[rx + d] # NoKey
    BY DEF MatchesOf
  <2>3. QED
    BY <2>2, Settings DEF GoodKeys, Disparity
<1> HIDE DEF M, C, preferred
<1>5. CASE M = {}
  BY <1>1, <1>2, <1>3, <1>5
<1>6. CASE M # {}
  <2> DEFINE S == {cost(d) : d \in M}
  <2>1. S \in SUBSET Nat /\ S # {}
    BY <1>4, <1>6
  <2>2. PICK s \in S : \A n \in S : s <= n
    BY <2>1, LeastExists
  <2>3. PICK e \in M : s = cost(e)
    BY <2>2
  <2>4. e \in cheapest
    BY <2>2, <2>3
  <2>5. cheapest \in SUBSET Disparity /\ cheapest # {}
    BY <1>4, <2>4
  <2> DEFINE m == Max(cheapest)
  <2>6. m \in cheapest /\ \A d \in cheapest : d <= m
    BY <2>5, MaxOfDisparities
  <2> HIDE DEF m
  <2>7. m \in M /\ m \in Nat /\ cost(m) \in Nat /\ \A d \in M : cost(m) <= cost(d)
    BY <1>4, <2>6
  <2> DEFINE best == <<cost(m), (Word - 1) - m>>
  <2>8. best \in C /\ C # {}
    BY <1>3, <2>7
  <2>9. ASSUME NEW d \in M
        PROVE  Precedes(best, <<cost(d), (Word - 1) - d>>)
    <3>1. cost(m) <= cost(d) /\ cost(d) \in Nat /\ d \in Nat
      BY <1>4, <2>7
    <3>2. CASE cost(d) = cost(m)
      <4>1. d \in cheapest
        BY <2>7, <3>2
      <4>2. d <= m
        BY <2>6, <4>1
      <4>3. (Word - 1) - m <= (Word - 1) - d
        BY <2>7, <3>1, <4>2 DEF Word
      <4>4. QED
        BY <3>2, <4>3 DEF Precedes
    <3>3. CASE cost(d) # cost(m)
      <4>1. cost(m) < cost(d)
        BY <2>7, <3>1, <3>3
      <4>2. QED
        BY <4>1 DEF Precedes
    <3>4. QED
      BY <3>2, <3>3
  <2>10. \A b \in C : Precedes(best, b)
    BY <1>3, <2>9
  <2>11. preferred \in C /\ Precedes(preferred, best)
    <3>1. preferred \in C /\ \A b \in C : Precedes(preferred, b)
      BY <2>8, <2>10 DEF preferred
    <3>2. QED
      BY <2>8, <3>1
  <2>12. PICK k \in M : preferred = <<cost(k), (Word - 1) - k>>
    BY <1>3, <2>11
  <2>13. k = m
    <3>1. Precedes(best, preferred)
      BY <2>10, <2>11
    <3>2. k \in Nat /\ cost(k) \in Nat
      BY <1>4
    <3>3. \/ cost(m) < cost(k)
          \/ cost(m) = cost(k) /\ (Word - 1) - m <= (Word - 1) - k
      BY <2>12, <3>1 DEF Precedes
    <3>4. \/ cost(k) < cost(m)
          \/ cost(k) = cost(m) /\ (Word - 1) - k <= (Word - 1) - m
      BY <2>11, <2>12 DEF Precedes
    <3> HIDE DEF cost
    <3>5. QED
      BY <2>7, <3>2, <3>3, <3>4 DEF Word
  <2>14. preferred # NoKey
    BY <2>12, PairsAreKeys
  <2>15. (Word - 1) - preferred[2] = m
    BY <2>7, <2>12, <2>13 DEF Word
  <2>16. KeptMatches(keys)[rx] = preferred /\ RefKept(keys, rx) = m /\ m # -1
    BY <1>1, <1>2, <1>6, <2>7, <2>8 DEF m
  <2>17. QED
    BY <2>14, <2>15, <2>16
<1>7. QED
  BY <1>5, <1>6

LEMMA TimesLess ==
  ASSUME NEW a \in Int, NEW b \in Int, NEW c \in Nat, c > 0, a * c < b * c
  PROVE  a < b
  OBVIOUS

LEMMA DivIs ==
  ASSUME NEW a \in Int, NEW b \in Nat, b > 0
  PROVE  a \div b \in Int /\ (a \div b) * b <= a /\ a < (a \div b) * b + b
  OBVIOUS

LEMMA ProductsMove ==
  ASSUME NEW a \in Int, NEW b \in Int
  PROVE  /\ a * b \in Int /\ (a - 1) * b = a * b - b
         /\ (a + 1) * b = a * b + b /\ (a + 2) * b = a * b + 2 * b
  OBVIOUS

\* The integers less than one from a value.
Adjacent(value) ==
  {i \in 0..(D + 1) : i * value[2] > value[1] - value[2] /\ i * value[2] < value[1] + value[2]}

\* They are the value rounded down and up.
LEMMA AdjacentIs ==
  ASSUME NEW n \in Nat, NEW u \in Nat, u > 0, n \div u <= D - 1
  PROVE  LET low == n \div u
             high == IF low * u = n THEN low ELSE low + 1
         IN  Adjacent(<<n, u>>) = {low, high} /\ low \in Nat /\ high \in Nat
<1> DEFINE low == n \div u
           high == IF low * u = n THEN low ELSE low + 1
           t == low * u
<1>1. low \in Int /\ t <= n /\ n < t + u
  BY DivIs
<1>2. low \in Nat /\ low <= D - 1 /\ D \in Nat
  <2>1. low \in Nat
    OBVIOUS
  <2>2. QED
    BY <2>1, Settings
<1> HIDE DEF low
<1>3. t \in Int /\ (low - 1) * u = t - u /\ (low + 1) * u = t + u /\ (low + 2) * u = t + 2 * u
  BY <1>2, ProductsMove
<1>4. ASSUME NEW i \in 0..(D + 1), i * u > n - u, i * u < n + u
      PROVE  i = low \/ (i = low + 1 /\ t # n)
  <2>1. i \in Int /\ i * u \in Int
    BY <1>2, ProductsMove
  <2>2. (low - 1) * u < i * u /\ i * u < (low + 2) * u
    <3> HIDE DEF t
    <3>1. t - u < i * u /\ i * u < t + 2 * u
      BY <1>1, <1>3, <1>4, <2>1
    <3>2. QED
      BY <1>3, <3>1
  <2>3. low - 1 < i /\ i < low + 2
    BY <1>2, <2>1, <2>2, TimesLess
  <2>4. i = low + 1 => t # n
    <3>1. i = low + 1 => i * u = t + u
      BY <1>3
    <3> HIDE DEF t
    <3>2. QED
      BY <1>3, <1>4, <2>1, <3>1
  <2>5. QED
    BY <1>2, <2>1, <2>3, <2>4
<1>5. low \in 0..(D + 1) /\ low + 1 \in 0..(D + 1)
  BY <1>2
<1>6. low * u > n - u /\ low * u < n + u
  <2>1. low * u = t
    OBVIOUS
  <2> HIDE DEF t
  <2>2. QED
    BY <1>1, <1>3, <2>1
<1>7. t # n => (low + 1) * u > n - u /\ (low + 1) * u < n + u
  <2> HIDE DEF t
  <2>1. QED
    BY <1>1, <1>3
<1>8. Adjacent(<<n, u>>) = {low, high}
  BY <1>4, <1>5, <1>6, <1>7 DEF Adjacent
<1>9. QED
  BY <1>2, <1>8 DEF low

\* A refined disparity rounds down to a disparity.
LEMMA LowIsDisparity ==
  ASSUME NEW w \in Disparity, NEW f \in Fractions, f[2] * w + f[1] >= 0
  PROVE  /\ f[2] * w + f[1] \in Nat /\ f[2] \in Nat /\ f[2] > 0
         /\ (f[2] * w + f[1]) \div f[2] <= D - 1
<1> DEFINE u == f[2]
           r == f[1]
           n == u * w + r
           low == n \div u
<1>1. u \in Nat /\ u > 0 /\ r \in Int /\ 2 * r <= u
  BY MatcherAssumption
<1>2. w \in Nat /\ w <= D - 1 /\ D \in Nat
  BY Settings DEF Disparity
<1> HIDE DEF u, r
<1>3. w * u \in Int /\ u * w = w * u /\ (w + 1) * u = w * u + u
  BY <1>1, <1>2, ProductsMove
<1>4. n \in Nat
  BY <1>1, <1>3 DEF u, r
<1>5. low \in Int /\ low * u <= n /\ low * u \in Int
  <2> HIDE DEF n
  <2>1. low \in Int /\ low * u <= n
    BY <1>1, <1>4, DivIs
  <2> HIDE DEF low
  <2>2. QED
    BY <1>1, <2>1, ProductsMove
<1> HIDE DEF low
<1>6. low * u < (w + 1) * u
  BY <1>1, <1>3, <1>5
<1>7. low < w + 1
  BY <1>1, <1>2, <1>5, <1>6, TimesLess
<1>8. QED
  BY <1>1, <1>2, <1>4, <1>5, <1>7 DEF low, u, r

\* A check is right.
LEMMA CheckCorrect ==
  ASSUME NEW c \in CheckCases
  PROVE  Correct(c)
<1> DEFINE disparity == [x \in Column |-> c.found[x].disparity]
           keys == [x \in Column |-> c.found[x].key]
<1>1. /\ c.kind = "check"
      /\ \A x \in Column : c.found[x] \in Matches(x)
           /\ (c.found[x].key # NoKey => c.found[x].disparity[1] >= 0)
  BY DEF CheckCases
<1>2. ASSUME NEW x \in Column, keys[x] # NoKey
      PROVE  \E s \in Sums, w \in Disparity \intersect 0..x, f \in Fractions :
               keys[x] = <<s, w>> /\ disparity[x] = <<f[2] * w + f[1], f[2]>>
  BY <1>1, <1>2 DEF Matches
<1>3. GoodKeys(keys)
  <2>1. ASSUME NEW x \in Column, keys[x] # NoKey
        PROVE  keys[x][1] \in Nat /\ keys[x][2] \in Disparity /\ keys[x][2] <= x
    <3>1. PICK s \in Sums, w \in Disparity \intersect 0..x : keys[x] = <<s, w>>
      BY <1>2, <2>1
    <3>2. \A m \in 0..x : m <= x
      BY Settings DEF Column
    <3>3. \A m \in 0..(PastEdge - 1) : m \in Nat
      BY DEF PastEdge
    <3>4. Sums \subseteq 0..(PastEdge - 1)
      BY MatcherAssumption
    <3>5. s \in Nat /\ w \in Disparity /\ w <= x
      BY <3>2, <3>3, <3>4
    <3>6. QED
      BY <3>1, <3>5
  <2>2. QED
    BY <2>1 DEF GoodKeys
<1>4. \A x \in Column : keys[x] = NoKey => disparity[x] = Unmatched
  <2>1. TAKE x \in Column
  <2>2. HAVE keys[x] = NoKey
  <2>3. \A a, b : <<a, b>> # NoKey
    BY PairsAreKeys
  <2>4. QED
    BY <1>1, <2>2, <2>3 DEF Matches
<1> HIDE DEF keys, disparity
<1>5. ASSUME NEW x \in Column
      PROVE  ConsistencyRow(disparity, keys)[x]
               = IF RefConsistent(disparity, keys, x) THEN disparity[x] ELSE Unmatched
  <2> DEFINE kept == KeptMatches(keys)
             n == disparity[x][1]
             u == disparity[x][2]
             low == n \div u
             high == IF low * u = n THEN low ELSE low + 1
             rejects(i) == LET found == IF x - i \in Column THEN RefKept(keys, x - i) ELSE -1
                           IN  found # -1 /\ Distance(found, i) > 1
  <2>1. ConsistencyRow(disparity, keys)[x]
          = IF n >= 0 /\ ~(Disagrees(kept, x - low, low) /\ Disagrees(kept, x - high, high))
              THEN disparity[x] ELSE Unmatched
    BY DEF ConsistencyRow
  <2>2. RefConsistent(disparity, keys, x) <=> n >= 0 /\ ~\A i \in Adjacent(disparity[x]) : rejects(i)
    BY DEF RefConsistent, Adjacent
  <2>3. ASSUME NEW i PROVE Disagrees(kept, x - i, i) <=> rejects(i)
    <3>1. CASE x - i \in Column
      <4> DEFINE k == KeptMatches(keys)[x - i]
                 found == RefKept(keys, x - i)
      <4>1. (k = NoKey <=> found = -1) /\ (k # NoKey => (Word - 1) - k[2] = found)
        BY <1>3, <3>1, KeptIs
      <4>2. QED
        BY <3>1, <4>1 DEF Disagrees
    <3>2. CASE x - i \notin Column
      BY <3>2 DEF Disagrees
    <3>3. QED
      BY <3>1, <3>2
  <2>4. CASE n >= 0
    <3>1. keys[x] # NoKey
      <4>1. Unmatched[1] = -1
        BY DEF Unmatched
      <4>2. QED
        BY <1>4, <2>4, <4>1
    <3>2. PICK s \in Sums, w \in Disparity \intersect 0..x, f \in Fractions :
            keys[x] = <<s, w>> /\ disparity[x] = <<f[2] * w + f[1], f[2]>>
      BY <1>2, <3>1
    <3>3. n = f[2] * w + f[1] /\ u = f[2] /\ disparity[x] = <<n, u>>
      BY <3>2
    <3>4. n \in Nat /\ u \in Nat /\ u > 0 /\ n \div u <= D - 1
      BY <2>4, <3>3, LowIsDisparity
    <3> HIDE DEF n, u
    <3>5. Adjacent(<<n, u>>) = {low, high}
      BY <3>4, AdjacentIs
    <3> HIDE DEF low, high, rejects, kept
    <3>6. (\A i \in Adjacent(disparity[x]) : rejects(i)) <=> rejects(low) /\ rejects(high)
      BY <3>3, <3>5
    <3>7. QED
      BY <2>1, <2>2, <2>3, <3>6
  <2>5. CASE ~(n >= 0)
    <3> HIDE DEF n
    <3>1. QED
      BY <2>1, <2>2, <2>5
  <2>6. QED
    BY <2>4, <2>5
<1>6. QED
  BY <1>1, <1>5 DEF Correct, keys, disparity

----------------------------------------------------------------------------
(* Chunks of columns                                                       *)

\* Where chunk k of `count` begins, of a width.
Edge(width, count, k) == (width * k) \div count

\* Each begins later than the one before.
LEMMA EdgesRise ==
  ASSUME NEW width \in Nat, NEW count \in Nat, count > 0, count <= width, NEW k \in Nat
  PROVE  /\ Edge(width, count, k) \in Nat /\ Edge(width, count, k) < Edge(width, count, k + 1)
         /\ Edge(width, count, 0) = 0 /\ Edge(width, count, count) = width
<1> DEFINE a == width * k
           e == Edge(width, count, k)
           g == Edge(width, count, k + 1)
<1>1. a \in Nat /\ width * (k + 1) = a + width
  <2>1. width * k = k * width /\ width * (k + 1) = (k + 1) * width
    OBVIOUS
  <2>2. (k + 1) * width = k * width + width
    BY ProductsMove
  <2>3. QED
    BY <2>1, <2>2
<1>2. e = a \div count /\ g = (a + width) \div count
  BY <1>1 DEF Edge
<1> HIDE DEF a, e, g
<1>3. e \in Int /\ e * count <= a /\ a < e * count + count /\ e * count \in Int
  BY <1>1, <1>2, DivIs, ProductsMove
<1>4. g \in Int /\ g * count <= a + width /\ a + width < g * count + count /\ g * count \in Int
  <2>1. a + width \in Int
    BY <1>1
  <2>2. QED
    BY <1>2, <2>1, DivIs, ProductsMove
<1>5. (e + 1) * count = e * count + count /\ (g + 1) * count = g * count + count
  BY <1>3, <1>4, ProductsMove
<1>6. e < g
  <2>1. (e + 1) * count < (g + 1) * count
    BY <1>1, <1>3, <1>4, <1>5
  <2>2. QED
    BY <1>3, <1>4, <2>1, TimesLess
<1>7. e \in Nat
  <2>1. 0 * count < (e + 1) * count
    BY <1>1, <1>3, <1>5
  <2>2. 0 < e + 1
    BY <1>3, <2>1, TimesLess
  <2>3. QED
    BY <1>3, <2>2
<1>8. Edge(width, count, 0) = 0
  <2>1. width * 0 = 0
    OBVIOUS
  <2>2. 0 \div count = 0
    OBVIOUS
  <2>3. QED
    BY <2>1, <2>2 DEF Edge
<1>9. Edge(width, count, count) = width
  BY DEF Edge
<1>10. QED
  BY <1>6, <1>7, <1>8, <1>9 DEF e, g

LEMMA EdgesOrdered ==
  ASSUME NEW width \in Nat, NEW count \in Nat, count > 0, count <= width,
         NEW j \in Nat, NEW k \in Nat, j < k
  PROVE  Edge(width, count, j + 1) <= Edge(width, count, k)
<1> DEFINE e(i) == Edge(width, count, i)
           T == {i \in 0..k : i > j => e(j + 1) <= e(i)}
<1>1. \A i \in Nat : e(i) \in Nat /\ e(i) < e(i + 1)
  BY EdgesRise
<1> HIDE DEF e
<1>2. 0 \in T
  OBVIOUS
<1>3. ASSUME NEW i \in 0..(k - 1), i \in T PROVE i + 1 \in T
  <2>1. e(i) \in Nat /\ e(i + 1) \in Nat /\ e(i) < e(i + 1) /\ i \in Nat /\ e(j + 1) \in Nat
    BY <1>1
  <2>2. CASE i > j
    BY <1>3, <2>1, <2>2
  <2>3. CASE i = j
    BY <2>1, <2>3
  <2>4. CASE i < j
    BY <2>1, <2>4
  <2>5. QED
    BY <2>1, <2>2, <2>3, <2>4
<1> HIDE DEF T
<1>4. \A i \in 0..k : i \in T
  BY <1>2, <1>3, EachUpTo
<1>5. k \in T
  BY <1>4
<1>6. QED
  BY <1>5 DEF T, e

\* Every column lies between two edges.
LEMMA EdgesMeet ==
  ASSUME NEW width \in Nat, NEW count \in Nat, count > 0, count <= width, NEW v \in 0..(width - 1)
  PROVE  \E k \in 0..(count - 1) : v \in Edge(width, count, k)..(Edge(width, count, k + 1) - 1)
<1> DEFINE e(i) == Edge(width, count, i)
           T == {i \in 0..count : e(i) <= v}
<1>1. \A i \in Nat : e(i) \in Nat
  BY EdgesRise
<1>2. e(0) = 0 /\ e(count) = width
  <2>1. 0 \in Nat
    OBVIOUS
  <2>2. QED
    BY <2>1, EdgesRise
<1> HIDE DEF e
<1>3. 0 \in T /\ count \notin T
  BY <1>2
<1>4. \E k \in 0..(count - 1) : k \in T /\ k + 1 \notin T
  <2>1. SUFFICES ASSUME \A k \in 0..(count - 1) : k \in T => k + 1 \in T PROVE FALSE
    OBVIOUS
  <2> HIDE DEF T
  <2>2. \A k \in 0..count : k \in T
    BY <1>3, <2>1, EachUpTo
  <2>3. QED
    BY <1>3, <2>2
<1>5. PICK k \in 0..(count - 1) : k \in T /\ k + 1 \notin T
  BY <1>4
<1>6. e(k) \in Nat /\ e(k + 1) \in Nat /\ k + 1 \in 0..count
  BY <1>1
<1>7. e(k) <= v /\ v < e(k + 1)
  BY <1>5, <1>6
<1>8. v \in e(k)..(e(k + 1) - 1)
  BY <1>6, <1>7
<1>9. QED
  BY <1>8 DEF e

\* A cut into chunks is right.
LEMMA ChunksCorrect ==
  ASSUME NEW c \in ChunkCases
  PROVE  Correct(c)
<1> DEFINE width == c.width
           count == R!ChunkCountOf(width, c.threads, 4, 16)
           edge(k) == Edge(width, count, k)
           cut == [k \in 0..(count - 1) |-> R!Columns(width, count, k)]
<1>1. c.kind = "chunks" /\ width \in Nat /\ width > 0 /\ c.threads \in Nat /\ c.threads > 0
  <2>1. c.kind = "chunks" /\ c.width \in Widths /\ c.threads \in ThreadCounts
    BY DEF ChunkCases
  <2>2. Widths \subseteq Nat \ {0} /\ ThreadCounts \subseteq Nat \ {0}
    BY MatcherAssumption
  <2>3. \A n \in Nat \ {0} : n \in Nat /\ n > 0
    OBVIOUS
  <2>4. QED
    BY <2>1, <2>2, <2>3
<1>2. count \in Nat /\ count > 0 /\ count <= width
  <2> DEFINE many == c.threads * 4
             wide == width \div 16
             fewer == Min({many, wide})
  <2>1. many \in Nat /\ wide \in Nat /\ wide <= width
    BY <1>1
  <2> HIDE DEF many, wide, width
  <2>2. fewer = IF many <= wide THEN many ELSE wide
    BY <2>1, MinOfTwo
  <2>3. Max({1, fewer}) = IF 1 >= fewer THEN 1 ELSE fewer
    BY <2>1, <2>2, MaxOfTwo
  <2>4. count = Max({1, fewer})
    BY DEF R!ChunkCountOf, R!Max, R!Min, Max, Min, many, wide
  <2>5. QED
    BY <1>1, <2>1, <2>2, <2>3, <2>4
<1>3. \A k \in 0..(count - 1) : cut[k] = edge(k)..(edge(k + 1) - 1)
  BY DEF R!Columns, Edge
<1> HIDE DEF count, cut, width
<1>4. \A k \in Nat : edge(k) \in Nat /\ edge(k) < edge(k + 1)
  BY <1>1, <1>2, EdgesRise
<1>5. edge(0) = 0 /\ edge(count) = width
  <2>1. 0 \in Nat
    OBVIOUS
  <2>2. QED
    BY <1>1, <1>2, <2>1, EdgesRise
<1>6. \A j, k \in Nat : j < k => edge(j + 1) <= edge(k)
  BY <1>1, <1>2, EdgesOrdered
<1>7. \A v \in 0..(width - 1) : \E k \in 0..(count - 1) : v \in edge(k)..(edge(k + 1) - 1)
  BY <1>1, <1>2, EdgesMeet
<1> HIDE DEF edge
<1>8. \A k \in 0..(count - 1) : k \in Nat /\ k + 1 \in Nat /\ k < count
  BY <1>2
<1>9. ASSUME NEW k \in 0..(count - 1) PROVE cut[k] \subseteq 0..(width - 1) /\ cut[k] # {}
  <2>1. edge(k) \in Nat /\ edge(k + 1) \in Nat /\ edge(k) < edge(k + 1)
    BY <1>4, <1>8
  <2>2. edge(k + 1) <= width
    BY <1>2, <1>5, <1>6, <1>8
  <2>3. cut[k] = edge(k)..(edge(k + 1) - 1)
    BY <1>3
  <2>4. edge(k) \in cut[k]
    BY <2>1, <2>3
  <2>5. QED
    BY <1>1, <2>1, <2>2, <2>3, <2>4
<1>10. UNION {cut[k] : k \in 0..(count - 1)} = 0..(width - 1)
  <2>1. \A v \in 0..(width - 1) : \E k \in 0..(count - 1) : v \in cut[k]
    BY <1>3, <1>7
  <2>2. QED
    BY <1>9, <2>1
<1>11. ASSUME NEW j \in 0..(count - 1), NEW k \in 0..(count - 1), j < k
       PROVE  cut[j] \intersect cut[k] = {}
  <2>1. /\ edge(j) \in Nat /\ edge(j + 1) \in Nat /\ edge(k) \in Nat /\ edge(k + 1) \in Nat
        /\ edge(j + 1) <= edge(k)
    BY <1>4, <1>6, <1>8, <1>11
  <2>2. cut[j] = edge(j)..(edge(j + 1) - 1) /\ cut[k] = edge(k)..(edge(k + 1) - 1)
    BY <1>3
  <2>3. QED
    BY <2>1, <2>2
<1>12. \A j, k \in 0..(count - 1) : j # k => cut[j] \intersect cut[k] = {}
  <2>1. TAKE j, k \in 0..(count - 1)
  <2>2. HAVE j # k
  <2>3. j < k \/ k < j
    BY <1>8, <2>2
  <2>4. QED
    BY <1>11, <2>3
<1>13. QED
  BY <1>1, <1>9, <1>10, <1>12 DEF Correct, cut, count, width

----------------------------------------------------------------------------

\* The computation chosen is one of those, or none yet.
CaseIs ==
  part = "computation" =>
    \/ case.kind = "none"
    \/ case \in CensusCases \/ case \in RowCases \/ case \in ImageCases
    \/ case \in SelectCases \/ case \in CheckCases \/ case \in ChunkCases

\* Census features and costs, paths, sums, the selected disparities, the
\* left-right check and the chunks are what the reference says, of images of
\* every size and whatever the settings (census.rs, paths.rs, select.rs,
\* check.rs against reference.rs).
THEOREM MatcherComputesReference == Spec => []ComputesReference
<1>1. Init => CaseIs
  BY DEF Init, CaseIs
<1>2. CaseIs /\ [Next]_allVars => CaseIs'
  <2>1. SUFFICES ASSUME CaseIs, [Next]_allVars PROVE CaseIs'
    OBVIOUS
  <2>2. CASE Compute
    BY <2>1, <2>2 DEF CaseIs, Compute
  <2>3. CASE Computed \/ UNCHANGED allVars
    BY <2>1, <2>3 DEF CaseIs, Computed, allVars
  <2>4. CASE SweepPart(SweepNext)
    BY <2>1, <2>4 DEF CaseIs, SweepPart
  <2>5. CASE RingPart(R!RingNext)
    BY <2>1, <2>5 DEF CaseIs, RingPart
  <2>6. CASE RowsPart(Q!RowsNext)
    BY <2>1, <2>6 DEF CaseIs, RowsPart
  <2>7. CASE PoolPart(PoolNext)
    BY <2>1, <2>7 DEF CaseIs, PoolPart
  <2>8. QED
    BY <2>1, <2>2, <2>3, <2>4, <2>5, <2>6, <2>7 DEF Next
<1>3. CaseIs => ComputesReference
  <2>1. SUFFICES ASSUME CaseIs, part = "computation" PROVE Correct(case)
    BY DEF ComputesReference
  <2>2. CASE case.kind = "none"
    BY <2>2 DEF Correct
  <2>3. CASE case.kind # "none"
    BY <2>1, <2>3, CensusCorrect, RowCorrect, ImageCorrect, SelectCorrect, CheckCorrect, ChunksCorrect DEF CaseIs
  <2>4. QED
    BY <2>2, <2>3
<1>4. QED
  BY <1>1, <1>2, <1>3, PTL DEF Spec
=============================================================================
