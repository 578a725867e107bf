-------------------------------- MODULE Pool --------------------------------
(***************************************************************************)
(* The worker threads of vision/rust/stereo_match (parallel.rs): callers   *)
(* hand a job to a pool of workers parked between jobs, run its thread 0   *)
(* themselves and wait, also while unwinding, until no worker uses the     *)
(* job's work any more, whose lifetime was erased.                         *)
(*                                                                         *)
(* A critical section of the job mutex is one step; a condition variable   *)
(* is the set of the threads that wait on it, so a notification nobody     *)
(* waits for is lost.                                                      *)
(***************************************************************************)
EXTENDS Integers, FiniteSets

CONSTANTS
  Callers,      \* threads that call on_threads
  MaxThreads,   \* the most threads a call asks for
  MaxCalls,     \* bound: calls made in a behaviour
  None          \* no caller, no work

ASSUME PoolAssumption ==
  /\ MaxThreads \in Nat /\ MaxThreads >= 2
  /\ MaxCalls \in Nat
  /\ None \notin Callers

VARIABLES
  workers,      \* the workers spawned so far, indices 1 to it
  holder,       \* the caller holding the workers mutex
  job,          \* the job record: generation, threads, work, pending, panicked
  parked,       \* the workers waiting on `started`
  waiting,      \* whether the caller waits on `finished`
  worker,       \* the program counter of each worker
  seen,         \* the generation each worker saw last
  caller,       \* the program counter of each caller
  asked,        \* the threads the call in progress asked for
  unwinding     \* whether the caller's own part panicked

poolVars == <<workers, holder, job, parked, waiting, worker, seen, caller, asked, unwinding>>

Indices == 1..(MaxThreads - 1)

NoJob == [generation |-> 0, threads |-> 0, work |-> None, pending |-> 0, panicked |-> FALSE]

PoolInit ==
  /\ workers = 0
  /\ holder = None
  /\ job = NoJob
  /\ parked = {}
  /\ waiting = FALSE
  /\ worker = [i \in Indices |-> "absent"]
  /\ seen = [i \in Indices |-> 0]
  /\ caller = [c \in Callers |-> "out"]
  /\ asked = 0
  /\ unwinding = FALSE

-----------------------------------------------------------------------------
(* The caller: on_threads and the Finish guard                             *)

\* on_threads(n) for n > 1 takes the workers mutex; a poisoned one too.
Enter(c) ==
  /\ caller[c] = "out"
  /\ holder = None
  /\ job.generation < MaxCalls
  /\ holder' = c
  /\ caller' = [caller EXCEPT ![c] = "spawning"]
  /\ asked' \in 2..MaxThreads
  /\ UNCHANGED <<workers, job, parked, waiting, worker, seen, unwinding>>

\* The workers the pool still lacks for this job are spawned.  (One counted
\* that then cannot be spawned is left out: its panic ends the released program.)
Spawn(c) ==
  /\ caller[c] = "spawning"
  /\ workers < asked - 1
  /\ workers' = workers + 1
  /\ worker' = [worker EXCEPT ![workers + 1] = "looking"]
  /\ UNCHANGED <<holder, job, parked, waiting, seen, caller, asked, unwinding>>

\* The job is published and every parked worker is woken.
Publish(c) ==
  /\ caller[c] = "spawning"
  /\ workers >= asked - 1
  /\ job' = [job EXCEPT !.generation = @ + 1, !.threads = asked,
                        !.work = c, !.pending = asked - 1]
  /\ worker' = [i \in Indices |-> IF i \in parked THEN "looking" ELSE worker[i]]
  /\ parked' = {}
  /\ caller' = [caller EXCEPT ![c] = "working"]
  /\ UNCHANGED <<workers, holder, waiting, seen, asked, unwinding>>

\* The caller's own share of the work, thread 0, returns or panics.
OwnWork(c) ==
  /\ caller[c] = "working"
  /\ caller' = [caller EXCEPT ![c] = "finishing"]
  /\ unwinding' \in BOOLEAN
  /\ UNCHANGED <<workers, holder, job, parked, waiting, worker, seen, asked>>

\* Finish::drop finds workers still at it and waits on `finished`.
AwaitWorkers(c) ==
  /\ caller[c] = "finishing"
  /\ ~waiting
  /\ job.pending > 0
  /\ waiting' = TRUE
  /\ UNCHANGED <<workers, holder, job, parked, worker, seen, caller, asked, unwinding>>

\* As Finish, were the workers not awaited while unwinding.
FinishUnwinding(c) ==
  /\ caller[c] = "finishing"
  /\ ~waiting
  /\ job.pending = 0 \/ unwinding
  /\ job' = [job EXCEPT !.work = None, !.panicked = FALSE]
  /\ caller' = [caller EXCEPT ![c] = IF unwinding \/ job.panicked THEN "panicked" ELSE "returned"]
  /\ holder' = None
  /\ asked' = 0
  /\ unwinding' = FALSE
  /\ UNCHANGED <<workers, parked, waiting, worker, seen>>

\* Finish::drop takes the work and the panic back.  The call returns or
\* unwinds, by the caller's own panic or a worker's, and the guard of the
\* workers mutex, declared before Finish, is dropped after it.
Finish(c) ==
  /\ caller[c] = "finishing"
  /\ ~waiting
  /\ job.pending = 0
  /\ job' = [job EXCEPT !.work = None, !.panicked = FALSE]
  /\ caller' = [caller EXCEPT ![c] = IF unwinding \/ job.panicked THEN "panicked" ELSE "returned"]
  /\ holder' = None
  /\ asked' = 0
  /\ unwinding' = FALSE
  /\ UNCHANGED <<workers, parked, waiting, worker, seen>>

\* The caller goes on; what it does with a panic is not on_threads' concern.
Leave(c) ==
  /\ caller[c] \in {"returned", "panicked"}
  /\ caller' = [caller EXCEPT ![c] = "out"]
  /\ UNCHANGED <<workers, holder, job, parked, waiting, worker, seen, asked, unwinding>>

-----------------------------------------------------------------------------
(* A worker                                                                *)

\* The generation is the one seen last: the worker parks.
Park(i) ==
  /\ worker[i] = "looking"
  /\ job.generation = seen[i]
  /\ worker' = [worker EXCEPT ![i] = "parked"]
  /\ parked' = parked \union {i}
  /\ UNCHANGED <<workers, holder, job, waiting, seen, caller, asked, unwinding>>

\* As TakeWork, were every worker to take part in every job.
TakeWorkAll(i) ==
  /\ worker[i] = "looking"
  /\ job.generation # seen[i]
  /\ seen' = [seen EXCEPT ![i] = job.generation]
  /\ worker' = [worker EXCEPT ![i] = IF job.work # None THEN "working" ELSE "looking"]
  /\ UNCHANGED <<workers, holder, job, parked, waiting, caller, asked, unwinding>>

\* A new generation: the worker takes the work if its index is among the
\* job's threads and the work is still there, and looks again otherwise.
TakeWork(i) ==
  /\ worker[i] = "looking"
  /\ job.generation # seen[i]
  /\ seen' = [seen EXCEPT ![i] = job.generation]
  /\ worker' = [worker EXCEPT ![i] =
                  IF job.work # None /\ i < job.threads THEN "working" ELSE "looking"]
  /\ UNCHANGED <<workers, holder, job, parked, waiting, caller, asked, unwinding>>

\* The work returns or panics; the last worker wakes the caller.
Report(i) ==
  /\ worker[i] = "working"
  /\ \E panicked \in BOOLEAN :
       job' = [job EXCEPT !.panicked = @ \/ panicked, !.pending = @ - 1]
  /\ waiting' = (waiting /\ job'.pending # 0)
  /\ worker' = [worker EXCEPT ![i] = "looking"]
  /\ UNCHANGED <<workers, holder, parked, seen, caller, asked, unwinding>>

CallerStep(c) ==
  \/ Enter(c) \/ Spawn(c) \/ Publish(c) \/ OwnWork(c)
  \/ AwaitWorkers(c) \/ Finish(c) \/ Leave(c)

WorkerStep(i) == Park(i) \/ TakeWork(i) \/ Report(i)

\* Nothing is left to do within the bound: the workers stay parked.
PoolIdle ==
  /\ job.generation = MaxCalls
  /\ \A c \in Callers : caller[c] = "out"
  /\ \A i \in Indices : worker[i] \in {"absent", "parked"}
  /\ UNCHANGED poolVars

PoolNext ==
  \/ \E c \in Callers : CallerStep(c)
  \/ \E i \in Indices : WorkerStep(i)
  \/ PoolIdle

PoolSpec == PoolInit /\ [][PoolNext]_poolVars

-----------------------------------------------------------------------------
(* Properties                                                              *)

Handed(c) == caller[c] \in {"working", "finishing"}

\* Worker i's part of the job in progress is done.
HasRun(i) == seen[i] = job.generation /\ worker[i] # "working"

\* The state of on_threads' promise the pool is in.
Calls == INSTANCE OnThreads WITH
  calling <- {c \in Callers : Handed(c)},
  size <- IF \E c \in Callers : Handed(c) THEN job.threads ELSE 0,
  ran <- IF \E c \in Callers : Handed(c)
           THEN {i \in 1..(job.threads - 1) : HasRun(i)}
                  \union (IF \E c \in Callers : caller[c] = "finishing" THEN {0} ELSE {})
           ELSE {}

\* The pool keeps what on_threads promises: see OnThreads.
PoolKeepsPromise == Calls!Spec

\* A worker inside a job's work runs the work of a call that has not ended,
\* as one of its threads: the caller's borrows, whose lifetime `Work` erased,
\* are alive, the caller unwinding or not.
WorkOutlivesItsUse ==
  \A i \in Indices : worker[i] = "working" =>
    /\ job.work # None
    /\ seen[i] = job.generation
    /\ i < job.threads
    /\ Handed(job.work)
=============================================================================
