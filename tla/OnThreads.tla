------------------------------ MODULE OnThreads ------------------------------
(***************************************************************************)
(* What stereo_match's parallel::on_threads promises its callers: a call   *)
(* runs its work once on each of its threads, calls of several callers run *)
(* one at a time, and a call is over only when all its threads are.  Pool  *)
(* implements it.                                                          *)
(***************************************************************************)
EXTENDS Integers

CONSTANTS
  Callers,      \* threads that call on_threads
  MaxThreads    \* the most threads a call asks for

VARIABLES
  calling,      \* the callers inside a call whose work has been handed out
  size,         \* the number of threads of the call in progress
  ran           \* the thread indices that are done with the work of it

vars == <<calling, size, ran>>

Init ==
  /\ calling = {}
  /\ size = 0
  /\ ran = {}

\* A call hands its work out to its threads: nobody else's work is running.
Start(c) ==
  /\ calling = {}
  /\ calling' = {c}
  /\ size' \in 2..MaxThreads
  /\ ran' = {}

\* Thread i of the call is done with its work, or panicked in it.
Run(i) ==
  /\ calling # {}
  /\ i \in 0..(size - 1) \ ran
  /\ ran' = ran \union {i}
  /\ UNCHANGED <<calling, size>>

\* The call returns, or unwinds, once every thread is done.
Return(c) ==
  /\ calling = {c}
  /\ ran = 0..(size - 1)
  /\ calling' = {}
  /\ size' = 0
  /\ ran' = {}

Next ==
  \/ \E c \in Callers : Start(c) \/ Return(c)
  \/ \E i \in 0..(MaxThreads - 1) : Run(i)

Spec == Init /\ [][Next]_vars
=============================================================================
