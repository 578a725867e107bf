----------------------------- MODULE DeviceAttach -----------------------------
(***************************************************************************)
(* Attaching to devices over SSH (attach.rs, attach_deployed): the main    *)
(* thread sends a job per device to a thread that runs a task for each and *)
(* keeps a handle to abort it.  A task connects, runs a session and starts *)
(* over; a thread beside it passes what is typed to the session there is.  *)
(*                                                                         *)
(* The thread of the tasks takes all jobs before any task runs.  A task is *)
(* here where it awaits something, which is where an abort ends it.        *)
(***************************************************************************)
EXTENDS Integers, Sequences, FiniteSetsExt

CONSTANTS
  Devices,
  BackoffLimit,   \* seconds between two attempts at most
  MaxLosses,      \* bound: devices lost and found, connections refused
  MaxLinesTyped   \* bound: lines typed

VARIABLES
  reachable,   \* the devices that answer
  task,        \* per device, where its task is
  delay,       \* per device, its backoff
  handles,     \* the tasks whose handles are kept
  aborted,     \* the tasks aborted
  quitting,    \* the main thread: "no", "closed", "told", "aborting", "joined"
  typedIn,     \* per device, the lines its bridge has not taken
  bridge,      \* per device, whether the bridge holds a line
  slot,        \* per device, the lines sent to its session, -1 for no session
  reports, connected,
  losses, typedCount

deviceVars == <<reachable, task, delay, handles, aborted, quitting, typedIn, bridge, slot,
                reports, connected, losses, typedCount>>

NoSession == -1

DeviceInit ==
  /\ reachable = Devices
  /\ task = [d \in Devices |-> "queued"] /\ delay = [d \in Devices |-> 1]
  /\ handles = {} /\ aborted = {} /\ quitting = "no"
  /\ typedIn = [d \in Devices |-> 0] /\ bridge = [d \in Devices |-> FALSE]
  /\ slot = [d \in Devices |-> NoSession]
  /\ reports = [d \in Devices |-> <<>>] /\ connected = [d \in Devices |-> FALSE]
  /\ losses = 0 /\ typedCount = 0

Told == quitting \in {"told", "aborting", "joined"}

Task(d, from, to) == task[d] = from /\ d \notin aborted /\ task' = [task EXCEPT ![d] = to]

\* To the panes, while they are there.  (Bound: they are one message behind.)
Reported(d, up) ==
  IF quitting # "no" THEN UNCHANGED reports
  ELSE reports[d] = <<>> /\ reports' = [reports EXCEPT ![d] = <<up>>]

-----------------------------------------------------------------------------
(* The tasks                                                               *)

\* A job is taken, and its task made.
TakeJob(d) ==
  /\ task[d] = "queued" /\ task' = [task EXCEPT ![d] = "spawned"]
  /\ handles' = handles \cup {d}
  /\ UNCHANGED <<reachable, delay, aborted, quitting, typedIn, bridge, slot, reports, connected,
                 losses, typedCount>>

\* The loop's condition: on with a session of its own, or the end.
NextSession(d, from) ==
  IF Told THEN Task(d, from, "ended") /\ UNCHANGED slot
  ELSE Task(d, from, "connecting") /\ slot' = [slot EXCEPT ![d] = 0]

StartTask(d) ==
  /\ \A e \in Devices : task[e] # "queued"
  /\ NextSession(d, "spawned")
  /\ UNCHANGED <<reachable, delay, handles, aborted, quitting, typedIn, bridge, reports, connected,
                 losses, typedCount>>

Connect(d) ==
  /\ d \in reachable /\ Task(d, "connecting", "session")
  /\ Reported(d, TRUE)
  /\ UNCHANGED <<reachable, delay, handles, aborted, quitting, typedIn, bridge, slot, connected,
                 losses, typedCount>>

\* A session that was refused, ended by the device, or given up.
SessionEnds(d) ==
  /\ \/ Task(d, "connecting", "down") /\ UNCHANGED delay
     \/ /\ Task(d, "session", "down")
        /\ \E long \in BOOLEAN : delay' = IF long THEN [delay EXCEPT ![d] = 1] ELSE delay
  /\ slot' = [slot EXCEPT ![d] = NoSession]
  /\ Reported(d, FALSE)
  /\ UNCHANGED <<reachable, handles, aborted, quitting, typedIn, bridge, connected, typedCount>>

Lost(d) == d \notin reachable /\ SessionEnds(d) /\ UNCHANGED losses

\* A device that answers may refuse a session, or end it.
Refused(d) == d \in reachable /\ losses < MaxLosses /\ losses' = losses + 1 /\ SessionEnds(d)

PassLine(d) ==
  /\ task[d] = "session" /\ d \notin aborted /\ slot[d] > 0
  /\ slot' = [slot EXCEPT ![d] = @ - 1]
  /\ UNCHANGED <<reachable, task, delay, handles, aborted, quitting, typedIn, bridge, reports, connected,
                 losses, typedCount>>

SleepBetween(d) ==
  /\ \/ Task(d, "down", IF Told THEN "ended" ELSE "sleeping") /\ UNCHANGED <<slot, delay>>
     \/ /\ NextSession(d, "sleeping")
        /\ delay' = [delay EXCEPT ![d] = Min({@ * 2, BackoffLimit})]
  /\ UNCHANGED <<reachable, handles, aborted, quitting, typedIn, bridge, reports, connected,
                 losses, typedCount>>

Aborted(d) ==
  /\ d \in aborted /\ task[d] # "ended"
  /\ task' = [task EXCEPT ![d] = "ended"]
  /\ UNCHANGED <<reachable, delay, handles, aborted, quitting, typedIn, bridge, slot, reports, connected,
                 losses, typedCount>>

-----------------------------------------------------------------------------
(* What is typed                                                           *)

TypeFor(d) ==
  /\ quitting = "no" /\ typedCount < MaxLinesTyped
  /\ typedCount' = typedCount + 1
  /\ typedIn' = [typedIn EXCEPT ![d] = @ + 1]
  /\ UNCHANGED <<reachable, task, delay, handles, aborted, quitting, bridge, slot, reports, connected, losses>>

\* The bridge takes a line, then gives it to the session there is, if any:
\* the one being connected to included.
Bridge(d) ==
  /\ IF bridge[d]
       THEN /\ bridge' = [bridge EXCEPT ![d] = FALSE]
            /\ slot' = [slot EXCEPT ![d] = IF @ = NoSession THEN @ ELSE @ + 1]
            /\ UNCHANGED typedIn
       ELSE /\ typedIn[d] > 0
            /\ bridge' = [bridge EXCEPT ![d] = TRUE]
            /\ typedIn' = [typedIn EXCEPT ![d] = @ - 1]
            /\ UNCHANGED slot
  /\ UNCHANGED <<reachable, task, delay, handles, aborted, quitting, reports, connected, losses, typedCount>>

ShowReport(d) ==
  /\ quitting = "no" /\ reports[d] # <<>>
  /\ connected' = [connected EXCEPT ![d] = Head(reports[d])]
  /\ reports' = [reports EXCEPT ![d] = Tail(@)]
  /\ UNCHANGED <<reachable, task, delay, handles, aborted, quitting, typedIn, bridge, slot, losses, typedCount>>

-----------------------------------------------------------------------------
(* Quitting                                                                *)

Quitting(from, to) == quitting = from /\ quitting' = to

\* As QuitStep, were the tasks aborted before they are told.
QuitStepAbortingFirst ==
  /\ \/ /\ \/ Quitting("no", "closed")
           \/ Quitting("abortedFirst", "told")
           \/ Quitting("told", "joined") /\ \A d \in Devices : task[d] = "ended"
        /\ UNCHANGED <<handles, aborted>>
     \/ /\ Quitting("closed", "abortedFirst")
        /\ aborted' = aborted \cup handles /\ handles' = {}
  /\ UNCHANGED <<reachable, task, delay, typedIn, bridge, slot, reports, connected, losses, typedCount>>

\* The panes are closed, the tasks told, those whose handles are kept
\* aborted, and the thread waited for.
QuitStep ==
  /\ \/ /\ \/ Quitting("no", "closed")
           \/ Quitting("closed", "told")
           \/ Quitting("aborting", "joined") /\ \A d \in Devices : task[d] = "ended"
        /\ UNCHANGED <<handles, aborted>>
     \/ /\ Quitting("told", "aborting")
        /\ aborted' = aborted \cup handles /\ handles' = {}
  /\ UNCHANGED <<reachable, task, delay, typedIn, bridge, slot, reports, connected, losses, typedCount>>

Roam ==
  /\ losses < MaxLosses /\ losses' = losses + 1
  /\ \E d \in Devices : reachable' = IF d \in reachable THEN reachable \ {d} ELSE reachable \cup {d}
  /\ UNCHANGED <<task, delay, handles, aborted, quitting, typedIn, bridge, slot, reports, connected, typedCount>>

TaskStep(d) ==
  TakeJob(d) \/ StartTask(d) \/ Connect(d) \/ Lost(d) \/ PassLine(d) \/ SleepBetween(d) \/ Aborted(d)

DeviceNext ==
  \/ \E d \in Devices : TaskStep(d) \/ Refused(d) \/ TypeFor(d) \/ Bridge(d) \/ ShowReport(d)
  \/ QuitStep \/ Roam

-----------------------------------------------------------------------------

\* In the end attach has stopped, or shows which devices it is connected to
\* and has passed on what was typed.
DevicesSettled ==
  IF quitting = "no" THEN \A d \in Devices : /\ connected[d] = (d \in reachable)
                                             /\ slot[d] \in {NoSession, 0} \/ d \notin reachable
  ELSE quitting = "joined"

=============================================================================
