------------------------------- MODULE LibCapture -------------------------------
(***************************************************************************)
(* camera_capture's two threads (capture.rs): one takes the host's         *)
(* controls, the other gives libcamera back each request it completes,     *)
(* with the controls taken since.  A request owns a buffer.                *)
(***************************************************************************)
EXTENDS Integers, Sequences, SequencesExt, FiniteSets, FiniteSetsExt

CONSTANTS
  Requests,      \* requests of the camera
  ControlIds,
  MaxControls,   \* bound: controls the host sends
  MaxTaken       \* bound: frames libcamera completes

VARIABLES
  sent,        \* controls the host has sent, as <<id, number>>
  pendingSet,  \* the controls taken and not given to a request, by their id
  queuedAt,    \* requests with libcamera, each with its controls
  completed,   \* requests completed, not received yet
  inHand,      \* the request being read
  applied,     \* the controls in force at the camera
  lost,        \* requests cancelled, or that libcamera would not take back
  frame,       \* what each request's buffer holds
  written,     \* the frames written, as <<frame, what was read>>
  taken, stop, ended

libVars == <<sent, pendingSet, queuedAt, completed, inHand, applied, lost, frame, written, taken, stop, ended>>

Untouched == [id \in ControlIds |-> 0]

\* A control of an id replaces the one before.
Onto(controls, others) ==
  [id \in ControlIds |-> IF others[id] # 0 THEN others[id] ELSE controls[id]]

LibInit ==
  /\ sent = <<>> /\ pendingSet = Untouched /\ applied = Untouched
  /\ queuedAt = [i \in 1..Cardinality(Requests) |->
                   [request |-> SetToSeq(Requests)[i], controls |-> Untouched]]
  /\ completed = <<>> /\ inHand = <<>> /\ lost = {}
  /\ frame = [r \in Requests |-> 0] /\ written = {} /\ taken = 0
  /\ stop = FALSE /\ ended = FALSE

\* The reader thread: a control it understands is the last of its id; the
\* end of the input stops the capture.
TakeControl ==
  /\ ~stop /\ Len(sent) < MaxControls
  /\ \E id \in ControlIds :
       /\ sent' = Append(sent, <<id, Len(sent) + 1>>)
       /\ pendingSet' = [pendingSet EXCEPT ![id] = Len(sent) + 1]
  /\ UNCHANGED <<queuedAt, completed, inHand, applied, lost, frame, written, taken, stop, ended>>

StdinCloses ==
  /\ ~stop /\ stop' = TRUE
  /\ UNCHANGED <<sent, pendingSet, queuedAt, completed, inHand, applied, lost, frame, written, taken, ended>>

\* libcamera applies the controls of its next request and fills its buffer.
Complete ==
  /\ queuedAt # <<>> /\ taken < MaxTaken /\ ~ended
  /\ taken' = taken + 1
  /\ applied' = Onto(applied, Head(queuedAt).controls)
  /\ frame' = [frame EXCEPT ![Head(queuedAt).request] = taken + 1]
  /\ completed' = Append(completed, [request |-> Head(queuedAt).request, number |-> taken + 1])
  /\ queuedAt' = Tail(queuedAt)
  /\ UNCHANGED <<sent, pendingSet, inHand, lost, written, stop, ended>>

\* The capture loop receives a completed request.  One that libcamera
\* cancelled is dropped and not given back.
Receive ==
  /\ ~ended /\ ~stop /\ inHand = <<>> /\ completed # <<>>
  /\ completed' = Tail(completed)
  /\ \/ inHand' = <<Head(completed)>> /\ UNCHANGED lost
     \/ lost' = lost \union {Head(completed).request} /\ UNCHANGED inHand
  /\ UNCHANGED <<sent, pendingSet, queuedAt, applied, frame, written, taken, stop, ended>>

\* Its frame is read and written, unless it cannot be encoded; output that
\* fails stops the capture.
WriteFrame ==
  /\ inHand # <<>> /\ "read" \notin DOMAIN inHand[1]
  /\ inHand' = <<[request |-> inHand[1].request, number |-> inHand[1].number, read |-> TRUE]>>
  /\ \/ written' = written \union {<<inHand[1].number, frame[inHand[1].request]>>} /\ UNCHANGED stop
     \/ UNCHANGED <<written, stop>>
     \/ stop' = TRUE /\ UNCHANGED written
  /\ UNCHANGED <<sent, pendingSet, queuedAt, completed, applied, lost, frame, taken, ended>>

\* The request is given back with the controls taken since; a failure to is
\* not noticed.
Requeue ==
  /\ inHand # <<>> /\ "read" \in DOMAIN inHand[1]
  /\ \/ queuedAt' = Append(queuedAt, [request |-> inHand[1].request, controls |-> pendingSet]) /\ UNCHANGED lost
     \/ lost' = lost \union {inHand[1].request} /\ UNCHANGED queuedAt
  /\ pendingSet' = Untouched /\ inHand' = <<>>
  /\ UNCHANGED <<sent, completed, applied, frame, written, taken, stop, ended>>

EndCapture ==
  /\ stop /\ inHand = <<>> /\ ~ended
  /\ ended' = TRUE
  /\ UNCHANGED <<sent, pendingSet, queuedAt, completed, inHand, applied, lost, frame, written, taken, stop>>

LibNext ==
  \/ TakeControl \/ StdinCloses \/ Complete
  \/ Receive \/ WriteFrame \/ Requeue \/ EndCapture

-----------------------------------------------------------------------------

\* The last control of each id is the one in force once those under way
\* are: none is lost between the threads or overtaken by an older one.
LastControlWins ==
  lost = {} =>
    \A id \in ControlIds :
      LET given == {n \in DOMAIN queuedAt : queuedAt[n].controls[id] # 0}
          inTheEnd == IF pendingSet[id] # 0 THEN pendingSet[id]
                      ELSE IF given # {} THEN queuedAt[Max(given)].controls[id]
                      ELSE applied[id]
      IN  inTheEnd = Max({0} \union {n \in DOMAIN sent : sent[n][1] = id})

\* A frame written is the one the camera took, not a later one of its buffer.
FramesAsTaken == \A w \in written : w[1] = w[2]

\* Every request is somewhere.
RequestsKept ==
  Cardinality(lost) + Len(queuedAt) + Len(completed) + Len(inHand) = Cardinality(Requests)
=============================================================================
