------------------------------- MODULE Detector -------------------------------
(***************************************************************************)
(* The hailo_detect processes (main.rs, outcome.rs, hailo.rs) on the one   *)
(* accelerator, and the server that owns their Port (hailo.ex).  One frame *)
(* is in flight at a time; a late answer restarts the process, and the     *)
(* earlier one may still hold the accelerator when its successor opens it. *)
(*                                                                         *)
(* Detections are the frame they were made of, -1 for none made.           *)
(***************************************************************************)
EXTENDS Integers, Sequences, FiniteSets

CONSTANTS
  MaxFrames,     \* bound: frames detected in
  MaxDetectors   \* bound: processes started

VARIABLES
  frames,      \* frames submitted
  inflight,    \* the frame at the accelerator, 0 for none
  link,        \* the open Port, 0 for none
  reopening,   \* a reopen is due
  messages,    \* what the processes have written
  delivered,   \* the answers passed on, as <<frame, detections>>
  started,     \* processes started
  process      \* each process

detectorVars == <<frames, inflight, link, reopening, messages, delivered, started, process>>

NoDetections == -1
Instances == 1..MaxDetectors
NotStarted == [pc |-> "absent", connected |-> FALSE, request |-> 0, handles |-> {}, streams |-> <<>>]
Starting == [NotStarted EXCEPT !.pc = "opening", !.connected = TRUE]

DetectorInit ==
  /\ frames = 0 /\ inflight = 0 /\ link = 1 /\ reopening = FALSE
  /\ messages = <<>> /\ delivered = {} /\ started = 1
  /\ process = [i \in Instances |-> IF i = 1 THEN Starting ELSE NotStarted]

-----------------------------------------------------------------------------
(* The server                                                              *)

Alive(i) == i # 0 /\ process[i].pc # "exited"
Disconnected == [process EXCEPT ![link].connected = FALSE]

\* A frame is sent when the Port is open and no other is in flight.
Detect ==
  /\ frames < MaxFrames
  /\ frames' = frames + 1
  /\ IF link # 0 /\ inflight = 0
       THEN /\ Alive(link)
            /\ inflight' = frames + 1
            /\ process' = [process EXCEPT ![link].request = frames + 1]
       ELSE UNCHANGED <<inflight, process>>
  /\ UNCHANGED <<link, reopening, messages, delivered, started>>

\* A request of the server's to a process that has exited, its exit not
\* handled yet, raises: the server is restarted, and opens another Port.
Raise ==
  /\ link # 0 /\ ~Alive(link) /\ started < MaxDetectors
  /\ \/ frames < MaxFrames /\ inflight = 0 /\ frames' = frames + 1
     \/ inflight # 0 /\ UNCHANGED frames
  /\ inflight' = 0 /\ link' = started + 1 /\ started' = started + 1
  /\ reopening' = FALSE /\ messages' = <<>>
  /\ process' = [process EXCEPT ![started + 1] = Starting]
  /\ UNCHANGED delivered

PortDown == link' = 0 /\ inflight' = 0 /\ reopening' = TRUE

\* An answer is passed on when it is of the frame in flight.
Deliver(frame, detections) ==
  IF frame = inflight
    THEN delivered' = delivered \union {<<frame, detections>>} /\ inflight' = 0
    ELSE UNCHANGED <<delivered, inflight>>

HandleMessage ==
  /\ messages # <<>>
  /\ messages' = Tail(messages)
  /\ LET message == Head(messages)
     IN  CASE message.from # link -> UNCHANGED <<link, inflight, reopening, delivered>>
           [] message.from = link /\ message.kind = "exit" -> PortDown /\ UNCHANGED delivered
           [] OTHER -> Deliver(message.frame, message.detections) /\ UNCHANGED <<link, reopening>>
  /\ UNCHANGED <<frames, started, process>>

\* The frame in flight is late: the process is left to find out that its
\* Port was closed.
InferTimeout ==
  /\ inflight # 0 /\ Alive(link)
  /\ PortDown
  /\ process' = Disconnected
  /\ UNCHANGED <<frames, messages, delivered, started>>

Reopen ==
  /\ reopening /\ started < MaxDetectors
  /\ reopening' = FALSE /\ link' = started + 1 /\ started' = started + 1
  /\ process' = [process EXCEPT ![started + 1] = Starting]
  /\ UNCHANGED <<frames, inflight, messages, delivered>>

-----------------------------------------------------------------------------
(* A process                                                               *)

\* Released on exit, vstreams before the device that owns them.
Released(i) == [process[i] EXCEPT !.pc = "exited", !.handles = {}, !.streams = <<>>, !.request = 0]

Exits(i, written) ==
  /\ process' = [process EXCEPT ![i] = Released(i)]
  /\ messages' = IF process[i].connected THEN messages \o written \o <<[from |-> i, kind |-> "exit"]>>
                 ELSE messages

\* The device, then the network and its vstreams.
Open(i) ==
  /\ process[i].pc = "opening"
  /\ \/ /\ process[i].handles = {}
        /\ \A j \in Instances : process[j].handles = {}
        /\ process' = [process EXCEPT ![i].handles = {"vdevice"}]
     \/ /\ process[i].handles # {}
        /\ process' = [process EXCEPT ![i].handles = {"vdevice", "hef", "inputs", "outputs"}, ![i].pc = "reading"]
  /\ UNCHANGED <<frames, inflight, link, reopening, messages, delivered, started>>

\* A call that fails: the device is another process's, or a network it
\* cannot configure.
OpenFails(i) ==
  /\ process[i].pc = "opening"
  /\ Exits(i, <<>>)
  /\ UNCHANGED <<frames, inflight, link, reopening, delivered, started>>

EndOfInput(i) ==
  /\ process[i].pc = "reading" /\ ~process[i].connected /\ process[i].request = 0
  /\ Exits(i, <<>>)
  /\ UNCHANGED <<frames, inflight, link, reopening, delivered, started>>

\* As ReplyFor, were the process to go on after a failed read.
ReplyWithoutExit(outcome) == IF outcome.kind = "inferred" THEN "detections" ELSE "empty"

\* What to answer, given how the inference went.
ReplyFor(outcome) ==
  CASE outcome.kind = "inferred" -> "detections"
    [] outcome.kind = "rejected" -> "empty"
    [] outcome.kind = "write_failed" -> IF outcome.cleared THEN "empty" ELSE "empty_then_exit"
    [] outcome.kind = "read_failed" -> "empty_then_exit"

Outcomes ==
  {[kind |-> k, cleared |-> FALSE] : k \in {"inferred", "rejected", "read_failed"}}
    \union [kind : {"write_failed"}, cleared : BOOLEAN]

\* A frame is written and the oldest one read: a failed read leaves one in
\* the vstreams.
StreamsAfter(streams, frame, outcome) ==
  CASE outcome.kind = "inferred" -> Tail(Append(streams, frame))
    [] outcome.kind = "read_failed" -> Append(streams, frame)
    [] outcome.kind = "write_failed" /\ outcome.cleared -> <<>>
    [] OTHER -> streams

Infer(i) ==
  /\ process[i].pc = "reading" /\ process[i].request # 0
  /\ \E outcome \in Outcomes :
       LET frame == process[i].request
           streams == process[i].streams
           reply == ReplyFor(outcome)
           made == IF reply = "detections" THEN Head(Append(streams, frame)) ELSE NoDetections
           written == <<[from |-> i, kind |-> "detections", frame |-> frame, detections |-> made]>>
       IN  IF reply = "empty_then_exit" \/ ~process[i].connected THEN Exits(i, written)
           ELSE /\ messages' = messages \o written
                /\ process' = [process EXCEPT ![i].request = 0,
                                              ![i].streams = StreamsAfter(streams, frame, outcome)]
  /\ UNCHANGED <<frames, inflight, link, reopening, delivered, started>>

ProcessStep(i) == Open(i) \/ OpenFails(i) \/ EndOfInput(i) \/ Infer(i)

DetectorNext ==
  \/ Detect \/ Raise \/ HandleMessage \/ InferTimeout \/ Reopen
  \/ \E i \in Instances : ProcessStep(i)

-----------------------------------------------------------------------------

\* What is passed on for a frame was detected in that frame.
DetectionsOfFrame ==
  \A answer \in delivered : answer[2] \in {answer[1], NoDetections}
=============================================================================
