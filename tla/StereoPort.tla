------------------------------ MODULE StereoPort ------------------------------
(***************************************************************************)
(* The stereo_match process (main.rs) and the server that owns its Port    *)
(* (matcher.ex).  A pipeline sends runs of its segment without waiting for *)
(* their replies.  The server configures the segment first when the Port   *)
(* does not have it at the run's version, matches replies to requests by   *)
(* their order alone, and closes the Port when one is late.                *)
(*                                                                         *)
(* A reply names the run, the version and the pairs carried over that it   *)
(* was computed from, which only the properties look at.                   *)
(***************************************************************************)
EXTENDS Integers, FiniteSets, FiniteSetsExt, Sequences, SequencesExt

CONSTANTS
  Segments,         \* each of one pipeline
  MaxRuns,          \* bound: runs sent, one fewer for each further segment
  MaxReloads,       \* bound: calibrations loaded
  RefusedVersions,  \* the versions the Port refuses
  Depth,            \* runs a pipeline has in flight
  MaxPorts          \* bound: Ports opened

VARIABLES
  \* the pipelines
  version,     \* of each segment's configuration
  queue,       \* runs sent, not handled yet
  answers,     \* of each run, "waiting" until it has one
  running,     \* the pipelines that have not exited
  \* the server
  port,        \* the open Port, 0 for none
  configured,  \* the version the Port is thought to have, 0 for none
  watched,     \* the segments whose pipeline is monitored
  pending,     \* the requests without a reply, in the order sent
  inbox,       \* what Ports have written
  opened,
  \* the process
  up,          \* its Port, 0 when it has exited
  input, parsed, computed,
  held         \* the configured segments, with the runs carried over

pipelineVars == <<version, queue, answers, running>>
serverVars == <<port, configured, watched, pending, opened>>
processVars == <<up, input, parsed, computed, held>>
portVars == <<pipelineVars, serverVars, inbox, processVars>>

Waiting(s) == {n \in DOMAIN answers[s] : answers[s][n].kind = "waiting"}
NotHeld == [version |-> 0, carried |-> {}]

Ended == input' = <<>> /\ parsed' = <<>> /\ computed' = <<>> /\ held' = [s \in Segments |-> NotHeld]

PortInit ==
  /\ version = [s \in Segments |-> 1] /\ queue = [s \in Segments |-> <<>>]
  /\ answers = [s \in Segments |-> <<>>] /\ running = Segments
  /\ port = 0 /\ configured = [s \in Segments |-> 0] /\ watched = {} /\ pending = <<>>
  /\ inbox = <<>> /\ opened = 0
  /\ up = 0 /\ input = <<>> /\ parsed = <<>> /\ computed = <<>>
  /\ held = [s \in Segments |-> NotHeld]

-----------------------------------------------------------------------------
(* The pipelines                                                           *)

SendRun(s) ==
  /\ s \in running
  /\ MapThenSumSet(LAMBDA x : Len(answers[x]), Segments)
       + Cardinality({x \in Segments \ {s} : answers[x] # <<>>}) < MaxRuns
  /\ Cardinality(Waiting(s)) < Depth
  /\ queue' = [queue EXCEPT ![s] = Append(@, [run |-> Len(answers[s]) + 1, version |-> version[s]])]
  /\ answers' = [answers EXCEPT ![s] = Append(@, [kind |-> "waiting", version |-> version[s]])]
  /\ UNCHANGED <<version, running, serverVars, inbox, processVars>>

\* A calibration is loaded: the next run has a new configuration.
Reload(s) ==
  /\ s \in running /\ answers[s] # <<>>
  /\ MapThenSumSet(LAMBDA x : version[x] - 1, Segments) < MaxReloads
  /\ version' = [version EXCEPT ![s] = @ + 1]
  /\ UNCHANGED <<queue, answers, running, serverVars, inbox, processVars>>

Exit(s) ==
  /\ s \in running /\ answers[s] # <<>>
  /\ running' = running \ {s}
  /\ UNCHANGED <<version, queue, answers, serverVars, inbox, processVars>>

-----------------------------------------------------------------------------
(* The server                                                              *)

Answered(entries, answer(_)) ==
  [s \in Segments |-> [n \in DOMAIN answers[s] |->
     IF \E i \in DOMAIN entries : entries[i].kind # "configure" /\ entries[i].segment = s /\ entries[i].run = n
       THEN LET i == CHOOSE i \in DOMAIN entries :
                       entries[i].kind # "configure" /\ entries[i].segment = s /\ entries[i].run = n
            IN  [answer(entries[i]) EXCEPT !.version = answers[s][n].version]
       ELSE answers[s][n]]]

Failure(error) == [kind |-> error, version |-> 0]

\* A run fails with the reason the Port was closed for, unless its
\* configuration was refused already.
Fail(entry, reason) == Failure(IF entry.kind = "failed" THEN "configuration_refused" ELSE reason)

\* As Closed, were the request that is late the only one to fail.
ClosedForOne(reason) ==
  /\ port' = 0 /\ pending' = <<>> /\ configured' = [s \in Segments |-> 0]
  /\ answers' = Answered(SubSeq(pending, 1, 1), LAMBDA entry : Fail(entry, reason))

\* The Port is gone: every request waiting fails, nothing is configured.
Closed(reason) ==
  /\ port' = 0 /\ pending' = <<>> /\ configured' = [s \in Segments |-> 0]
  /\ answers' = Answered(pending, LAMBDA entry : Fail(entry, reason))

\* The server crashes and restarts with nothing, its Port with it: whoever
\* waits on it is told it is down.
Crash ==
  /\ port' = 0 /\ pending' = <<>> /\ configured' = [s \in Segments |-> 0] /\ watched' = {}
  /\ answers' = [s \in Segments |-> [n \in DOMAIN answers[s] |->
       IF n \in Waiting(s) THEN [answers[s][n] EXCEPT !.kind = "down"] ELSE answers[s][n]]]
  /\ queue' = [s \in Segments |-> <<>>] /\ inbox' = <<>>
  /\ up' = 0 /\ Ended
  /\ UNCHANGED <<version, running, opened>>

Configure(s, run) == [kind |-> "configure", segment |-> s, version |-> run.version, run |-> 0]
RunOn(s, run) == [kind |-> "run", segment |-> s, version |-> run.version, run |-> run.run]

\* The requests for a run.
RequestsOf(s, run) ==
  IF configured[s] = run.version THEN <<RunOn(s, run)>> ELSE <<Configure(s, run), RunOn(s, run)>>

Taken(s) ==
  /\ queue[s] # <<>>
  /\ queue' = [queue EXCEPT ![s] = Tail(@)]
  /\ watched' = watched \union {s}

\* A run with the Port open.
HandleRun(s) ==
  /\ Taken(s)
  /\ port # 0 /\ up = port
  /\ LET requests == RequestsOf(s, Head(queue[s]))
     IN  input' = input \o requests /\ pending' = pending \o requests
  /\ configured' = [configured EXCEPT ![s] = Head(queue[s]).version]
  /\ UNCHANGED <<version, answers, running, port, opened, inbox, up, parsed, computed, held>>

\* A run with no Port, or one found to have exited: another is opened.
ReopenAndRun(s) ==
  /\ Taken(s)
  /\ up = 0 /\ opened < MaxPorts
  /\ opened' = opened + 1 /\ port' = opened + 1 /\ up' = opened + 1
  /\ pending' = <<Configure(s, Head(queue[s])), RunOn(s, Head(queue[s]))>>
  /\ input' = pending'
  /\ configured' = [x \in Segments |-> IF x = s THEN Head(queue[s]).version ELSE 0]
  /\ answers' = Answered(pending, LAMBDA entry : Fail(entry, "exited"))
  /\ UNCHANGED <<version, running, inbox, parsed, computed, held>>

\* A run when stereo_match is not installed.
NoMatcher(s) ==
  /\ Taken(s)
  /\ up = 0
  /\ port' = 0 /\ pending' = <<>> /\ configured' = [x \in Segments |-> 0]
  /\ answers' = [Answered(pending, LAMBDA entry : Fail(entry, "exited"))
                   EXCEPT ![s][Head(queue[s]).run].kind = "no_matcher"]
  /\ UNCHANGED <<version, running, opened, inbox, processVars>>

\* The Port exits after it was found open: writing to it raises.
CommandRaises(s) == queue[s] # <<>> /\ port # 0 /\ up = 0 /\ Crash

\* A refused configuration fails the run sent with it, which the Port would
\* otherwise have run on the configuration before.
Refuse(s) ==
  /\ configured' = [configured EXCEPT ![s] = 0]
  /\ pending' = IF Len(pending) > 1 THEN [Tail(pending) EXCEPT ![1].kind = "failed"] ELSE <<>>
  /\ UNCHANGED answers

Answer(entry, reply) ==
  IF entry.kind = "failed" THEN Failure("configuration_refused")
  ELSE IF reply.kind = "outputs" THEN [kind |-> "ok", version |-> 0, from |-> reply]
  ELSE Failure("bad_request")

\* As FromPort, were the Port a message is of not looked at.
FromAnyPort(message) == port # 0

\* Whether a message is from the Port that is open.
FromPort(message) == message.port = port

\* A reply answers the request that has waited longest.
HandleReply ==
  /\ inbox # <<>> /\ Head(inbox).kind # "exit" /\ FromPort(Head(inbox))
  /\ inbox' = Tail(inbox)
  /\ IF pending = <<>> THEN UNCHANGED <<configured, pending, answers>>
     ELSE LET entry == Head(pending)
          IN  IF entry.kind = "configure" /\ Head(inbox).kind # "configured" THEN Refuse(entry.segment)
              ELSE /\ pending' = Tail(pending) /\ UNCHANGED configured
                   /\ answers' = Answered(<<entry>>, LAMBDA e : Answer(e, Head(inbox)))
  /\ UNCHANGED <<version, queue, running, port, watched, opened, processVars>>

HandleExit ==
  /\ inbox # <<>> /\ Head(inbox).kind = "exit" /\ FromPort(Head(inbox))
  /\ inbox' = Tail(inbox)
  /\ Closed("exited")
  /\ UNCHANGED <<version, queue, running, watched, opened, processVars>>

\* What an earlier Port wrote.
Ignore ==
  /\ inbox # <<>> /\ ~FromPort(Head(inbox))
  /\ inbox' = Tail(inbox)
  /\ UNCHANGED <<pipelineVars, serverVars, processVars>>

\* The request that has waited longest is late: the Port is closed, which
\* raises when it has exited.
Deadline ==
  /\ pending # <<>>
  /\ IF up = port
       THEN Closed("timeout") /\ up' = 0 /\ Ended
            /\ UNCHANGED <<version, queue, running, watched, opened, inbox>>
       ELSE Crash

\* A watched pipeline has exited: its segment is released.
OwnerDown(s) ==
  /\ s \in watched /\ s \notin running /\ queue[s] = <<>>
  /\ watched' = watched \ {s}
  /\ configured' = [configured EXCEPT ![s] = 0]
  /\ input' = IF configured[s] # 0 /\ up = port
                THEN Append(input, [kind |-> "release", segment |-> s, version |-> 0, run |-> 0])
                ELSE input
  /\ UNCHANGED <<pipelineVars, port, pending, opened, inbox, up, parsed, computed, held>>

-----------------------------------------------------------------------------
(* The process: a thread reads and parses, one computes, one writes, with  *)
(* channels of one between them.                                           *)

ReadRequest ==
  /\ up # 0 /\ input # <<>> /\ Len(parsed) < 2
  /\ parsed' = Append(parsed, Head(input)) /\ input' = Tail(input)
  /\ UNCHANGED <<pipelineVars, serverVars, inbox, up, computed, held>>

Plain(kind) == [port |-> up, kind |-> kind]
OutputsOf(request) ==
  [port |-> up, kind |-> "outputs", segment |-> request.segment, run |-> request.run,
   version |-> held[request.segment].version, carried |-> held[request.segment].carried]

\* A run is refused when its segment is not configured, or when its inputs
\* or tensors do not fit the stages.
Compute ==
  /\ up # 0 /\ parsed # <<>> /\ Len(computed) < 2
  /\ parsed' = Tail(parsed)
  /\ LET request == Head(parsed)
         s == request.segment
     IN  CASE request.kind = "configure" ->
                LET taken == request.version \notin RefusedVersions
                IN  /\ held' = [held EXCEPT ![s] = IF taken THEN [version |-> request.version, carried |-> {}]
                                                   ELSE NotHeld]
                    /\ computed' = Append(computed, Plain(IF taken THEN "configured" ELSE "refused"))
           [] request.kind = "run" ->
                \/ /\ held[s].version # 0
                   /\ held' = [held EXCEPT ![s].carried = @ \union {request.run}]
                   /\ computed' = Append(computed, OutputsOf(request))
                \/ computed' = Append(computed, Plain("refused")) /\ UNCHANGED held
           [] OTHER -> held' = [held EXCEPT ![s] = NotHeld] /\ UNCHANGED computed
  /\ UNCHANGED <<pipelineVars, serverVars, inbox, up, input>>

Write ==
  /\ up # 0 /\ computed # <<>>
  /\ inbox' = Append(inbox, Head(computed)) /\ computed' = Tail(computed)
  /\ UNCHANGED <<pipelineVars, serverVars, up, input, parsed, held>>

\* It fails, and its exit is told the server after what it wrote.
PortExits ==
  /\ up # 0
  /\ up' = 0 /\ Ended
  /\ inbox' = Append(inbox, [port |-> up, kind |-> "exit"])
  /\ UNCHANGED <<pipelineVars, serverVars>>

-----------------------------------------------------------------------------

ServerStep ==
  \/ \E s \in Segments : HandleRun(s) \/ ReopenAndRun(s) \/ NoMatcher(s) \/ CommandRaises(s) \/ OwnerDown(s)
  \/ HandleReply \/ HandleExit \/ Ignore

PortNext ==
  \/ \E s \in Segments : SendRun(s) \/ Reload(s) \/ Exit(s)
  \/ ServerStep \/ Deadline
  \/ ReadRequest \/ Compute \/ Write \/ PortExits

\* What a pipeline is given for a run was computed from that run, in the
\* configuration it was sent with, after earlier runs of that configuration.
AnswersOwnRun ==
  \A s \in Segments : \A n \in DOMAIN answers[s] :
    answers[s][n].kind = "ok" =>
      LET from == answers[s][n].from
      IN  /\ from.segment = s /\ from.run = n /\ from.version = answers[s][n].version
          /\ \A m \in from.carried : m < n /\ answers[s][m].version = from.version

\* With nothing under way, a segment the server thinks configured is.
ConfiguredIsHeld ==
  pending = <<>> /\ input = <<>> /\ parsed = <<>> /\ port # 0 /\ up = port =>
    \A s \in Segments : configured[s] # 0 => held[s].version = configured[s]

RunsAnswered == \A s \in Segments : Waiting(s) = {}
=============================================================================
