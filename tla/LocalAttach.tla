----------------------------- MODULE LocalAttach -----------------------------
(***************************************************************************)
(* Attaching to nodes of this machine (attach.rs, attach_local): a thread  *)
(* per node runs three `iex --remsh` at a time against it, writes what is  *)
(* typed to one of them, and starts over when one dies or epmd no longer   *)
(* lists the node.  A remsh whose input ends halts the node it is on.      *)
(*                                                                         *)
(* Time is left out: a poll or a wait may last any finite time, and a      *)
(* session that ends may have lasted long enough to reset the backoff.     *)
(***************************************************************************)
EXTENDS Integers, Sequences, SequencesExt, FiniteSetsExt

CONSTANTS
  Locals,         \* the nodes
  BackoffCap,     \* seconds between two attempts at most
  MaxDisruptions, \* bound: nodes stopped, remshes lost, epmd failing, spawns failing
  MaxTyped        \* bound: lines typed

VARIABLES
  registered,  \* whether a node runs, and epmd lists it
  answering,   \* whether epmd answers
  remsh,       \* per node, its three remshes: none, open, orphan (its input closed) or dead
  at,          \* per node, where its supervisor is
  backoff,
  typedLines,  \* per node, the lines in its channel: whether typed since the channel was emptied
  staleLine,   \* whether a line typed before that was evaluated
  halted,      \* the nodes a remsh has halted
  broken,      \* the nodes a spawn failed half-way on
  sentUp,      \* per node, the connections and disconnections on their way to the panes
  shown,       \* per node, whether it is shown as connected
  disruptions, lines,
  closed,      \* the user has quit
  shutdown     \* and the supervisors have been told

localVars == <<registered, answering, remsh, at, backoff, typedLines, staleLine, halted, broken,
               sentUp, shown, disruptions, lines, closed, shutdown>>
world == <<registered, answering, halted, disruptions, lines, closed, shutdown, shown>>

Remshes == {"log", "shell", "monitor"}
All(state) == [r \in Remshes |-> state]

LocalInit ==
  /\ registered = [n \in Locals |-> TRUE] /\ answering = TRUE
  /\ remsh = [n \in Locals |-> All("none")]
  /\ at = [n \in Locals |-> "waiting"] /\ backoff = [n \in Locals |-> 1]
  /\ typedLines = [n \in Locals |-> <<>>] /\ staleLine = FALSE
  /\ halted = {} /\ broken = {}
  /\ sentUp = [n \in Locals |-> <<>>] /\ shown = [n \in Locals |-> FALSE]
  /\ disruptions = 0 /\ lines = 0
  /\ closed = FALSE /\ shutdown = FALSE

Supervisor(n, from, to) == at[n] = from /\ at' = [at EXCEPT ![n] = to]

\* To the panes, while they are there.  (Bound: they are one message behind.)
Report(n, connected) ==
  IF closed THEN UNCHANGED sentUp
  ELSE sentUp[n] = <<>> /\ sentUp' = [sentUp EXCEPT ![n] = <<connected>>]

-----------------------------------------------------------------------------
(* A supervisor                                                            *)

\* Without an answer a node counts as registered.
NodeRegistered(n) == registered[n] \/ ~answering

WaitUntilRegistered(n) ==
  /\ \/ ~shutdown /\ NodeRegistered(n) /\ Supervisor(n, "waiting", "spawning")
     \/ shutdown /\ Supervisor(n, "waiting", "ended")
  /\ UNCHANGED <<world, remsh, backoff, typedLines, staleLine, broken, sentUp>>

SpawnTrio(n) ==
  /\ Supervisor(n, "spawning", "emptying")
  /\ remsh' = [remsh EXCEPT ![n] = All("open")]
  /\ UNCHANGED <<world, backoff, typedLines, staleLine, broken, sentUp>>

\* The remshes spawned before the one that fails are left, their inputs
\* closed.
SpawnFails(n) ==
  /\ disruptions < MaxDisruptions
  /\ Supervisor(n, "spawning", "stopped")
  /\ \E spawned \in {{}, {"log"}, {"log", "shell"}} :
       /\ remsh' = [remsh EXCEPT ![n] =
            [r \in Remshes |-> IF r \in spawned THEN "orphan" ELSE @[r]]]
       /\ broken' = IF spawned = {} THEN broken ELSE broken \cup {n}
  /\ disruptions' = disruptions + 1
  /\ UNCHANGED <<registered, answering, halted, lines, closed, shutdown, shown,
                 backoff, typedLines, staleLine, sentUp>>

\* What was typed until now is dropped.
EmptyInput(n) ==
  /\ Supervisor(n, "emptying", "announcing")
  /\ typedLines' = [typedLines EXCEPT ![n] = <<>>]
  /\ UNCHANGED <<world, remsh, backoff, staleLine, broken, sentUp>>

Announce(n) ==
  /\ Supervisor(n, "announcing", "session")
  /\ Report(n, TRUE)
  /\ UNCHANGED <<world, remsh, backoff, typedLines, staleLine, broken>>

\* A line reaches the shell, or finds it dead.
PumpLine(n) ==
  /\ at[n] = "session" /\ ~shutdown /\ typedLines[n] # <<>>
  /\ typedLines' = [typedLines EXCEPT ![n] = Tail(@)]
  /\ IF remsh[n]["shell"] = "dead"
       THEN at' = [at EXCEPT ![n] = "killing"] /\ UNCHANGED staleLine
       ELSE UNCHANGED at /\ staleLine' = (staleLine \/ ~Head(typedLines[n]))
  /\ UNCHANGED <<world, remsh, backoff, broken, sentUp>>

\* Looked for when nothing has been typed for a while.
SessionOver(n) ==
  \/ shutdown
  \/ typedLines[n] = <<>> /\ ((\E r \in Remshes : remsh[n][r] = "dead") \/ ~NodeRegistered(n) \/ closed)

EndSession(n) ==
  /\ SessionOver(n) /\ Supervisor(n, "session", "killing")
  /\ UNCHANGED <<world, remsh, backoff, typedLines, staleLine, broken, sentUp>>

\* As KillAll, were only the processes spawned killed, not their groups.
KillSpawned(n) ==
  /\ Supervisor(n, "killing", "stopped")
  /\ remsh' = [remsh EXCEPT ![n] = All("orphan")]
  /\ typedLines' = [typedLines EXCEPT ![n] = [i \in DOMAIN @ |-> FALSE]]
  /\ \E long \in BOOLEAN : backoff' = IF long THEN [backoff EXCEPT ![n] = 1] ELSE backoff
  /\ Report(n, FALSE)
  /\ UNCHANGED <<world, staleLine, broken>>

\* The whole group of each remsh, before its input is closed.
KillAll(n) ==
  /\ Supervisor(n, "killing", "stopped")
  /\ remsh' = [remsh EXCEPT ![n] = All("dead")]
  /\ typedLines' = [typedLines EXCEPT ![n] = [i \in DOMAIN @ |-> FALSE]]
  /\ \E long \in BOOLEAN : backoff' = IF long THEN [backoff EXCEPT ![n] = 1] ELSE backoff
  /\ Report(n, FALSE)
  /\ UNCHANGED <<world, staleLine, broken>>

NextBackoff(current) == Min({current * 2, BackoffCap})

Sleep(n) ==
  /\ \/ shutdown /\ Supervisor(n, "stopped", "ended") /\ UNCHANGED backoff
     \/ ~shutdown /\ Supervisor(n, "stopped", "sleeping") /\ UNCHANGED backoff
     \/ /\ Supervisor(n, "sleeping", IF shutdown THEN "ended" ELSE "waiting")
        /\ backoff' = [backoff EXCEPT ![n] = NextBackoff(@)]
  /\ UNCHANGED <<world, remsh, typedLines, staleLine, broken, sentUp>>

SupervisorStep(n) ==
  \/ WaitUntilRegistered(n) \/ SpawnTrio(n) \/ EmptyInput(n) \/ Announce(n)
  \/ PumpLine(n) \/ EndSession(n) \/ KillAll(n) \/ Sleep(n)

-----------------------------------------------------------------------------
(* The panes, the nodes and epmd                                           *)

HandleMessage(n) ==
  /\ ~closed /\ sentUp[n] # <<>>
  /\ shown' = [shown EXCEPT ![n] = Head(sentUp[n])]
  /\ sentUp' = [sentUp EXCEPT ![n] = Tail(@)]
  /\ UNCHANGED <<registered, answering, halted, disruptions, lines, closed, shutdown,
                 remsh, at, backoff, typedLines, staleLine, broken>>

TypeLine(n) ==
  /\ ~closed /\ lines < MaxTyped
  /\ lines' = lines + 1
  /\ typedLines' = [typedLines EXCEPT ![n] = Append(@, at[n] \in {"announcing", "session", "killing"})]
  /\ UNCHANGED <<registered, answering, halted, disruptions, closed, shutdown, shown,
                 remsh, at, backoff, staleLine, broken, sentUp>>

\* The panes are closed, and the channels with them; then the supervisors
\* are told.
Quit ==
  /\ \/ ~closed /\ closed' = TRUE /\ sentUp' = [n \in Locals |-> <<>>] /\ UNCHANGED shutdown
     \/ closed /\ ~shutdown /\ shutdown' = TRUE /\ UNCHANGED <<closed, sentUp>>
  /\ UNCHANGED <<registered, answering, halted, disruptions, lines, shown,
                 remsh, at, backoff, typedLines, staleLine, broken>>

Disrupt ==
  /\ disruptions < MaxDisruptions
  /\ \/ answering' = ~answering /\ UNCHANGED <<registered, remsh>>
     \/ \E n \in Locals : registered' = [registered EXCEPT ![n] = ~@] /\ UNCHANGED <<answering, remsh>>
     \/ \E n \in Locals, r \in Remshes :
          /\ remsh[n][r] = "open" /\ remsh' = [remsh EXCEPT ![n][r] = "dead"]
          /\ UNCHANGED <<registered, answering>>
  /\ disruptions' = disruptions + 1
  /\ UNCHANGED <<halted, lines, closed, shutdown, shown, at, backoff, typedLines, staleLine, broken, sentUp>>

\* A remsh left with its input closed halts its node, and ends.
EofHalts(n) ==
  /\ \E r \in Remshes : remsh[n][r] = "orphan"
  /\ registered' = [registered EXCEPT ![n] = FALSE]
  /\ halted' = halted \cup {n}
  /\ remsh' = [remsh EXCEPT ![n] = [r \in Remshes |-> IF @[r] = "orphan" THEN "dead" ELSE @[r]]]
  /\ UNCHANGED <<answering, disruptions, lines, closed, shutdown, shown,
                 at, backoff, typedLines, staleLine, broken, sentUp>>

LocalNext ==
  \/ \E n \in Locals : SupervisorStep(n) \/ SpawnFails(n) \/ HandleMessage(n) \/ TypeLine(n) \/ EofHalts(n)
  \/ Quit \/ Disrupt

LocalSpec == LocalInit /\ [][LocalNext]_localVars

-----------------------------------------------------------------------------
(* Properties                                                              *)

\* A line is evaluated by the session it was typed in; a node is halted by
\* attach only when a spawn failed half-way; and no remsh outlives its
\* session, on a node of its own or after quitting.
LocalIsTrue ==
  /\ ~staleLine
  /\ halted \subseteq broken
  /\ \A n \in Locals :
       at[n] \notin {"emptying", "announcing", "session", "killing"}
       => \A r \in Remshes : remsh[n][r] # "open"

\* In the end the supervisors have stopped, or show whether their node runs.
LocalSettled ==
  IF shutdown THEN \A n \in Locals : at[n] = "ended"
  ELSE ~closed /\ answering => \A n \in Locals : shown[n] = registered[n]

=============================================================================
