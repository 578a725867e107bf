------------------------------ MODULE BusGateway ------------------------------
(***************************************************************************)
(* What the gateway's dashboards see of the mesh: a forwarder on each node *)
(* (ovcs_bus, forwarder.ex) sends the signals that changed, in batches a   *)
(* saturated link may refuse; the collector (ovcs_bus_gateway,             *)
(* collector.ex, cache.ex) keeps the forwarders running, the last value of *)
(* each signal, whether it is stale, and which nodes are there.            *)
(*                                                                         *)
(* A node publishes one signal: a batch is taken or refused as a whole, so *)
(* signals do not interact.  The times an envelope carries and the count   *)
(* of skipped ticks, itself one more signal, are left out.  The refresh    *)
(* and the stale check run once a second: that is a Tick.                  *)
(***************************************************************************)
EXTENDS Integers, Sequences, SequencesExt, FiniteSetsExt

CONSTANTS
  Nodes,
  Values,         \* of a signal
  StaleAfter,     \* seconds
  MaxMail,        \* bound: messages from a node that wait for the collector
  MaxDisruptions  \* bound: connections lost, forwarders that exit, batches refused

VARIABLES
  isPeer,         \* whether a node is one of the vehicle's
  conn,           \* whether it is connected
  published,      \* what it published last
  forwarding,     \* whether it has a forwarder
  pending, sent, republished,  \* its forwarder's
  mail,           \* what it and the connection to it have told the collector, in order
  pid, known,     \* the last forwarder spawned on it, and the one the collector knows
  respawns,       \* timers to spawn another
  presence, cached, received, stale,  \* the cache: presence, value, seconds since it came
  due,            \* the timers of this second
  steady,         \* seconds through which a node published, undisturbed
  spoke, rough,   \* whether it has in this second, and was disturbed
  disruptions

gatewayVars == <<isPeer, conn, published, forwarding, pending, sent, republished, mail, pid, known,
                 respawns, presence, cached, received, stale, due, steady, spoke, rough, disruptions>>
forwarder == <<forwarding, pending, sent, republished>>
cache == <<presence, cached, received, stale>>
clock == <<due, steady>>

Nothing == "nothing"
Pids == 0..(MaxMail + 1)
Timers == ({"refresh"} \X Nodes) \cup {<<"stale", "gateway">>}

GatewayInit ==
  /\ isPeer \in [Nodes -> BOOLEAN]
  /\ conn = [n \in Nodes |-> TRUE]
  /\ published = [n \in Nodes |-> Nothing]
  /\ forwarding = [n \in Nodes |-> TRUE]
  /\ pending = [n \in Nodes |-> Nothing] /\ sent = [n \in Nodes |-> Nothing]
  /\ republished = [n \in Nodes |-> FALSE]
  /\ mail = [n \in Nodes |-> <<>>]
  /\ pid = [n \in Nodes |-> 0] /\ known = [n \in Nodes |-> {0}]
  /\ respawns = [n \in Nodes |-> 0]
  /\ presence = [n \in Nodes |-> TRUE]
  /\ cached = [n \in Nodes |-> Nothing] /\ received = [n \in Nodes |-> 0]
  /\ stale = [n \in Nodes |-> FALSE]
  /\ due = Timers /\ steady = [n \in Nodes |-> 0]
  /\ spoke = [n \in Nodes |-> FALSE] /\ rough = [n \in Nodes |-> FALSE]
  /\ disruptions = 0

Tell(n, message) == mail' = [mail EXCEPT ![n] = Append(@, message)]
Room(n) == Len(mail[n]) + 2 <= MaxMail
Disrupted(n) == disruptions < MaxDisruptions /\ disruptions' = disruptions + 1 /\ rough' = [rough EXCEPT ![n] = TRUE]

-----------------------------------------------------------------------------
(* The forwarder of a node                                                 *)

Begin(n, alive) ==
  /\ forwarding' = [forwarding EXCEPT ![n] = alive]
  /\ pending' = [pending EXCEPT ![n] = Nothing] /\ sent' = [sent EXCEPT ![n] = Nothing]
  /\ republished' = [republished EXCEPT ![n] = FALSE]
Stop(n) == Begin(n, FALSE)

\* A value pending is replaced; one equal to the last one sent is noted for
\* the next refresh.
Track(n, v) ==
  IF pending[n] # Nothing
    THEN pending' = [pending EXCEPT ![n] = v] /\ UNCHANGED republished
  ELSE IF v = sent[n]
    THEN republished' = [republished EXCEPT ![n] = TRUE] /\ UNCHANGED pending
  ELSE pending' = [pending EXCEPT ![n] = v] /\ republished' = [republished EXCEPT ![n] = FALSE]

Publish(n, v) ==
  /\ published' = [published EXCEPT ![n] = v]
  /\ spoke' = [spoke EXCEPT ![n] = TRUE]
  /\ IF forwarding[n] THEN Track(n, v) ELSE UNCHANGED <<pending, republished>>
  /\ UNCHANGED <<isPeer, conn, forwarding, sent, mail, pid, known, respawns, cache, clock, rough, disruptions>>

Refresh(n) ==
  /\ forwarding[n] /\ <<"refresh", n>> \in due
  /\ due' = due \ {<<"refresh", n>>}
  /\ pending' = IF republished[n] /\ pending[n] = Nothing THEN [pending EXCEPT ![n] = sent[n]] ELSE pending
  /\ republished' = [republished EXCEPT ![n] = FALSE]
  /\ UNCHANGED <<isPeer, conn, published, forwarding, sent, mail, pid, known, respawns, cache,
                 steady, spoke, rough, disruptions>>

\* A batch the link refuses stays pending.
Flush(n) ==
  /\ forwarding[n] /\ pending[n] # Nothing
  /\ \/ /\ Room(n) /\ Tell(n, [kind |-> "batch", value |-> pending[n]])
        /\ sent' = [sent EXCEPT ![n] = pending[n]]
        /\ pending' = [pending EXCEPT ![n] = Nothing]
        /\ UNCHANGED <<rough, disruptions>>
     \/ Disrupted(n) /\ UNCHANGED <<mail, sent, pending>>
  /\ UNCHANGED <<isPeer, conn, published, forwarding, republished, pid, known, respawns, cache, clock, spoke>>

-----------------------------------------------------------------------------
(* The collector                                                           *)

\* A process identifier is one that nobody holds.
NewPid(n) ==
  CHOOSE p \in Pids : p # pid[n] /\ \A i \in DOMAIN mail[n] : mail[n][i].kind = "exit" => mail[n][i].pid # p

\* On a node that is gone the spawn comes back as an exit.
StartForwarder(n) ==
  IF known[n] # {} THEN UNCHANGED <<pid, known, forwarder>> /\ mail' = [mail EXCEPT ![n] = Tail(@)]
  ELSE LET p == NewPid(n)
       IN  /\ pid' = [pid EXCEPT ![n] = p] /\ known' = [known EXCEPT ![n] = {p}]
           /\ Begin(n, conn[n])
           /\ mail' = [mail EXCEPT ![n] = Tail(@) \o
                (IF conn[n] THEN <<>> ELSE <<[kind |-> "exit", pid |-> p, reason |-> "noconnection"]>>)]

\* A node that joins.
NodeUp(n) ==
  /\ StartForwarder(n)
  /\ presence' = IF known[n] # {} THEN presence ELSE [presence EXCEPT ![n] = TRUE]
  /\ UNCHANGED <<respawns, cached, received, stale>>

NodeDown(n) ==
  /\ presence' = [presence EXCEPT ![n] = FALSE]
  /\ known' = [known EXCEPT ![n] = {}]
  /\ mail' = [mail EXCEPT ![n] = Tail(@)]
  /\ UNCHANGED <<pid, forwarder, respawns, cached, received, stale>>

\* Of a forwarder it knows; another one will be started, unless the node is
\* gone or has none to run.
ForwarderExit(n, p, reason) ==
  /\ known' = [known EXCEPT ![n] = @ \ {p}]
  /\ respawns' = IF p \in known[n] /\ reason # "noconnection" /\ (reason = "undefined" => isPeer[n])
                   THEN [respawns EXCEPT ![n] = @ + 1] ELSE respawns
  /\ mail' = [mail EXCEPT ![n] = Tail(@)]
  /\ UNCHANGED <<pid, forwarder, cache>>

Store(n, v) ==
  /\ cached' = [cached EXCEPT ![n] = v]
  /\ received' = [received EXCEPT ![n] = 0]
  /\ stale' = [stale EXCEPT ![n] = FALSE]
  /\ mail' = [mail EXCEPT ![n] = Tail(@)]
  /\ UNCHANGED <<presence, pid, known, forwarder, respawns>>

HandleMail(n) ==
  /\ mail[n] # <<>>
  /\ LET message == Head(mail[n]) IN
       \/ message.kind = "batch" /\ Store(n, message.value)
       \/ message.kind = "up" /\ NodeUp(n)
       \/ message.kind = "down" /\ NodeDown(n)
       \/ message.kind = "exit" /\ ForwarderExit(n, message.pid, message.reason)
  /\ UNCHANGED <<isPeer, conn, published, clock, spoke, rough, disruptions>>

\* A second after an exit.  Started over a connection whose predecessor's end
\* waits in the mail, the forwarder is forgotten with that end and goes on
\* beside the one the next "up" starts, of which the model keeps the last.
Respawn(n) ==
  /\ respawns[n] > 0
  /\ respawns' = [respawns EXCEPT ![n] = @ - 1]
  /\ IF ~conn[n] \/ known[n] # {} THEN UNCHANGED <<pid, known, forwarder>>
     ELSE /\ pid' = [pid EXCEPT ![n] = NewPid(n)]
          /\ known' = [known EXCEPT ![n] = {pid'[n]}]
          /\ Begin(n, TRUE)
  /\ UNCHANGED <<isPeer, conn, published, mail, cache, clock, spoke, rough, disruptions>>

CheckStale ==
  /\ <<"stale", "gateway">> \in due
  /\ due' = due \ {<<"stale", "gateway">>}
  /\ stale' = [n \in Nodes |-> stale[n] \/ (cached[n] # Nothing /\ received[n] > StaleAfter)]
  /\ UNCHANGED <<isPeer, conn, published, forwarder, mail, pid, known, respawns, presence, cached, received,
                 steady, spoke, rough, disruptions>>

-----------------------------------------------------------------------------
(* The mesh and time                                                       *)

\* The forwarder exits with its connection, whose end the collector hears of
\* twice; a batch under way may be lost with it.
Disconnect(n) ==
  /\ conn[n] /\ Room(n) /\ Disrupted(n)
  /\ conn' = [conn EXCEPT ![n] = FALSE]
  /\ Stop(n)
  /\ LET down == [kind |-> "down"]
         exit == [kind |-> "exit", pid |-> pid[n], reason |-> "noconnection"]
     IN  \E lost \in BOOLEAN, ends \in {<<down, exit>>, <<exit, down>>} :
           /\ lost => mail[n] # <<>> /\ Last(mail[n]).kind = "batch"
           /\ mail' = [mail EXCEPT ![n] = (IF lost THEN Front(@) ELSE @) \o
                         (IF forwarding[n] THEN ends ELSE <<down>>)]
  /\ UNCHANGED <<isPeer, published, pid, known, respawns, cache, clock, spoke>>

Connect(n) ==
  /\ ~conn[n] /\ Room(n)
  /\ conn' = [conn EXCEPT ![n] = TRUE]
  /\ Tell(n, [kind |-> "up"])
  /\ UNCHANGED <<isPeer, published, forwarder, pid, known, respawns, cache, clock, spoke, rough, disruptions>>

\* The node's bus stops, or its code is not there yet.
Exit(n) ==
  /\ forwarding[n] /\ Room(n) /\ Disrupted(n) /\ Stop(n)
  /\ \E reason \in {"crash", "undefined"} : Tell(n, [kind |-> "exit", pid |-> pid[n], reason |-> reason])
  /\ UNCHANGED <<isPeer, conn, published, pid, known, respawns, cache, clock, spoke>>

\* A second, long enough for the timers to fire and for batches to be sent
\* and handled.
Tick ==
  /\ <<"stale", "gateway">> \notin due
  /\ \A n \in Nodes : mail[n] = <<>> /\
       (forwarding[n] => <<"refresh", n>> \notin due /\ (pending[n] = Nothing \/ rough[n]))
  /\ due' = Timers
  /\ received' = [n \in Nodes |-> IF cached[n] = Nothing THEN 0 ELSE Min({received[n] + 1, StaleAfter + 1})]
  /\ steady' = [n \in Nodes |->
       IF spoke[n] /\ forwarding[n] /\ ~rough[n] THEN Min({steady[n] + 1, StaleAfter + 1}) ELSE 0]
  /\ spoke' = [n \in Nodes |-> FALSE] /\ rough' = [n \in Nodes |-> FALSE]
  /\ UNCHANGED <<isPeer, conn, published, forwarder, mail, pid, known, respawns, presence, cached, stale,
                 disruptions>>

GatewayNext ==
  \/ \E n \in Nodes :
       \/ Refresh(n) \/ Flush(n) \/ HandleMail(n) \/ Respawn(n)
       \/ (\E v \in Values : Publish(n, v)) \/ Disconnect(n) \/ Connect(n) \/ Exit(n)
  \/ CheckStale \/ Tick

-----------------------------------------------------------------------------
(* Properties                                                              *)

\* The last value a node's signal had on its way to the cache.
Batches(n) == {i \in DOMAIN mail[n] : mail[n][i].kind = "batch"}
Newest(n) ==
  IF pending[n] # Nothing THEN pending[n]
  ELSE IF Batches(n) # {} THEN mail[n][Max(Batches(n))].value
  ELSE cached[n]

\* A value a forwarder has seen is the newest one on its way to the cache,
\* whatever was refused, refreshed or changed back meanwhile; the collector
\* knows each forwarder there is; a signal published every second on a link
\* that works is not stale, and one that came long ago is.
GatewayIsTrue ==
  \A n \in Nodes :
    /\ forwarding[n] /\ (pending[n] # Nothing \/ sent[n] # Nothing) => Newest(n) = published[n]
    /\ forwarding[n] /\ (\A i \in DOMAIN mail[n] : mail[n][i].kind \notin {"up", "down"}) => known[n] = {pid[n]}
    /\ steady[n] > 1 => ~stale[n]
    /\ received[n] > StaleAfter /\ <<"stale", "gateway">> \notin due => stale[n]

\* When nothing is disturbed any more, the nodes of the vehicle that are
\* there have a forwarder, and no node that is gone is shown as present.  A
\* node that is there may be shown as gone: the forwarder of a respawn that
\* overtook its "up" leaves that one nothing to tell.
GatewaySettled ==
  \A n \in Nodes :
    /\ presence[n] => conn[n]
    /\ isPeer[n] /\ conn[n] => forwarding[n]
=============================================================================
