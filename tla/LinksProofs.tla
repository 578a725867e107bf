----------------------------- MODULE LinksProofs -----------------------------
(***************************************************************************)
(* What one end of a link takes for true of the other (LinksAreTrue), for  *)
(* any nodes, values, sensors, timeouts and bounds.  Each link has an      *)
(* inductive invariant of its own, since in a behaviour one of them moves; *)
(* LinksIInv is their conjunction.                                         *)
(*                                                                         *)
(* Local attach.  The channel of a session holds lines of that session     *)
(* alone, since it is emptied after its remshes are there and before it is *)
(* announced (Fresh); open remshes are a session's (Attended); an orphan,  *)
(* which halts its node, comes from a spawn that failed half-way and from  *)
(* nothing else (Orphans): KillAll ends the groups before their inputs are *)
(* closed.                                                                 *)
(*                                                                         *)
(* The gateway.  Whatever the mail still tells, it tells of earlier        *)
(* forwarders, or the connection is back (KnowsForwarder); the last batch  *)
(* of the mail carries what was sent last (CarriesNewest); and what was    *)
(* published each second is in the cache, on its way or noted for the next *)
(* refresh (AgesRightly).                                                  *)
(*                                                                         *)
(* The drive.  A velocity is never older than the clocks of the loops it   *)
(* passed make it (Sampled, Followed, PassedOn), and the loop of a clock   *)
(* that has run out is due (the same); a bridge that is down has been so   *)
(* no longer than its frame has been followed (Orphaned).                  *)
(*                                                                         *)
(* The rotation.  It is as old as a live reading (OfTheActive), and the    *)
(* sources are timed from when they came apart (TimedApart).               *)
(***************************************************************************)
EXTENDS MCLinks, FiniteSetTheorems, SequenceTheorems, WellFoundedInduction, TLAPS

-----------------------------------------------------------------------------
(* Attaching to local nodes *)

RemshStates == {"none", "open", "orphan", "dead"}
Places == {"waiting", "spawning", "emptying", "announcing", "session", "killing",
           "stopped", "sleeping", "ended"}

LocalTypeOK ==
  /\ remsh \in [Locals -> [Local!Remshes -> RemshStates]]
  /\ at \in [Locals -> Places]
  /\ typedLines \in [Locals -> Seq(BOOLEAN)]
  /\ staleLine \in BOOLEAN
  /\ halted \subseteq Locals /\ broken \subseteq Locals

Fresh ==
  \A n \in Locals : at[n] \in {"announcing", "session", "killing"} =>
    \A i \in DOMAIN typedLines[n] : typedLines[n][i] = TRUE

Attended ==
  \A n \in Locals : at[n] \notin {"emptying", "announcing", "session", "killing"} =>
    \A r \in Local!Remshes : remsh[n][r] # "open"

Orphans ==
  /\ \A n \in Locals, r \in Local!Remshes : remsh[n][r] = "orphan" => n \in broken
  /\ halted \subseteq broken

LocalIInv == LocalTypeOK /\ Fresh /\ Attended /\ Orphans /\ staleLine = FALSE

-----------------------------------------------------------------------------
(* Sequences of one value                                                  *)

LEMMA TailOfSame ==
  ASSUME NEW S, NEW e \in S, NEW s \in Seq(S), s # <<>>, \A i \in DOMAIN s : s[i] = e
  PROVE  /\ Head(s) = e /\ Tail(s) \in Seq(S)
         /\ \A i \in DOMAIN Tail(s) : Tail(s)[i] = e
<1>1. DOMAIN s = 1..Len(s) /\ Len(s) \in Nat \ {0}
  BY EmptySeq, LenProperties
<1>2. /\ Tail(s) \in Seq(S) /\ Len(Tail(s)) = Len(s) - 1
      /\ \A i \in 1..Len(Tail(s)) : Tail(s)[i] = s[i+1]
  BY HeadTailProperties
<1>3. DOMAIN Tail(s) = 1..Len(Tail(s))
  BY <1>2, LenProperties
<1>4. Head(s) = e
  BY <1>1
<1>5. \A i \in DOMAIN Tail(s) : i + 1 \in DOMAIN s
  BY <1>1, <1>2, <1>3
<1>6. QED
  BY <1>2, <1>3, <1>4, <1>5

LEMMA AppendOfSame ==
  ASSUME NEW S, NEW e \in S, NEW s \in Seq(S), \A i \in DOMAIN s : s[i] = e
  PROVE  \A i \in DOMAIN Append(s, e) : Append(s, e)[i] = e
<1>1. /\ Append(s, e) \in Seq(S) /\ Len(Append(s, e)) = Len(s) + 1
      /\ \A i \in 1..Len(s) : Append(s, e)[i] = s[i]
      /\ Append(s, e)[Len(s) + 1] = e
  BY AppendProperties
<1>2. DOMAIN s = 1..Len(s) /\ Len(s) \in Nat /\ DOMAIN Append(s, e) = 1..Len(Append(s, e))
  BY <1>1, LenProperties
<1>3. \A i \in DOMAIN Append(s, e) : i \in DOMAIN s \/ i = Len(s) + 1
  BY <1>1, <1>2
<1>4. QED
  BY <1>1, <1>2, <1>3

-----------------------------------------------------------------------------
(* The supervisor                                                          *)

\* A step that moves the supervisor and nothing else this is about.
LEMMA Moves ==
  ASSUME LocalIInv, NEW n \in Locals, NEW to \in Places,
         at' = [at EXCEPT ![n] = to],
         UNCHANGED <<remsh, typedLines, staleLine, halted, broken>>,
         to \in {"announcing", "session", "killing"}
           => at[n] \in {"announcing", "session", "killing"},
         at[n] \in {"emptying", "announcing", "session", "killing"}
           => to \in {"emptying", "announcing", "session", "killing"}
  PROVE  LocalIInv'
<1>1. LocalTypeOK'
  BY DEF LocalIInv, LocalTypeOK
<1>2. Fresh'
  BY DEF LocalIInv, LocalTypeOK, Fresh
<1>3. Attended'
  BY DEF LocalIInv, LocalTypeOK, Attended
<1>4. Orphans'
  BY DEF LocalIInv, Orphans
<1>5. QED
  BY <1>1, <1>2, <1>3, <1>4 DEF LocalIInv

LEMMA MovingSteps ==
  ASSUME LocalIInv, NEW n \in Locals,
         Local!WaitUntilRegistered(n) \/ Local!Announce(n) \/ Local!EndSession(n) \/ Local!Sleep(n)
  PROVE  LocalIInv'
<1>1. CASE Local!WaitUntilRegistered(n)
  <2>1. PICK to \in {"spawning", "ended"} : at[n] = "waiting" /\ at' = [at EXCEPT ![n] = to]
    BY <1>1 DEF Local!WaitUntilRegistered, Local!Supervisor
  <2>2. QED
    BY <1>1, <2>1, Moves DEF Local!WaitUntilRegistered, Local!world, Places
<1>2. CASE Local!Announce(n)
  BY <1>2, Moves DEF Local!Announce, Local!Supervisor, Local!world, Places
<1>3. CASE Local!EndSession(n)
  BY <1>3, Moves DEF Local!EndSession, Local!Supervisor, Local!world, Places
<1>4. CASE Local!Sleep(n)
  <2>1. PICK to \in {"ended", "sleeping", "waiting"} :
          at[n] \in {"stopped", "sleeping"} /\ at' = [at EXCEPT ![n] = to]
    BY <1>4 DEF Local!Sleep, Local!Supervisor
  <2>2. QED
    BY <1>4, <2>1, Moves DEF Local!Sleep, Local!world, Places
<1>5. QED
  BY <1>1, <1>2, <1>3, <1>4

LEMMA SpawnTrioStep ==
  ASSUME LocalIInv, NEW n \in Locals, Local!SpawnTrio(n)
  PROVE  LocalIInv'
<1> USE DEF Local!SpawnTrio, Local!Supervisor, Local!world
<1>1. LocalTypeOK'
  BY DEF LocalIInv, LocalTypeOK, Local!All, RemshStates, Places
<1>2. Fresh' /\ Attended'
  BY DEF LocalIInv, LocalTypeOK, Fresh, Attended, Local!All
<1>3. Orphans'
  BY DEF LocalIInv, LocalTypeOK, Orphans, Local!All
<1>4. QED
  BY <1>1, <1>2, <1>3 DEF LocalIInv

\* What a spawn that fails leaves are orphans, of a node then counted broken.
LEMMA SpawnFailsStep ==
  ASSUME LocalIInv, NEW n \in Locals, Local!SpawnFails(n)
  PROVE  LocalIInv'
<1>1. PICK spawned \in {{}, {"log"}, {"log", "shell"}} :
        /\ remsh' = [remsh EXCEPT ![n] =
             [r \in Local!Remshes |-> IF r \in spawned THEN "orphan" ELSE remsh[n][r]]]
        /\ broken' = IF spawned = {} THEN broken ELSE broken \cup {n}
  BY DEF Local!SpawnFails
<1>2. /\ at[n] = "spawning" /\ at' = [at EXCEPT ![n] = "stopped"]
      /\ UNCHANGED <<typedLines, staleLine, halted>>
  BY DEF Local!SpawnFails, Local!Supervisor
<1>3. LocalTypeOK'
  BY <1>1, <1>2 DEF LocalIInv, LocalTypeOK, RemshStates, Places
<1>4. Fresh'
  BY <1>2 DEF LocalIInv, LocalTypeOK, Fresh
<1>5. Attended'
  BY <1>1, <1>2 DEF LocalIInv, LocalTypeOK, Attended
<1>6. Orphans'
  BY <1>1, <1>2 DEF LocalIInv, LocalTypeOK, Orphans
<1>7. QED
  BY <1>2, <1>3, <1>4, <1>5, <1>6 DEF LocalIInv

LEMMA EmptyInputStep ==
  ASSUME LocalIInv, NEW n \in Locals, Local!EmptyInput(n)
  PROVE  LocalIInv'
<1> USE DEF Local!EmptyInput, Local!Supervisor, Local!world
<1>1. LocalTypeOK'
  BY DEF LocalIInv, LocalTypeOK, Places
<1>2. Fresh'
  BY DEF LocalIInv, LocalTypeOK, Fresh
<1>3. Attended' /\ Orphans'
  BY DEF LocalIInv, LocalTypeOK, Attended, Orphans
<1>4. QED
  BY <1>1, <1>2, <1>3 DEF LocalIInv

\* The line passed on is the session's, and those left are.
LEMMA PumpLineStep ==
  ASSUME LocalIInv, NEW n \in Locals, Local!PumpLine(n)
  PROVE  LocalIInv'
<1> USE DEF Local!PumpLine, Local!world
<1>1. /\ typedLines[n] \in Seq(BOOLEAN) /\ typedLines[n] # <<>>
      /\ \A i \in DOMAIN typedLines[n] : typedLines[n][i] = TRUE
  BY DEF LocalIInv, LocalTypeOK, Fresh
<1>2. /\ Head(typedLines[n]) = TRUE /\ Tail(typedLines[n]) \in Seq(BOOLEAN)
      /\ \A i \in DOMAIN Tail(typedLines[n]) : Tail(typedLines[n])[i] = TRUE
  BY <1>1, TailOfSame
<1>3. staleLine' = FALSE
  BY <1>2 DEF LocalIInv
<1>4. at' = at \/ at' = [at EXCEPT ![n] = "killing"]
  OBVIOUS
<1>5. LocalTypeOK'
  BY <1>2, <1>3, <1>4 DEF LocalIInv, LocalTypeOK, Places
<1>6. Fresh'
  BY <1>2, <1>4 DEF LocalIInv, LocalTypeOK, Fresh
<1>7. Attended' /\ Orphans'
  BY <1>4 DEF LocalIInv, LocalTypeOK, Attended, Orphans
<1>8. QED
  BY <1>3, <1>5, <1>6, <1>7 DEF LocalIInv

LEMMA KillAllStep ==
  ASSUME LocalIInv, NEW n \in Locals, Local!KillAll(n)
  PROVE  LocalIInv'
<1> USE DEF Local!KillAll, Local!Supervisor, Local!world
<1>1. [i \in DOMAIN typedLines[n] |-> FALSE] \in Seq(BOOLEAN)
  <2>1. DOMAIN typedLines[n] = 1..Len(typedLines[n]) /\ Len(typedLines[n]) \in Nat
    BY LenProperties DEF LocalIInv, LocalTypeOK
  <2> DEFINE old == [i \in 1..Len(typedLines[n]) |-> FALSE]
  <2>2. old \in [1..Len(typedLines[n]) -> BOOLEAN]
    OBVIOUS
  <2>3. old \in Seq(BOOLEAN)
    BY <2>1, <2>2, SeqDef
  <2>4. QED
    BY <2>1, <2>3
<1>2. LocalTypeOK'
  BY <1>1 DEF LocalIInv, LocalTypeOK, Local!All, RemshStates, Places
<1>3. Fresh' /\ Attended' /\ Orphans'
  BY DEF LocalIInv, LocalTypeOK, Fresh, Attended, Orphans, Local!All
<1>4. QED
  BY <1>2, <1>3 DEF LocalIInv

-----------------------------------------------------------------------------
(* The panes, the nodes and epmd                                           *)

LEMMA TypeLineStep ==
  ASSUME LocalIInv, NEW n \in Locals, Local!TypeLine(n)
  PROVE  LocalIInv'
<1> DEFINE inSession == at[n] \in {"announcing", "session", "killing"}
<1> USE DEF Local!TypeLine
<1>1. typedLines[n] \in Seq(BOOLEAN) /\ inSession \in BOOLEAN
  BY DEF LocalIInv, LocalTypeOK
<1>2. /\ Append(typedLines[n], inSession) \in Seq(BOOLEAN)
      /\ inSession => \A i \in DOMAIN Append(typedLines[n], inSession) :
                        Append(typedLines[n], inSession)[i] = TRUE
  <2>1. Append(typedLines[n], inSession) \in Seq(BOOLEAN)
    BY <1>1, AppendProperties
  <2>2. CASE inSession = TRUE
    <3>1. \A i \in DOMAIN typedLines[n] : typedLines[n][i] = TRUE
      BY <2>2 DEF LocalIInv, Fresh
    <3>2. \A i \in DOMAIN Append(typedLines[n], TRUE) : Append(typedLines[n], TRUE)[i] = TRUE
      BY <1>1, <3>1, AppendOfSame
    <3> HIDE DEF inSession
    <3>3. QED
      BY <2>1, <2>2, <3>2
  <2>3. CASE inSession = FALSE
    BY <2>1, <2>3
  <2>4. QED
    BY <1>1, <2>2, <2>3
<1>3. LocalTypeOK'
  BY <1>2 DEF LocalIInv, LocalTypeOK
<1>4. Fresh'
  BY <1>2 DEF LocalIInv, LocalTypeOK, Fresh
<1>5. Attended' /\ Orphans'
  BY DEF LocalIInv, Attended, Orphans
<1>6. QED
  BY <1>3, <1>4, <1>5 DEF LocalIInv

LEMMA DisruptStep ==
  ASSUME LocalIInv, Local!Disrupt
  PROVE  LocalIInv'
<1>1. /\ UNCHANGED <<halted, at, typedLines, staleLine, broken>>
      /\ \/ UNCHANGED remsh
         \/ \E n \in Locals, r \in Local!Remshes : remsh' = [remsh EXCEPT ![n][r] = "dead"]
  BY DEF Local!Disrupt
<1>2. CASE UNCHANGED remsh
  BY <1>1, <1>2 DEF LocalIInv, LocalTypeOK, Fresh, Attended, Orphans
<1>3. CASE \E n \in Locals, r \in Local!Remshes : remsh' = [remsh EXCEPT ![n][r] = "dead"]
  BY <1>1, <1>3 DEF LocalIInv, LocalTypeOK, Fresh, Attended, Orphans, RemshStates
<1>4. QED
  BY <1>1, <1>2, <1>3

\* Only a node a spawn failed on is halted.
LEMMA EofHaltsStep ==
  ASSUME LocalIInv, NEW n \in Locals, Local!EofHalts(n)
  PROVE  LocalIInv'
<1> USE DEF Local!EofHalts
<1>1. n \in broken
  BY DEF LocalIInv, Orphans
<1>2. LocalTypeOK'
  BY DEF LocalIInv, LocalTypeOK, RemshStates
<1>3. Fresh' /\ Attended'
  BY DEF LocalIInv, LocalTypeOK, Fresh, Attended
<1>4. Orphans'
  BY <1>1 DEF LocalIInv, LocalTypeOK, Orphans
<1>5. QED
  BY <1>2, <1>3, <1>4 DEF LocalIInv

LEMMA LocalStep ==
  ASSUME LocalIInv, [Local!LocalNext]_(Local!localVars)
  PROVE  LocalIInv'
<1>1. ASSUME NEW n \in Locals,
             Local!SupervisorStep(n) \/ Local!SpawnFails(n) \/ Local!TypeLine(n) \/ Local!EofHalts(n)
      PROVE  LocalIInv'
  BY <1>1, MovingSteps, SpawnTrioStep, SpawnFailsStep, EmptyInputStep, PumpLineStep, KillAllStep,
     TypeLineStep, EofHaltsStep DEF Local!SupervisorStep
<1>2. CASE Local!Quit \/ (\E n \in Locals : Local!HandleMessage(n)) \/ UNCHANGED Local!localVars
  <2>1. UNCHANGED <<remsh, at, typedLines, staleLine, halted, broken>>
    BY <1>2 DEF Local!Quit, Local!HandleMessage, Local!localVars
  <2>2. QED
    BY <2>1 DEF LocalIInv, LocalTypeOK, Fresh, Attended, Orphans
<1>3. QED
  BY <1>1, <1>2, DisruptStep DEF Local!LocalNext

LEMMA LocalStart ==
  ASSUME Local!LocalInit
  PROVE  LocalIInv
<1> USE DEF Local!LocalInit
<1>1. typedLines \in [Locals -> Seq(BOOLEAN)] /\ \A n \in Locals : typedLines[n] = <<>>
  BY EmptySeq
<1>2. LocalTypeOK
  BY <1>1 DEF LocalTypeOK, Local!All, RemshStates, Places
<1>3. Fresh
  BY <1>1 DEF Fresh
<1>4. Attended /\ Orphans
  BY DEF Attended, Orphans, Local!All
<1>5. QED
  BY <1>2, <1>3, <1>4 DEF LocalIInv

-----------------------------------------------------------------------------
(* Sequences, and the ends of a set of numbers *)

LEMMA TailIs ==
  ASSUME NEW S, NEW q \in Seq(S), q # <<>>
  PROVE  /\ Head(q) = q[1] /\ q[1] \in S /\ Tail(q) \in Seq(S) /\ Len(q) \in Nat \ {0}
         /\ 1 \in DOMAIN q /\ DOMAIN q = 1..Len(q) /\ Len(Tail(q)) = Len(q) - 1
         /\ DOMAIN Tail(q) = 1..(Len(q) - 1)
         /\ \A n \in DOMAIN Tail(q) : n + 1 \in DOMAIN q /\ n + 1 # 1 /\ Tail(q)[n] = q[n + 1]
  OBVIOUS

LEMMA AppendIs ==
  ASSUME NEW S, NEW q \in Seq(S), NEW x \in S
  PROVE  /\ Append(q, x) \in Seq(S) /\ Len(q) \in Nat /\ DOMAIN q = 1..Len(q)
         /\ Len(Append(q, x)) = Len(q) + 1 /\ DOMAIN Append(q, x) = 1..(Len(q) + 1)
         /\ \A n \in DOMAIN q : n \in DOMAIN Append(q, x) /\ Append(q, x)[n] = q[n]
         /\ Append(q, x)[Len(q) + 1] = x
         /\ \A n \in DOMAIN Append(q, x) : n \in DOMAIN q \/ n = Len(q) + 1
  OBVIOUS

LEMMA ConcatIs ==
  ASSUME NEW S, NEW p \in Seq(S), NEW q \in Seq(S)
  PROVE  /\ p \o q \in Seq(S) /\ Len(p \o q) = Len(p) + Len(q)
         /\ Len(p) \in Nat /\ Len(q) \in Nat
         /\ DOMAIN (p \o q) = 1..(Len(p) + Len(q))
         /\ \A n \in 1..Len(p) : (p \o q)[n] = p[n]
         /\ \A n \in 1..Len(q) : (p \o q)[Len(p) + n] = q[n]
         /\ \A n \in 1..(Len(p) + Len(q)) : n \notin 1..Len(p) => n - Len(p) \in 1..Len(q) /\ (p \o q)[n] = q[n - Len(p)]
  OBVIOUS

LEMMA GreatestExists ==
  ASSUME NEW N \in Nat, NEW S \in SUBSET (1..N), S # {}
  PROVE  \E m \in S : \A n \in S : n <= m
<1> DEFINE T == {N - n : n \in S}
           Less == {pair \in Nat \X Nat : pair[1] < pair[2]}
<1>1. IsWellFoundedOn(Less, Nat)
  BY NatLessThanWellFounded DEF OpToRel
<1>2. T \subseteq Nat /\ T # {}
  <2>1. \A n \in S : N - n \in Nat
    OBVIOUS
  <2>2. T \subseteq Nat
    BY <2>1
  <2>3. PICK n \in S : TRUE
    OBVIOUS
  <2>4. N - n \in T
    BY <2>3
  <2>5. QED
    BY <2>2, <2>4
<1>3. PICK x \in T : \A y \in T : <<y, x>> \notin Less
  BY <1>1, <1>2, WFMin
<1>4. PICK m \in S : x = N - m
  OBVIOUS
<1>5. ASSUME NEW n \in S PROVE n <= m
  <2>1. N - n \in T /\ N - n \in Nat /\ x \in Nat /\ n \in Int /\ m \in Int
    BY <1>2, <1>4
  <2>2. ~(N - n < x)
    BY <1>3, <2>1
  <2>3. QED
    BY <1>4, <2>1, <2>2
<1>6. QED
  BY <1>5

LEMMA LeastExists ==
  ASSUME NEW S \in SUBSET Nat, S # {}
  PROVE  \E m \in S : \A n \in S : m <= n
<1> DEFINE Less == {pair \in Nat \X Nat : pair[1] < pair[2]}
<1>1. IsWellFoundedOn(Less, Nat)
  BY NatLessThanWellFounded DEF OpToRel
<1>2. PICK m \in S : \A n \in S : <<n, m>> \notin Less
  BY <1>1, WFMin
<1>3. ASSUME NEW n \in S PROVE m <= n
  <2>1. n \in Nat /\ m \in Nat /\ ~(n < m)
    BY <1>2
  <2>2. QED
    BY <2>1
<1>4. QED
  BY <1>3

-----------------------------------------------------------------------------
(* The gateway *)

Words == Values \cup {"nothing"}
Messages ==
  [kind : {"batch"}, value : Values] \cup [kind : {"up", "down"}]
  \cup [kind : {"exit"}, pid : Gateway!Pids, reason : {"noconnection", "crash", "undefined"}]

GatewayTypeOK ==
  /\ conn \in [Peers -> BOOLEAN] /\ forwarding \in [Peers -> BOOLEAN]
  /\ republished \in [Peers -> BOOLEAN] /\ stale \in [Peers -> BOOLEAN]
  /\ spoke \in [Peers -> BOOLEAN] /\ rough \in [Peers -> BOOLEAN]
  /\ published \in [Peers -> Words] /\ pending \in [Peers -> Words]
  /\ sent \in [Peers -> Words] /\ cached \in [Peers -> Words]
  /\ mail \in [Peers -> Seq(Messages)] /\ \A n \in Peers : Len(mail[n]) <= MaxMail
  /\ pid \in [Peers -> Gateway!Pids] /\ known \in [Peers -> SUBSET Gateway!Pids]
  /\ received \in [Peers -> Nat] /\ steady \in [Peers -> Nat]

\* The collector knows the forwarder that runs, or is still to be told what
\* became of the connection; and no exit it is still to handle is that
\* forwarder's.
KnowsForwarder(n) ==
  /\ known[n] \subseteq {pid[n]}
  /\ forwarding[n] => conn[n]
  /\ conn[n] => \A i \in DOMAIN mail[n] : mail[n][i].kind = "down" =>
                  \E j \in DOMAIN mail[n] : j > i /\ mail[n][j].kind = "up"
  /\ forwarding[n] =>
       /\ \A i \in DOMAIN mail[n] : mail[n][i].kind = "exit" => mail[n][i].pid # pid[n]
       /\ (\A i \in DOMAIN mail[n] : mail[n][i].kind \notin {"up", "down"}) => known[n] = {pid[n]}

\* What the cache of v comes to when it has handled the batches of mail q.
ComesTo(q, was, v) ==
  IF \E i \in DOMAIN q : q[i].kind = "batch"
    THEN \A i \in DOMAIN q :
           q[i].kind = "batch" /\ (\A j \in DOMAIN q : j > i => q[j].kind # "batch") => q[i].value = v
    ELSE was = v

CarriesNewest(n) ==
  /\ pending[n] # "nothing" => pending[n] = published[n]
  /\ pending[n] = "nothing" /\ sent[n] # "nothing" =>
       sent[n] = published[n] /\ ComesTo(mail[n], cached[n], sent[n])
  /\ republished[n] => pending[n] = "nothing" /\ sent[n] # "nothing"

OnItsWay(n) == pending[n] # "nothing" \/ \E i \in DOMAIN mail[n] : mail[n][i].kind = "batch"
RefreshDue(n) == republished[n] /\ <<"refresh", n>> \in due

\* A node undisturbed for a second has what it published in the cache, on its
\* way, or noted for the next refresh.
AgesRightly(n) ==
  /\ received[n] > 0 => cached[n] # "nothing"
  /\ received[n] > StaleAfter /\ <<"stale", "gateway">> \notin due => stale[n]
  /\ steady[n] > 1 => ~stale[n] /\ received[n] <= 2
  /\ ~rough[n] =>
       /\ steady[n] > 0 => forwarding[n] /\ \A i \in DOMAIN mail[n] : mail[n][i].kind = "batch"
       /\ forwarding[n] /\ spoke[n] => OnItsWay(n) \/ republished[n] \/ (received[n] = 0 /\ ~stale[n])
                                       \/ (sent[n] = "nothing" /\ steady[n] = 0)
       /\ steady[n] = 1 => OnItsWay(n) \/ (received[n] <= 1 /\ ~stale[n]) \/ RefreshDue(n)
                           \/ (sent[n] = "nothing" /\ ~spoke[n])
       /\ steady[n] > 1 => OnItsWay(n) \/ received[n] <= 1 \/ RefreshDue(n)

PeerInv(n) == KnowsForwarder(n) /\ AgesRightly(n) /\ (forwarding[n] => CarriesNewest(n))

GatewayInv == GatewayTypeOK /\ \A n \in Peers : PeerInv(n)

LEMMA GatewayStart ==
  ASSUME Gateway!GatewayInit
  PROVE  GatewayInv
<1> USE DEF Gateway!GatewayInit, Gateway!Nothing
<1>1. 0 \in Gateway!Pids
  BY LinksAssumption DEF Gateway!Pids
<1>2. /\ mail \in [Peers -> Seq(Messages)] /\ \A n \in Peers : Len(mail[n]) <= MaxMail
  BY LinksAssumption
<1>3. \A n \in Peers : mail[n] = <<>> /\ DOMAIN mail[n] = {}
  OBVIOUS
<1>4. GatewayTypeOK
  BY <1>1, <1>2 DEF GatewayTypeOK, Words
<1>5. ASSUME NEW n \in Peers PROVE PeerInv(n)
  BY <1>3, LinksAssumption DEF PeerInv, KnowsForwarder, AgesRightly, CarriesNewest, OnItsWay, RefreshDue, Gateway!Timers
<1>6. QED
  BY <1>4, <1>5 DEF GatewayInv

\* A node of which nothing changes.
LEMMA Elsewhere ==
  ASSUME NEW m \in Peers, PeerInv(m),
         conn'[m] = conn[m], published'[m] = published[m], forwarding'[m] = forwarding[m],
         pending'[m] = pending[m], sent'[m] = sent[m], republished'[m] = republished[m],
         mail'[m] = mail[m], pid'[m] = pid[m], known'[m] = known[m], cached'[m] = cached[m],
         received'[m] = received[m], stale'[m] = stale[m], steady'[m] = steady[m],
         spoke'[m] = spoke[m], rough'[m] = rough[m],
         <<"refresh", m>> \in due' <=> <<"refresh", m>> \in due,
         <<"stale", "gateway">> \in due' <=> <<"stale", "gateway">> \in due
  PROVE  PeerInv(m)'
<1>1. KnowsForwarder(m)'
  BY DEF PeerInv, KnowsForwarder
<1>2. AgesRightly(m)'
  BY DEF PeerInv, AgesRightly, OnItsWay, RefreshDue
<1>3. CarriesNewest(m) => CarriesNewest(m)'
  BY DEF CarriesNewest, ComesTo
<1>4. QED
  BY <1>1, <1>2, <1>3 DEF PeerInv

-----------------------------------------------------------------------------
(* What is on its way to the collector *)

LEMMA TailOfMail ==
  ASSUME NEW q \in Seq(Messages), q # <<>>
  PROVE  /\ Tail(q) \in Seq(Messages) /\ Len(Tail(q)) <= Len(q)
         /\ Head(q) \in Messages
         /\ \A i \in DOMAIN Tail(q) : \E j \in DOMAIN q : Tail(q)[i] = q[j]
         /\ \A i \in DOMAIN q : q[i] = Head(q) \/ \E j \in DOMAIN Tail(q) : Tail(q)[j] = q[i]
         /\ (\A i \in DOMAIN q : q[i].kind = "down" => \E j \in DOMAIN q : j > i /\ q[j].kind = "up")
            => /\ \A i \in DOMAIN Tail(q) : Tail(q)[i].kind = "down" =>
                     \E j \in DOMAIN Tail(q) : j > i /\ Tail(q)[j].kind = "up"
               /\ Head(q).kind = "down" => \E j \in DOMAIN Tail(q) : Tail(q)[j].kind = "up"
<1> DEFINE t == Tail(q)
<1>1. /\ Head(q) = q[1] /\ q[1] \in Messages /\ t \in Seq(Messages) /\ Len(q) \in Nat \ {0}
      /\ 1 \in DOMAIN q /\ DOMAIN q = 1..Len(q) /\ Len(t) = Len(q) - 1
      /\ DOMAIN t = 1..(Len(q) - 1)
      /\ \A n \in DOMAIN t : n + 1 \in DOMAIN q /\ n + 1 # 1 /\ t[n] = q[n + 1]
  BY TailIs
<1> HIDE DEF t
<1>2. \A i \in DOMAIN q : i # 1 => i - 1 \in DOMAIN t /\ t[i - 1] = q[i]
  <2>1. TAKE i \in DOMAIN q
  <2>2. HAVE i # 1
  <2>3. i - 1 \in DOMAIN t /\ i - 1 + 1 = i
    BY <1>1, <2>2
  <2>4. QED
    BY <1>1, <2>3
<1>3. \A i \in DOMAIN q : q[i] = Head(q) \/ \E j \in DOMAIN t : t[j] = q[i]
  BY <1>1, <1>2
<1>4. ASSUME \A i \in DOMAIN q : q[i].kind = "down" => \E j \in DOMAIN q : j > i /\ q[j].kind = "up"
      PROVE  /\ \A i \in DOMAIN t : t[i].kind = "down" => \E j \in DOMAIN t : j > i /\ t[j].kind = "up"
             /\ Head(q).kind = "down" => \E j \in DOMAIN t : t[j].kind = "up"
  <2>1. ASSUME NEW i \in DOMAIN t, t[i].kind = "down" PROVE \E j \in DOMAIN t : j > i /\ t[j].kind = "up"
    <3>1. i + 1 \in DOMAIN q /\ q[i + 1].kind = "down" /\ i \in Nat
      BY <1>1, <2>1
    <3>2. PICK j \in DOMAIN q : j > i + 1 /\ q[j].kind = "up"
      BY <1>4, <3>1
    <3>3. j \in Nat /\ j # 1 /\ j - 1 > i
      BY <1>1, <3>1, <3>2
    <3>4. QED
      BY <1>2, <3>2, <3>3
  <2>2. ASSUME Head(q).kind = "down" PROVE \E j \in DOMAIN t : t[j].kind = "up"
    <3>1. PICK j \in DOMAIN q : j > 1 /\ q[j].kind = "up"
      BY <1>1, <1>4, <2>2
    <3>2. QED
      BY <1>1, <1>2, <3>1
  <2>3. QED
    BY <2>1, <2>2
<1>5. QED
  BY <1>1, <1>3, <1>4 DEF t

LEMMA TailComesTo ==
  ASSUME NEW q \in Seq(Messages), q # <<>>, NEW was, NEW v, ComesTo(q, was, v)
  PROVE  /\ Head(q).kind = "batch" => ComesTo(Tail(q), Head(q).value, v)
         /\ Head(q).kind # "batch" => ComesTo(Tail(q), was, v)
<1> DEFINE t == Tail(q)
<1>1. /\ Head(q) = q[1] /\ Len(q) \in Nat \ {0}
      /\ 1 \in DOMAIN q /\ DOMAIN q = 1..Len(q)
      /\ DOMAIN t = 1..(Len(q) - 1)
      /\ \A n \in DOMAIN t : n + 1 \in DOMAIN q /\ n + 1 # 1 /\ t[n] = q[n + 1]
  BY TailIs
<1> HIDE DEF t
<1>2. \A i \in DOMAIN q : i # 1 => i - 1 \in DOMAIN t /\ t[i - 1] = q[i]
  <2>1. TAKE i \in DOMAIN q
  <2>2. HAVE i # 1
  <2>3. i - 1 \in DOMAIN t /\ i - 1 + 1 = i
    BY <1>1, <2>2
  <2>4. QED
    BY <1>1, <2>3
<1>3. CASE \E i \in DOMAIN t : t[i].kind = "batch"
  <2>1. ASSUME NEW i \in DOMAIN t, t[i].kind = "batch", \A j \in DOMAIN t : j > i => t[j].kind # "batch"
        PROVE  t[i].value = v
    <3>1. i + 1 \in DOMAIN q /\ q[i + 1] = t[i] /\ i \in Nat
      BY <1>1
    <3>2. ASSUME NEW j \in DOMAIN q, j > i + 1 PROVE q[j].kind # "batch"
      <4>1. j \in Nat /\ j # 1 /\ j - 1 > i
        BY <1>1, <3>1, <3>2
      <4>2. QED
        BY <1>2, <2>1, <4>1
    <3>3. QED
      BY <2>1, <3>1, <3>2 DEF ComesTo
  <2>2. QED
    BY <1>3, <2>1 DEF ComesTo, t
<1>4. CASE \A i \in DOMAIN t : t[i].kind # "batch"
  <2>1. \A j \in DOMAIN q : j > 1 => q[j].kind # "batch"
    BY <1>1, <1>2, <1>4
  <2>2. Head(q).kind = "batch" => Head(q).value = v
    BY <1>1, <2>1 DEF ComesTo
  <2>3. Head(q).kind # "batch" => was = v
    <3>1. ASSUME Head(q).kind # "batch" PROVE \A i \in DOMAIN q : q[i].kind # "batch"
      BY <1>1, <2>1, <3>1
    <3>2. QED
      BY <3>1 DEF ComesTo
  <2>4. QED
    BY <1>4, <2>2, <2>3 DEF ComesTo, t
<1>5. QED
  BY <1>3, <1>4

LEMMA AppendComesTo ==
  ASSUME NEW q \in Seq(Messages), NEW was, NEW v \in Values
  PROVE  ComesTo(Append(q, [kind |-> "batch", value |-> v]), was, v)
<1> DEFINE m == [kind |-> "batch", value |-> v]
           t == Append(q, m)
<1>1. m \in Messages /\ m.kind = "batch" /\ m.value = v
  BY DEF Messages
<1> HIDE DEF m
<1>2. /\ Len(q) \in Nat /\ DOMAIN q = 1..Len(q) /\ DOMAIN t = 1..(Len(q) + 1)
      /\ t[Len(q) + 1] = m
      /\ \A n \in DOMAIN t : n \in DOMAIN q \/ n = Len(q) + 1
  BY <1>1, AppendIs
<1> HIDE DEF t
<1>3. Len(q) + 1 \in DOMAIN t /\ t[Len(q) + 1].kind = "batch"
  BY <1>1, <1>2
<1>4. ASSUME NEW i \in DOMAIN t, \A j \in DOMAIN t : j > i => t[j].kind # "batch" PROVE t[i].value = v
  <2>1. i = Len(q) + 1
    BY <1>2, <1>3, <1>4
  <2>2. QED
    BY <1>1, <1>2, <2>1
<1>5. ComesTo(t, was, v)
  BY <1>3, <1>4 DEF ComesTo
<1>6. QED
  BY <1>5 DEF t, m

\* More than the mail there is may hold.
LEMMA NewPidIsNew ==
  ASSUME GatewayTypeOK, NEW n \in Peers
  PROVE  /\ Gateway!NewPid(n) \in Gateway!Pids /\ Gateway!NewPid(n) # pid[n]
         /\ \A i \in DOMAIN mail[n] : mail[n][i].kind = "exit" => mail[n][i].pid # Gateway!NewPid(n)
<1> DEFINE q == mail[n]
           S == Gateway!Pids
           New(p) == p # pid[n] /\ \A i \in DOMAIN q : q[i].kind = "exit" => q[i].pid # p
<1>1. q \in Seq(Messages) /\ Len(q) \in Nat /\ DOMAIN q = 1..Len(q) /\ Len(q) <= MaxMail
  BY DEF GatewayTypeOK
<1>2. \E p \in S : New(p)
  <2> SUFFICES ASSUME \A p \in S : ~New(p) PROVE FALSE
    OBVIOUS
  <2> DEFINE Place(p) == IF p = pid[n] THEN 0 ELSE CHOOSE i \in DOMAIN q : q[i].kind = "exit" /\ q[i].pid = p
             f == [p \in S |-> Place(p)]
  <2>1. ASSUME NEW p \in S, p # pid[n]
        PROVE  Place(p) \in DOMAIN q /\ q[Place(p)].pid = p
    BY <2>1
  <2>2. f \in [S -> 0..Len(q)]
    <3>1. ASSUME NEW p \in S PROVE Place(p) \in 0..Len(q)
      <4>1. CASE p = pid[n]
        BY <1>1, <4>1
      <4>2. CASE p # pid[n]
        <5>1. Place(p) \in DOMAIN q
          BY <2>1, <4>2
        <5> HIDE DEF Place
        <5>2. QED
          BY <1>1, <5>1
      <4>3. QED
        BY <4>1, <4>2
    <3> HIDE DEF Place
    <3>2. QED
      BY <3>1
  <2>3. IsFiniteSet(S) /\ Cardinality(S) = MaxMail + 2
    BY FS_Interval, LinksAssumption DEF Gateway!Pids
  <2>4. IsFiniteSet(0..Len(q)) /\ Cardinality(0..Len(q)) = Len(q) + 1
    BY <1>1, FS_Interval
  <2>5. Cardinality(0..Len(q)) < Cardinality(S)
    BY <1>1, <2>3, <2>4, LinksAssumption
  <2> HIDE DEF f
  <2>6. PICK p, r \in S : p # r /\ f[p] = f[r]
    BY <2>2, <2>3, <2>4, <2>5, FS_PigeonHole
  <2>7. Place(p) = Place(r)
    BY <2>6 DEF f
  <2> HIDE DEF Place
  <2>8. Place(pid[n]) = 0 /\ 0 \notin DOMAIN q
    BY <1>1 DEF Place
  <2>9. QED
    BY <2>1, <2>6, <2>7, <2>8
<1>3. Gateway!NewPid(n) = CHOOSE p \in S : New(p)
  BY DEF Gateway!NewPid
<1> HIDE DEF New, S
<1>4. Gateway!NewPid(n) \in S /\ New(Gateway!NewPid(n))
  BY <1>2, <1>3
<1>5. QED
  BY <1>4 DEF New, S

-----------------------------------------------------------------------------
(* The steps of a forwarder *)

LEMMA PublishStep ==
  ASSUME GatewayInv, NEW n \in Peers, NEW v \in Values, Gateway!Publish(n, v)
  PROVE  GatewayInv'
<1> USE DEF Gateway!Nothing, Gateway!clock, Gateway!cache
<1>1. GatewayTypeOK /\ \A m \in Peers : PeerInv(m)
  BY DEF GatewayInv
<1>2. UNCHANGED <<conn, forwarding, sent, mail, pid, known, cached, received, stale, due, steady, rough>>
  BY DEF Gateway!Publish
<1>3. /\ published' = [published EXCEPT ![n] = v] /\ spoke' = [spoke EXCEPT ![n] = TRUE]
      /\ pending' \in [Peers -> Words] /\ republished' \in [Peers -> BOOLEAN]
      /\ \A m \in Peers \ {n} : pending'[m] = pending[m] /\ republished'[m] = republished[m]
      /\ ~forwarding[n] => UNCHANGED <<pending, republished>>
      /\ forwarding[n] => \/ pending'[n] = v /\ republished'[n] \in {republished[n], FALSE}
                             /\ (republished'[n] => pending[n] # "nothing")
                          \/ pending'[n] = "nothing" /\ pending[n] = "nothing" /\ v = sent[n] /\ republished'[n]
  BY <1>1 DEF Gateway!Publish, Gateway!Track, GatewayTypeOK, Words
<1>4. GatewayTypeOK'
  BY <1>1, <1>2, <1>3 DEF GatewayTypeOK, Words
<1>5. ASSUME NEW m \in Peers, m # n PROVE PeerInv(m)'
  BY <1>1, <1>2, <1>3, <1>5, Elsewhere DEF GatewayTypeOK
<1>6. published'[n] = v /\ spoke'[n] /\ v # "nothing"
  BY <1>1, <1>3, LinksAssumption DEF GatewayTypeOK
<1>7. KnowsForwarder(n)'
  BY <1>1, <1>2 DEF PeerInv, KnowsForwarder
<1>8. AgesRightly(n)'
  <2> USE <1>1, <1>2, <1>3, <1>6 DEF PeerInv, AgesRightly, OnItsWay, RefreshDue, CarriesNewest
  <2>1. CASE forwarding[n] /\ pending'[n] = v
    BY <2>1
  <2>2. CASE forwarding[n] /\ pending'[n] = "nothing" /\ pending[n] = "nothing" /\ v = sent[n] /\ republished'[n]
    BY <2>2
  <2>3. CASE ~forwarding[n]
    BY <2>3
  <2>4. QED
    BY <2>1, <2>2, <2>3
<1>9. forwarding[n] => CarriesNewest(n)'
  BY <1>1, <1>2, <1>3, <1>6 DEF PeerInv, CarriesNewest, ComesTo
<1>10. QED
  BY <1>2, <1>4, <1>5, <1>7, <1>8, <1>9 DEF GatewayInv, PeerInv

LEMMA RefreshStep ==
  ASSUME GatewayInv, NEW n \in Peers, Gateway!Refresh(n)
  PROVE  GatewayInv'
<1> USE DEF Gateway!Nothing, Gateway!cache
<1>1. GatewayTypeOK /\ \A m \in Peers : PeerInv(m)
  BY DEF GatewayInv
<1>2. /\ UNCHANGED <<conn, published, forwarding, sent, mail, pid, known, cached, received, stale,
                     steady, spoke, rough>>
      /\ forwarding[n] /\ due' = due \ {<<"refresh", n>>}
  BY DEF Gateway!Refresh
<1>3. /\ pending' \in [Peers -> Words] /\ republished' = [republished EXCEPT ![n] = FALSE]
      /\ \A m \in Peers \ {n} : pending'[m] = pending[m]
      /\ pending'[n] = IF republished[n] /\ pending[n] = "nothing" THEN sent[n] ELSE pending[n]
  BY <1>1 DEF Gateway!Refresh, GatewayTypeOK, Words
<1>4. GatewayTypeOK'
  BY <1>1, <1>2, <1>3 DEF GatewayTypeOK
<1>5. ASSUME NEW m \in Peers, m # n PROVE PeerInv(m)'
  BY <1>1, <1>2, <1>3, <1>5, Elsewhere DEF GatewayTypeOK
<1>6. ~republished'[n] /\ (<<"stale", "gateway">> \in due' <=> <<"stale", "gateway">> \in due)
  BY <1>1, <1>2, <1>3 DEF GatewayTypeOK
<1>7. KnowsForwarder(n)'
  BY <1>1, <1>2 DEF PeerInv, KnowsForwarder
<1>8. CarriesNewest(n) /\ (republished[n] => pending'[n] # "nothing")
  BY <1>1, <1>2, <1>3 DEF PeerInv, CarriesNewest
<1>9. AgesRightly(n)'
  BY <1>1, <1>2, <1>3, <1>6, <1>8 DEF PeerInv, AgesRightly, OnItsWay, RefreshDue
<1>10. CarriesNewest(n)'
  BY <1>2, <1>3, <1>6, <1>8 DEF CarriesNewest, ComesTo
<1>11. QED
  BY <1>4, <1>5, <1>7, <1>9, <1>10 DEF GatewayInv, PeerInv

LEMMA FlushStep ==
  ASSUME GatewayInv, NEW n \in Peers, Gateway!Flush(n)
  PROVE  GatewayInv'
<1> USE DEF Gateway!Nothing, Gateway!cache, Gateway!clock
<1> DEFINE batch == [kind |-> "batch", value |-> pending[n]]
<1>1. GatewayTypeOK /\ \A m \in Peers : PeerInv(m)
  BY DEF GatewayInv
<1>2. /\ UNCHANGED <<conn, published, forwarding, republished, pid, known, cached, received, stale, due,
                     steady, spoke>>
      /\ forwarding[n] /\ pending[n] # "nothing" /\ pending[n] \in Values /\ pending[n] = published[n]
  BY <1>1 DEF Gateway!Flush, GatewayTypeOK, Words, PeerInv, CarriesNewest
<1>3. CASE Gateway!Disrupted(n) /\ UNCHANGED <<mail, sent, pending>>
  <2>1. rough' = [rough EXCEPT ![n] = TRUE]
    BY <1>3 DEF Gateway!Disrupted
  <2>2. GatewayTypeOK'
    BY <1>1, <1>2, <1>3, <2>1 DEF GatewayTypeOK
  <2>3. ASSUME NEW m \in Peers, m # n PROVE PeerInv(m)'
    BY <1>1, <1>2, <1>3, <2>1, <2>3, Elsewhere DEF GatewayTypeOK
  <2>4. KnowsForwarder(n)' /\ CarriesNewest(n)'
    BY <1>1, <1>2, <1>3 DEF PeerInv, KnowsForwarder, CarriesNewest, ComesTo
  <2>5. rough'[n]
    BY <1>1, <2>1 DEF GatewayTypeOK
  <2>6. AgesRightly(n)'
    BY <1>1, <1>2, <1>3, <2>5 DEF PeerInv, AgesRightly
  <2>7. QED
    BY <2>2, <2>3, <2>4, <2>6 DEF GatewayInv, PeerInv
<1>4. CASE /\ Gateway!Room(n) /\ Gateway!Tell(n, batch)
           /\ sent' = [sent EXCEPT ![n] = pending[n]] /\ pending' = [pending EXCEPT ![n] = "nothing"]
           /\ UNCHANGED rough
  <2> DEFINE q == mail[n]
             t == Append(q, batch)
  <2>1. /\ mail' = [mail EXCEPT ![n] = t] /\ Len(q) + 2 <= MaxMail /\ q \in Seq(Messages) /\ batch \in Messages
        /\ batch.kind = "batch"
    BY <1>1, <1>2, <1>4 DEF Gateway!Tell, Gateway!Room, GatewayTypeOK, Messages
  <2>2. ComesTo(t, cached[n], pending[n])
    BY <1>2, <2>1, AppendComesTo
  <2> HIDE DEF batch
  <2>3. /\ t \in Seq(Messages) /\ Len(t) = Len(q) + 1 /\ DOMAIN q = 1..Len(q) /\ DOMAIN t = 1..(Len(q) + 1)
        /\ t[Len(q) + 1] = batch /\ Len(q) \in Nat
        /\ \A i \in DOMAIN q : i \in DOMAIN t /\ t[i] = q[i]
        /\ \A i \in DOMAIN t : i \in DOMAIN q \/ i = Len(q) + 1
    BY <2>1, AppendIs
  <2> HIDE DEF t
  <2>4. /\ mail'[n] = t /\ sent'[n] = pending[n] /\ pending'[n] = "nothing"
        /\ \A m \in Peers : m # n => mail'[m] = mail[m] /\ sent'[m] = sent[m] /\ pending'[m] = pending[m]
    BY <1>1, <1>4, <2>1 DEF GatewayTypeOK
  <2>5. /\ mail' \in [Peers -> Seq(Messages)] /\ sent' \in [Peers -> Words] /\ pending' \in [Peers -> Words]
    BY <1>1, <1>4, <2>1, <2>3 DEF GatewayTypeOK, Words
  <2>6. \A m \in Peers : Len(mail'[m]) <= MaxMail
    BY <1>1, <2>1, <2>3, <2>4, LinksAssumption DEF GatewayTypeOK
  <2>7. GatewayTypeOK'
    BY <1>1, <1>2, <1>4, <2>5, <2>6 DEF GatewayTypeOK
  <2>8. ASSUME NEW m \in Peers, m # n PROVE PeerInv(m)'
    BY <1>1, <1>2, <1>4, <2>4, <2>8, Elsewhere
  <2>9. KnowsForwarder(n)'
    <3>1. ASSUME NEW i \in DOMAIN t, t[i].kind = "down" PROVE \E j \in DOMAIN t : j > i /\ t[j].kind = "up"
      <4>1. i \in DOMAIN q /\ q[i].kind = "down"
        BY <2>1, <2>3, <3>1
      <4>2. PICK j \in DOMAIN q : j > i /\ q[j].kind = "up"
        BY <1>1, <1>2, <4>1 DEF PeerInv, KnowsForwarder
      <4>3. QED
        BY <2>3, <4>2
    <3>2. \A i \in DOMAIN t : t[i].kind = "exit" => t[i].pid # pid[n]
      BY <1>1, <1>2, <2>1, <2>3 DEF PeerInv, KnowsForwarder
    <3>3. (\A i \in DOMAIN t : t[i].kind \notin {"up", "down"}) => known[n] = {pid[n]}
      BY <1>1, <1>2, <2>3 DEF PeerInv, KnowsForwarder
    <3>4. QED
      BY <1>1, <1>2, <2>4, <3>1, <3>2, <3>3 DEF PeerInv, KnowsForwarder
  <2>10. \E i \in DOMAIN mail'[n] : mail'[n][i].kind = "batch"
    BY <2>1, <2>3, <2>4
  <2>11. (\A i \in DOMAIN q : q[i].kind = "batch") => \A i \in DOMAIN mail'[n] : mail'[n][i].kind = "batch"
    BY <2>1, <2>3, <2>4
  <2>12. AgesRightly(n)'
    BY <1>1, <1>2, <1>4, <2>10, <2>11 DEF PeerInv, AgesRightly, OnItsWay
  <2>13. CarriesNewest(n)'
    BY <1>1, <1>2, <2>2, <2>4 DEF PeerInv, CarriesNewest
  <2>14. QED
    BY <2>7, <2>8, <2>9, <2>12, <2>13 DEF GatewayInv, PeerInv
<1>5. QED
  BY <1>3, <1>4 DEF Gateway!Flush

LEMMA CheckStaleStep ==
  ASSUME GatewayInv, Gateway!CheckStale
  PROVE  GatewayInv'
<1> USE DEF Gateway!Nothing, Gateway!forwarder
<1>1. GatewayTypeOK /\ \A m \in Peers : PeerInv(m)
  BY DEF GatewayInv
<1>2. /\ UNCHANGED <<conn, published, forwarding, pending, sent, republished, mail, pid, known, cached, received,
                     steady, spoke, rough>>
      /\ due' = due \ {<<"stale", "gateway">>}
      /\ stale' = [n \in Peers |-> stale[n] \/ (cached[n] # "nothing" /\ received[n] > StaleAfter)]
  BY DEF Gateway!CheckStale
<1>3. GatewayTypeOK'
  BY <1>1, <1>2 DEF GatewayTypeOK
<1>4. ASSUME NEW n \in Peers PROVE PeerInv(n)'
  <2>1. /\ stale'[n] <=> stale[n] \/ (cached[n] # "nothing" /\ received[n] > StaleAfter)
        /\ <<"refresh", n>> \in due' <=> <<"refresh", n>> \in due
        /\ received[n] \in Nat
    BY <1>1, <1>2 DEF GatewayTypeOK
  <2>2. KnowsForwarder(n)' /\ (CarriesNewest(n) => CarriesNewest(n)')
    BY <1>1, <1>2 DEF PeerInv, KnowsForwarder, CarriesNewest, ComesTo
  <2>3. AgesRightly(n)'
    BY <1>1, <1>2, <2>1, LinksAssumption DEF PeerInv, AgesRightly, OnItsWay, RefreshDue
  <2>4. QED
    BY <1>1, <1>2, <2>2, <2>3 DEF PeerInv
<1>5. QED
  BY <1>3, <1>4 DEF GatewayInv

-----------------------------------------------------------------------------
(* The steps of the collector *)

\* A message of which the collector makes what it should: the value of a
\* batch, or whom it knows.
LEMMA MessageHandled ==
  ASSUME GatewayInv, NEW n \in Peers, mail[n] # <<>>,
         mail' = [mail EXCEPT ![n] = Tail(@)],
         UNCHANGED <<conn, published, forwarding, pending, sent, republished, pid, due, steady, spoke, rough>>,
         \/ /\ Head(mail[n]).kind = "batch" /\ UNCHANGED known
            /\ cached' = [cached EXCEPT ![n] = Head(mail[n]).value]
            /\ received' = [received EXCEPT ![n] = 0] /\ stale' = [stale EXCEPT ![n] = FALSE]
         \/ /\ Head(mail[n]).kind # "batch" /\ UNCHANGED <<cached, received, stale>>
            /\ \E k \in SUBSET known[n] : known' = [known EXCEPT ![n] = k]
            /\ forwarding[n] /\ (\A i \in DOMAIN Tail(mail[n]) : Tail(mail[n])[i].kind \notin {"up", "down"})
                 => known'[n] = {pid[n]}
  PROVE  GatewayInv'
<1> DEFINE q == mail[n]
           t == Tail(q)
<1>1. GatewayTypeOK /\ \A m \in Peers : PeerInv(m)
  BY DEF GatewayInv
<1>2. q \in Seq(Messages) /\ q # <<>>
  BY <1>1 DEF GatewayTypeOK
<1>3. /\ t \in Seq(Messages) /\ Len(t) <= Len(q) /\ Head(q) \in Messages
      /\ \A i \in DOMAIN t : \E j \in DOMAIN q : t[i] = q[j]
      /\ \A i \in DOMAIN q : q[i] = Head(q) \/ \E j \in DOMAIN t : t[j] = q[i]
      /\ (\A i \in DOMAIN q : q[i].kind = "down" => \E j \in DOMAIN q : j > i /\ q[j].kind = "up")
         => \A i \in DOMAIN t : t[i].kind = "down" => \E j \in DOMAIN t : j > i /\ t[j].kind = "up"
  BY <1>2, TailOfMail
<1>4. \E j \in DOMAIN q : q[j] = Head(q)
  BY <1>2, TailIs
<1>5. Head(q).kind = "batch" => Head(q).value \in Values
  BY <1>3 DEF Messages
<1>6. /\ pending[n] = "nothing" /\ sent[n] # "nothing" /\ forwarding[n] => ComesTo(t, cached'[n], sent[n])
  BY <1>1, <1>2, TailComesTo DEF PeerInv, CarriesNewest, GatewayTypeOK
<1> HIDE DEF t
<1>7. /\ mail'[n] = t
      /\ \A m \in Peers : m # n => mail'[m] = mail[m] /\ known'[m] = known[m]
                                   /\ cached'[m] = cached[m] /\ received'[m] = received[m] /\ stale'[m] = stale[m]
  BY <1>1 DEF GatewayTypeOK, t
<1>8. GatewayTypeOK'
  <2>1. mail' \in [Peers -> Seq(Messages)] /\ \A m \in Peers : Len(mail'[m]) <= MaxMail
    <3>1. mail' \in [Peers -> Seq(Messages)]
      BY <1>1, <1>3 DEF GatewayTypeOK, t
    <3>2. \A m \in Peers : Len(mail'[m]) <= MaxMail
      BY <1>1, <1>2, <1>3, <1>7, LinksAssumption DEF GatewayTypeOK
    <3>3. QED
      BY <3>1, <3>2
  <2>2. known' \in [Peers -> SUBSET Gateway!Pids]
    BY <1>1 DEF GatewayTypeOK
  <2>3. cached' \in [Peers -> Words] /\ received' \in [Peers -> Nat] /\ stale' \in [Peers -> BOOLEAN]
    <3>1. CASE UNCHANGED <<cached, received, stale>>
      BY <1>1, <3>1 DEF GatewayTypeOK
    <3>2. CASE /\ Head(q).kind = "batch" /\ cached' = [cached EXCEPT ![n] = Head(q).value]
               /\ received' = [received EXCEPT ![n] = 0] /\ stale' = [stale EXCEPT ![n] = FALSE]
      <4>1. Head(q).value \in Words
        BY <1>5, <3>2 DEF Words
      <4>2. QED
        BY <1>1, <3>2, <4>1 DEF GatewayTypeOK
    <3>3. QED
      BY <3>1, <3>2
  <2>4. QED
    BY <1>1, <2>1, <2>2, <2>3 DEF GatewayTypeOK
<1>9. ASSUME NEW m \in Peers, m # n PROVE PeerInv(m)'
  BY <1>1, <1>7, <1>9, Elsewhere
<1>10. known'[n] \subseteq known[n]
  BY <1>1 DEF GatewayTypeOK
<1>15. conn' = conn /\ forwarding' = forwarding /\ pid' = pid
  OBVIOUS
<1>11. KnowsForwarder(n)'
  <2>1. forwarding[n] => \A i \in DOMAIN t : t[i].kind = "exit" => t[i].pid # pid[n]
    BY <1>1, <1>3 DEF PeerInv, KnowsForwarder
  <2>2. forwarding[n] /\ (\A i \in DOMAIN t : t[i].kind \notin {"up", "down"}) => known'[n] = {pid[n]}
    <3>1. CASE Head(q).kind = "batch" /\ UNCHANGED known
      <4>1. (\A i \in DOMAIN t : t[i].kind \notin {"up", "down"}) => \A i \in DOMAIN q : q[i].kind \notin {"up", "down"}
        BY <1>3, <3>1
      <4>2. QED
        BY <1>1, <3>1, <4>1 DEF PeerInv, KnowsForwarder
    <3>2. CASE Head(q).kind # "batch"
      BY <3>2 DEF t
    <3>3. QED
      BY <3>1, <3>2
  <2>3. conn[n] => \A i \in DOMAIN t : t[i].kind = "down" => \E j \in DOMAIN t : j > i /\ t[j].kind = "up"
    BY <1>1, <1>3 DEF PeerInv, KnowsForwarder
  <2>4. QED
    <3>1. known'[n] \subseteq {pid'[n]} /\ (forwarding'[n] => conn'[n])
      BY <1>1, <1>10, <1>15 DEF PeerInv, KnowsForwarder
    <3>2. conn'[n] => \A i \in DOMAIN mail'[n] : mail'[n][i].kind = "down" =>
                         \E j \in DOMAIN mail'[n] : j > i /\ mail'[n][j].kind = "up"
      BY <1>7, <1>15, <2>3
    <3>3. forwarding'[n] => \A i \in DOMAIN mail'[n] : mail'[n][i].kind = "exit" => mail'[n][i].pid # pid'[n]
      BY <1>7, <1>15, <2>1
    <3>4. forwarding'[n] /\ (\A i \in DOMAIN mail'[n] : mail'[n][i].kind \notin {"up", "down"}) => known'[n] = {pid'[n]}
      BY <1>7, <1>15, <2>2
    <3>5. QED
      BY <3>1, <3>2, <3>3, <3>4 DEF KnowsForwarder
<1>12. AgesRightly(n)'
  <2>1. (\A i \in DOMAIN q : q[i].kind = "batch") => \A i \in DOMAIN mail'[n] : mail'[n][i].kind = "batch"
    BY <1>3, <1>7
  <2>2. CASE /\ Head(q).kind = "batch"
             /\ cached' = [cached EXCEPT ![n] = Head(q).value]
             /\ received' = [received EXCEPT ![n] = 0] /\ stale' = [stale EXCEPT ![n] = FALSE]
    <3>1. cached'[n] # "nothing" /\ received'[n] = 0 /\ ~stale'[n]
      BY <1>1, <1>5, <2>2, LinksAssumption DEF GatewayTypeOK
    <3>2. QED
      BY <1>1, <2>1, <3>1, LinksAssumption DEF PeerInv, AgesRightly
  <2>3. CASE Head(q).kind # "batch" /\ UNCHANGED <<cached, received, stale>>
    <3>1. (\E i \in DOMAIN q : q[i].kind = "batch") => \E i \in DOMAIN mail'[n] : mail'[n][i].kind = "batch"
      <4>1. ASSUME NEW i \in DOMAIN q, q[i].kind = "batch" PROVE \E j \in DOMAIN t : t[j].kind = "batch"
        <5>1. PICK j \in DOMAIN t : t[j] = q[i]
          BY <1>3, <2>3, <4>1
        <5>2. QED
          BY <4>1, <5>1
      <4>2. QED
        BY <1>7, <4>1
    <3>2. QED
      BY <1>1, <2>1, <2>3, <3>1 DEF PeerInv, AgesRightly, OnItsWay, RefreshDue
  <2>4. QED
    BY <2>2, <2>3
<1>13. forwarding[n] => CarriesNewest(n)'
  BY <1>1, <1>6, <1>7 DEF PeerInv, CarriesNewest
<1>14. QED
  BY <1>8, <1>9, <1>11, <1>12, <1>13 DEF GatewayInv, PeerInv

\* The collector starts a forwarder on n with the mail t to come of it; one
\* that nothing was heard of for a second, undisturbed, it does not replace.
LEMMA ForwarderStarted ==
  ASSUME GatewayInv, NEW n \in Peers, known[n] = {},
         NEW t \in Seq(Messages), Len(t) <= Len(mail[n]), mail' = [mail EXCEPT ![n] = t],
         \A i \in DOMAIN t : (\E j \in DOMAIN mail[n] : mail[n][j] = t[i])
                             \/ (~conn[n] /\ t[i] = [kind |-> "exit", pid |-> Gateway!NewPid(n), reason |-> "noconnection"]),
         conn[n] => \A i \in DOMAIN t : t[i].kind = "down" => \E j \in DOMAIN t : j > i /\ t[j].kind = "up",
         Gateway!Begin(n, conn[n]),
         pid' = [pid EXCEPT ![n] = Gateway!NewPid(n)], known' = [known EXCEPT ![n] = {Gateway!NewPid(n)}],
         rough[n] \/ steady[n] = 0,
         UNCHANGED <<conn, published, cached, received, stale, due, steady, spoke, rough>>
  PROVE  GatewayInv'
<1> DEFINE p == Gateway!NewPid(n)
<1>1. GatewayTypeOK /\ \A m \in Peers : PeerInv(m)
  BY DEF GatewayInv
<1>2. /\ p \in Gateway!Pids
      /\ \A i \in DOMAIN mail[n] : mail[n][i].kind = "exit" => mail[n][i].pid # p
  BY <1>1, NewPidIsNew
<1> HIDE DEF p
<1>3. /\ mail'[n] = t /\ forwarding'[n] = conn[n] /\ pending'[n] = "nothing" /\ sent'[n] = "nothing" /\ ~republished'[n]
      /\ pid'[n] = p /\ known'[n] = {p}
      /\ \A m \in Peers : m # n =>
           /\ mail'[m] = mail[m] /\ forwarding'[m] = forwarding[m] /\ pending'[m] = pending[m]
           /\ sent'[m] = sent[m] /\ republished'[m] = republished[m] /\ pid'[m] = pid[m] /\ known'[m] = known[m]
  BY <1>1 DEF GatewayTypeOK, Gateway!Begin, Gateway!Nothing, p
<1>4. GatewayTypeOK'
  <2>1. \A m \in Peers : Len(mail'[m]) <= MaxMail
    <3>1. TAKE m \in Peers
    <3>2. Len(mail[m]) <= MaxMail /\ Len(mail[m]) \in Nat /\ Len(t) \in Nat
      BY <1>1 DEF GatewayTypeOK
    <3>3. QED
      BY <1>3, <3>2, LinksAssumption
  <2>2. mail' \in [Peers -> Seq(Messages)] /\ pid' \in [Peers -> Gateway!Pids] /\ known' \in [Peers -> SUBSET Gateway!Pids]
    BY <1>1, <1>2 DEF GatewayTypeOK, p
  <2>3. /\ forwarding' \in [Peers -> BOOLEAN] /\ republished' \in [Peers -> BOOLEAN]
        /\ pending' \in [Peers -> Words] /\ sent' \in [Peers -> Words]
    BY <1>1 DEF GatewayTypeOK, Gateway!Begin, Gateway!Nothing, Words
  <2>4. QED
    BY <1>1, <2>1, <2>2, <2>3 DEF GatewayTypeOK
<1>5. ASSUME NEW m \in Peers, m # n PROVE PeerInv(m)'
  BY <1>1, <1>3, <1>5, Elsewhere
<1>6. conn[n] => \A i \in DOMAIN t : t[i].kind = "exit" => t[i].pid # p
  BY <1>2
<1>7. KnowsForwarder(n)'
  <2>1. conn' = conn
    OBVIOUS
  <2>2. known'[n] \subseteq {pid'[n]} /\ (forwarding'[n] => conn'[n])
    BY <1>3, <2>1
  <2>3. conn'[n] => \A i \in DOMAIN mail'[n] : mail'[n][i].kind = "down" =>
                       \E j \in DOMAIN mail'[n] : j > i /\ mail'[n][j].kind = "up"
    <3>1. conn[n] => \A i \in DOMAIN t : t[i].kind = "down" => \E j \in DOMAIN t : j > i /\ t[j].kind = "up"
      OBVIOUS
    <3>2. mail'[n] = t
      BY <1>3
    <3>3. ASSUME conn'[n], NEW i \in DOMAIN mail'[n], mail'[n][i].kind = "down"
          PROVE  \E j \in DOMAIN mail'[n] : j > i /\ mail'[n][j].kind = "up"
      <4>1. conn[n] /\ i \in DOMAIN t /\ t[i].kind = "down"
        BY <2>1, <3>2, <3>3
      <4>2. PICK j \in DOMAIN t : j > i /\ t[j].kind = "up"
        BY <3>1, <4>1
      <4>3. j \in DOMAIN mail'[n] /\ mail'[n][j].kind = "up"
        BY <3>2, <4>2
      <4>4. QED
        BY <4>2, <4>3
    <3>4. QED
      BY <3>3
  <2>4. forwarding'[n] => \A i \in DOMAIN mail'[n] : mail'[n][i].kind = "exit" => mail'[n][i].pid # pid'[n]
    BY <1>3, <1>6, <2>1
  <2>5. QED
    BY <1>3, <2>2, <2>3, <2>4 DEF KnowsForwarder
<1>8. AgesRightly(n)'
  BY <1>1, <1>3 DEF PeerInv, AgesRightly, GatewayTypeOK
<1>9. CarriesNewest(n)'
  BY <1>3 DEF CarriesNewest
<1>10. QED
  BY <1>4, <1>5, <1>7, <1>8, <1>9 DEF GatewayInv, PeerInv

LEMMA HandleMailStep ==
  ASSUME GatewayInv, NEW n \in Peers, Gateway!HandleMail(n)
  PROVE  GatewayInv'
<1> USE DEF Gateway!cache, Gateway!clock, Gateway!forwarder
<1> DEFINE q == mail[n]
           message == Head(q)
           t == Tail(q)
<1>1. GatewayTypeOK /\ PeerInv(n) /\ q \in Seq(Messages) /\ q # <<>>
  BY DEF GatewayInv, GatewayTypeOK, Gateway!HandleMail
<1>2. UNCHANGED <<conn, published, due, steady, spoke, rough>>
  BY DEF Gateway!HandleMail
<1>3. /\ t \in Seq(Messages) /\ Len(t) <= Len(q) /\ message \in Messages
      /\ \A i \in DOMAIN t : \E j \in DOMAIN q : t[i] = q[j]
      /\ (\A i \in DOMAIN q : q[i].kind = "down" => \E j \in DOMAIN q : j > i /\ q[j].kind = "up")
         => /\ \A i \in DOMAIN t : t[i].kind = "down" => \E j \in DOMAIN t : j > i /\ t[j].kind = "up"
            /\ message.kind = "down" => \E j \in DOMAIN t : t[j].kind = "up"
      /\ Len(t) = Len(q) - 1 /\ Len(q) \in Nat
      /\ \E j \in DOMAIN q : q[j] = message
      /\ \A i \in DOMAIN q : q[i] = message \/ \E j \in DOMAIN t : t[j] = q[i]
  BY <1>1, TailOfMail, TailIs
<1>4. CASE message.kind = "batch" /\ Gateway!Store(n, message.value)
  BY <1>1, <1>2, <1>4, MessageHandled DEF Gateway!Store
<1>5. CASE message.kind = "up" /\ Gateway!NodeUp(n)
  <2>1. UNCHANGED <<cached, received, stale>>
    BY <1>5 DEF Gateway!NodeUp
  <2>2. CASE known[n] # {}
    <3>1. UNCHANGED <<pid, known, forwarding, pending, sent, republished>> /\ mail' = [mail EXCEPT ![n] = Tail(@)]
      BY <1>5, <2>2 DEF Gateway!NodeUp, Gateway!StartForwarder
    <3>2. known' = [known EXCEPT ![n] = known[n]] /\ known[n] \in SUBSET known[n]
      BY <1>1, <3>1 DEF GatewayTypeOK
    <3>3. known'[n] = {pid[n]}
      BY <1>1, <2>2, <3>1 DEF PeerInv, KnowsForwarder
    <3>4. QED
      BY <1>1, <1>2, <1>5, <2>1, <3>1, <3>2, <3>3, MessageHandled
  <2>3. CASE known[n] = {}
    <3> DEFINE p == Gateway!NewPid(n)
               exit == [kind |-> "exit", pid |-> p, reason |-> "noconnection"]
               s == t \o (IF conn[n] THEN <<>> ELSE <<exit>>)
    <3>1. /\ pid' = [pid EXCEPT ![n] = p] /\ known' = [known EXCEPT ![n] = {p}]
          /\ Gateway!Begin(n, conn[n]) /\ mail' = [mail EXCEPT ![n] = s]
      BY <1>5, <2>3 DEF Gateway!NodeUp, Gateway!StartForwarder
    <3>2. exit \in Messages
      BY <1>1, NewPidIsNew DEF Messages
    <3>3. rough[n] \/ steady[n] = 0
      BY <1>1, <1>3, <1>5 DEF PeerInv, AgesRightly, GatewayTypeOK
    <3> HIDE DEF t, p, exit
    <3>4. /\ s \in Seq(Messages) /\ Len(s) <= Len(q)
          /\ \A i \in DOMAIN s : (\E j \in DOMAIN q : q[j] = s[i]) \/ (~conn[n] /\ s[i] = exit)
          /\ conn[n] => s = t
      <4>1. CASE conn[n]
        <5>1. s = t
          BY <1>3, <4>1
        <5> HIDE DEF s
        <5>2. QED
          BY <1>3, <4>1, <5>1
      <4>2. CASE ~conn[n]
        <5>1. <<exit>> \in Seq(Messages) /\ Len(<<exit>>) = 1 /\ <<exit>>[1] = exit
          BY <3>2
        <5>2. s = t \o <<exit>>
          BY <4>2
        <5> HIDE DEF s
        <5>3. /\ s \in Seq(Messages) /\ Len(s) = Len(t) + 1 /\ Len(t) \in Nat
              /\ DOMAIN s = 1..(Len(t) + 1) /\ DOMAIN t = 1..Len(t)
              /\ \A i \in 1..Len(t) : s[i] = t[i]
              /\ s[Len(t) + 1] = exit
          BY <1>3, <5>1, <5>2, ConcatIs
        <5>4. ASSUME NEW i \in DOMAIN s PROVE (\E j \in DOMAIN q : q[j] = s[i]) \/ s[i] = exit
          <6>1. (i \in DOMAIN t /\ s[i] = t[i]) \/ i = Len(t) + 1
            BY <5>3
          <6>2. QED
            BY <1>3, <5>3, <6>1
        <5>5. QED
          BY <1>3, <4>2, <5>3, <5>4
      <4>3. QED
        BY <4>1, <4>2
    <3>5. conn[n] => \A i \in DOMAIN s : s[i].kind = "down" => \E j \in DOMAIN s : j > i /\ s[j].kind = "up"
      <4>1. conn[n] => \A i \in DOMAIN t : t[i].kind = "down" => \E j \in DOMAIN t : j > i /\ t[j].kind = "up"
        BY <1>1, <1>3 DEF PeerInv, KnowsForwarder
      <4> HIDE DEF s
      <4>2. QED
        BY <3>4, <4>1
    <3> HIDE DEF s
    <3>6. QED
      BY <1>2, <2>1, <2>3, <3>1, <3>3, <3>4, <3>5, ForwarderStarted DEF p, exit
  <2>4. QED
    BY <2>2, <2>3
<1>6. CASE message.kind = "down" /\ Gateway!NodeDown(n)
  <2>1. /\ UNCHANGED <<pid, forwarding, pending, sent, republished, cached, received, stale>>
        /\ known' = [known EXCEPT ![n] = {}] /\ mail' = [mail EXCEPT ![n] = Tail(@)]
    BY <1>6 DEF Gateway!NodeDown
  <2>2. forwarding[n] => \E j \in DOMAIN t : t[j].kind = "up"
    BY <1>1, <1>3, <1>6 DEF PeerInv, KnowsForwarder
  <2>3. {} \in SUBSET known[n]
    OBVIOUS
  <2>4. QED
    BY <1>1, <1>2, <1>6, <2>1, <2>2, <2>3, MessageHandled
<1>7. CASE message.kind = "exit" /\ Gateway!ForwarderExit(n, message.pid, message.reason)
  <2>1. /\ UNCHANGED <<pid, forwarding, pending, sent, republished, cached, received, stale>>
        /\ known' = [known EXCEPT ![n] = known[n] \ {message.pid}] /\ mail' = [mail EXCEPT ![n] = Tail(@)]
    BY <1>7 DEF Gateway!ForwarderExit
  <2>2. ASSUME forwarding[n], \A i \in DOMAIN t : t[i].kind \notin {"up", "down"} PROVE known'[n] = {pid[n]}
    <3>1. \A i \in DOMAIN q : q[i].kind \notin {"up", "down"}
      BY <1>3, <1>7, <2>2
    <3>2. message.pid # pid[n] /\ known[n] = {pid[n]}
      BY <1>1, <1>3, <1>7, <2>2, <3>1 DEF PeerInv, KnowsForwarder
    <3>3. QED
      BY <1>1, <2>1, <3>2 DEF GatewayTypeOK
  <2>3. known[n] \ {message.pid} \in SUBSET known[n]
    OBVIOUS
  <2>4. QED
    BY <1>1, <1>2, <1>7, <2>1, <2>2, <2>3, MessageHandled
<1>8. QED
  BY <1>4, <1>5, <1>6, <1>7 DEF Gateway!HandleMail

LEMMA RespawnStep ==
  ASSUME GatewayInv, NEW n \in Peers, Gateway!Respawn(n)
  PROVE  GatewayInv'
<1> USE DEF Gateway!cache, Gateway!clock, Gateway!forwarder
<1>1. GatewayTypeOK /\ PeerInv(n) /\ \A m \in Peers : PeerInv(m)
  BY DEF GatewayInv
<1>2. UNCHANGED <<conn, published, mail, cached, received, stale, due, steady, spoke, rough>>
  BY DEF Gateway!Respawn
<1>3. CASE ~conn[n] \/ known[n] # {}
  <2>1. UNCHANGED <<pid, known, forwarding, pending, sent, republished>>
    BY <1>3 DEF Gateway!Respawn
  <2>2. GatewayTypeOK'
    BY <1>1, <1>2, <2>1 DEF GatewayTypeOK
  <2>3. \A m \in Peers : PeerInv(m)'
    BY <1>1, <1>2, <2>1, Elsewhere
  <2>4. QED
    BY <2>2, <2>3 DEF GatewayInv
<1>4. CASE conn[n] /\ known[n] = {}
  <2> DEFINE q == mail[n]
  <2>1. /\ pid' = [pid EXCEPT ![n] = Gateway!NewPid(n)] /\ known' = [known EXCEPT ![n] = {pid'[n]}]
        /\ Gateway!Begin(n, TRUE)
    BY <1>4 DEF Gateway!Respawn
  <2>2. pid'[n] = Gateway!NewPid(n) /\ mail' = [mail EXCEPT ![n] = q] /\ q \in Seq(Messages) /\ Len(q) <= Len(mail[n])
    BY <1>1, <1>2, <2>1 DEF GatewayTypeOK
  <2>3. rough[n] \/ steady[n] = 0
    BY <1>1, <1>4 DEF PeerInv, AgesRightly, KnowsForwarder, GatewayTypeOK
  <2>4. Gateway!Begin(n, conn[n])
    BY <1>1, <1>4, <2>1 DEF GatewayTypeOK, Gateway!Begin
  <2>5. \A i \in DOMAIN q : q[i].kind = "down" => \E j \in DOMAIN q : j > i /\ q[j].kind = "up"
    BY <1>1, <1>4 DEF PeerInv, KnowsForwarder
  <2>6. \A i \in DOMAIN q : \E j \in DOMAIN mail[n] : mail[n][j] = q[i]
    OBVIOUS
  <2>8. known' = [known EXCEPT ![n] = {Gateway!NewPid(n)}]
    BY <2>1, <2>2
  <2> HIDE DEF q
  <2>7. QED
    <3>1. UNCHANGED <<conn, published, cached, received, stale, due, steady, spoke, rough>>
      BY <1>2
    <3>2. \A i \in DOMAIN q : (\E j \in DOMAIN mail[n] : mail[n][j] = q[i])
            \/ (~conn[n] /\ q[i] = [kind |-> "exit", pid |-> Gateway!NewPid(n), reason |-> "noconnection"])
      BY <2>6
    <3>3. conn[n] => \A i \in DOMAIN q : q[i].kind = "down" => \E j \in DOMAIN q : j > i /\ q[j].kind = "up"
      BY <2>5
    <3>4. QED
      BY <1>4, <2>8, <2>1, <2>2, <2>3, <2>4, <3>1, <3>2, <3>3, ForwarderStarted
<1>5. QED
  BY <1>3, <1>4

-----------------------------------------------------------------------------
(* The mesh and time *)

\* The forwarder on n stops, with the mail t to come of it.
LEMMA ForwarderStopped ==
  ASSUME GatewayInv, NEW n \in Peers,
         NEW t \in Seq(Messages), Len(t) <= MaxMail, mail' = [mail EXCEPT ![n] = t],
         Gateway!Stop(n), rough' = [rough EXCEPT ![n] = TRUE],
         conn' = conn \/ conn' = [conn EXCEPT ![n] = FALSE],
         conn'[n] => \A i \in DOMAIN t : t[i].kind = "down" => \E j \in DOMAIN t : j > i /\ t[j].kind = "up",
         UNCHANGED <<published, pid, known, cached, received, stale, due, steady, spoke>>
  PROVE  GatewayInv'
<1>1. GatewayTypeOK /\ \A m \in Peers : PeerInv(m)
  BY DEF GatewayInv
<1>2. /\ mail'[n] = t /\ ~forwarding'[n] /\ rough'[n]
      /\ \A m \in Peers : m # n =>
           /\ mail'[m] = mail[m] /\ forwarding'[m] = forwarding[m] /\ pending'[m] = pending[m] /\ conn'[m] = conn[m]
           /\ sent'[m] = sent[m] /\ republished'[m] = republished[m] /\ rough'[m] = rough[m]
  BY <1>1 DEF GatewayTypeOK, Gateway!Stop, Gateway!Begin, Gateway!Nothing
<1>3. GatewayTypeOK'
  <2>1. \A m \in Peers : Len(mail'[m]) <= MaxMail
    BY <1>1, <1>2 DEF GatewayTypeOK
  <2>2. /\ mail' \in [Peers -> Seq(Messages)] /\ rough' \in [Peers -> BOOLEAN] /\ conn' \in [Peers -> BOOLEAN]
    BY <1>1 DEF GatewayTypeOK
  <2>3. /\ forwarding' \in [Peers -> BOOLEAN] /\ republished' \in [Peers -> BOOLEAN]
        /\ pending' \in [Peers -> Words] /\ sent' \in [Peers -> Words]
    BY <1>1 DEF GatewayTypeOK, Gateway!Stop, Gateway!Begin, Gateway!Nothing, Words
  <2>4. QED
    BY <1>1, <2>1, <2>2, <2>3 DEF GatewayTypeOK
<1>4. ASSUME NEW m \in Peers, m # n PROVE PeerInv(m)'
  BY <1>1, <1>2, <1>4, Elsewhere
<1>5. KnowsForwarder(n)'
  <2>1. known'[n] \subseteq {pid'[n]}
    BY <1>1 DEF PeerInv, KnowsForwarder
  <2>2. ASSUME conn'[n], NEW i \in DOMAIN mail'[n], mail'[n][i].kind = "down"
        PROVE  \E j \in DOMAIN mail'[n] : j > i /\ mail'[n][j].kind = "up"
    <3>1. i \in DOMAIN t /\ t[i].kind = "down"
      BY <1>2, <2>2
    <3>2. PICK j \in DOMAIN t : j > i /\ t[j].kind = "up"
      BY <2>2, <3>1
    <3>3. j \in DOMAIN mail'[n] /\ mail'[n][j].kind = "up"
      BY <1>2, <3>2
    <3>4. QED
      BY <3>2, <3>3
  <2>3. QED
    BY <1>2, <2>1, <2>2 DEF KnowsForwarder
<1>6. AgesRightly(n)'
  BY <1>1, <1>2 DEF PeerInv, AgesRightly
<1>7. QED
  BY <1>2, <1>3, <1>4, <1>5, <1>6 DEF GatewayInv, PeerInv

LEMMA ExitStep ==
  ASSUME GatewayInv, NEW n \in Peers, Gateway!Exit(n)
  PROVE  GatewayInv'
<1> DEFINE q == mail[n]
<1>1. GatewayTypeOK /\ PeerInv(n) /\ q \in Seq(Messages) /\ Len(q) + 2 <= MaxMail /\ conn[n] /\ Len(q) \in Nat
  <2>1. GatewayTypeOK /\ PeerInv(n) /\ forwarding[n] /\ Len(q) + 2 <= MaxMail
    BY DEF GatewayInv, Gateway!Exit, Gateway!Room
  <2>2. q \in Seq(Messages)
    BY <2>1 DEF GatewayTypeOK
  <2>3. QED
    BY <2>1, <2>2 DEF PeerInv, KnowsForwarder
<1>2. PICK reason \in {"crash", "undefined"} :
        mail' = [mail EXCEPT ![n] = Append(q, [kind |-> "exit", pid |-> pid[n], reason |-> reason])]
  BY DEF Gateway!Exit, Gateway!Tell
<1> DEFINE exit == [kind |-> "exit", pid |-> pid[n], reason |-> reason]
           t == Append(q, exit)
<1>3. exit \in Messages /\ exit.kind = "exit" /\ mail' = [mail EXCEPT ![n] = t]
  BY <1>1, <1>2 DEF GatewayTypeOK, Messages
<1> HIDE DEF exit
<1>4. /\ t \in Seq(Messages) /\ Len(t) = Len(q) + 1 /\ DOMAIN q = 1..Len(q) /\ t[Len(q) + 1] = exit
      /\ \A i \in DOMAIN q : i \in DOMAIN t /\ t[i] = q[i]
      /\ \A i \in DOMAIN t : i \in DOMAIN q \/ i = Len(q) + 1
  BY <1>1, <1>3, AppendIs
<1> HIDE DEF t
<1>5. ASSUME NEW i \in DOMAIN t, t[i].kind = "down" PROVE \E j \in DOMAIN t : j > i /\ t[j].kind = "up"
  <2>1. i \in DOMAIN q /\ q[i].kind = "down"
    BY <1>3, <1>4, <1>5
  <2>2. PICK j \in DOMAIN q : j > i /\ q[j].kind = "up"
    BY <1>1, <2>1 DEF PeerInv, KnowsForwarder
  <2>3. QED
    BY <1>4, <2>2
<1>6. /\ Gateway!Stop(n) /\ rough' = [rough EXCEPT ![n] = TRUE] /\ conn' = conn
      /\ UNCHANGED <<published, pid, known, cached, received, stale, due, steady, spoke>>
  BY DEF Gateway!Exit, Gateway!Disrupted, Gateway!cache, Gateway!clock
<1>7. Len(t) <= MaxMail
  BY <1>1, <1>4, LinksAssumption
<1>8. conn'[n] => \A i \in DOMAIN t : t[i].kind = "down" => \E j \in DOMAIN t : j > i /\ t[j].kind = "up"
  BY <1>5
<1>9. QED
  BY <1>3, <1>4, <1>6, <1>7, <1>8, ForwarderStopped

LEMMA FrontIs ==
  ASSUME NEW S, NEW q \in Seq(S), q # <<>>
  PROVE  Gateway!Front(q) \in Seq(S) /\ Len(Gateway!Front(q)) <= Len(q)
  BY DEF Gateway!Front

LEMMA DisconnectStep ==
  ASSUME GatewayInv, NEW n \in Peers, Gateway!Disconnect(n)
  PROVE  GatewayInv'
<1> DEFINE q == mail[n]
           down == [kind |-> "down"]
           exit == [kind |-> "exit", pid |-> pid[n], reason |-> "noconnection"]
<1>1. GatewayTypeOK /\ q \in Seq(Messages) /\ Len(q) + 2 <= MaxMail /\ Len(q) \in Nat
  BY DEF GatewayInv, GatewayTypeOK, Gateway!Disconnect, Gateway!Room
<1>2. PICK drops \in BOOLEAN, ends \in {<<down, exit>>, <<exit, down>>} :
        /\ drops => q # <<>>
        /\ mail' = [mail EXCEPT ![n] = (IF drops THEN Gateway!Front(q) ELSE q) \o (IF forwarding[n] THEN ends ELSE <<down>>)]
  BY DEF Gateway!Disconnect
<1>3. down \in Messages /\ exit \in Messages
  BY <1>1 DEF GatewayTypeOK, Messages
<1> DEFINE s == IF drops THEN Gateway!Front(q) ELSE q
           e == IF forwarding[n] THEN ends ELSE <<down>>
           t == s \o e
<1> HIDE DEF down, exit
<1>4. s \in Seq(Messages) /\ Len(s) <= Len(q)
  BY <1>1, <1>2, FrontIs
<1>5. e \in Seq(Messages) /\ Len(e) <= 2
  <2>1. /\ <<down, exit>> \in Seq(Messages) /\ Len(<<down, exit>>) = 2
        /\ <<exit, down>> \in Seq(Messages) /\ Len(<<exit, down>>) = 2
        /\ <<down>> \in Seq(Messages) /\ Len(<<down>>) = 1
    BY <1>3
  <2>2. e \in {<<down, exit>>, <<exit, down>>, <<down>>}
    BY <1>2
  <2> HIDE DEF e
  <2>3. QED
    BY <2>1, <2>2
<1>6. mail' = [mail EXCEPT ![n] = t]
  BY <1>2
<1> HIDE DEF s, e
<1>7. t \in Seq(Messages) /\ Len(t) <= MaxMail
  BY <1>1, <1>4, <1>5, ConcatIs, LinksAssumption
<1>8. /\ Gateway!Stop(n) /\ rough' = [rough EXCEPT ![n] = TRUE] /\ conn' = [conn EXCEPT ![n] = FALSE]
      /\ UNCHANGED <<published, pid, known, cached, received, stale, due, steady, spoke>>
  BY DEF Gateway!Disconnect, Gateway!Disrupted, Gateway!cache, Gateway!clock
<1>9. ~conn'[n]
  BY <1>1, <1>8 DEF GatewayTypeOK
<1> HIDE DEF t
<1>10. QED
  BY <1>6, <1>7, <1>8, <1>9, ForwarderStopped

LEMMA ConnectStep ==
  ASSUME GatewayInv, NEW n \in Peers, Gateway!Connect(n)
  PROVE  GatewayInv'
<1> DEFINE q == mail[n]
           up1 == [kind |-> "up"]
           t == Append(q, up1)
<1>1. /\ GatewayTypeOK /\ (\A m \in Peers : PeerInv(m)) /\ q \in Seq(Messages) /\ Len(q) + 2 <= MaxMail
      /\ ~conn[n] /\ ~forwarding[n] /\ Len(q) \in Nat
  <2>1. GatewayTypeOK /\ (\A m \in Peers : PeerInv(m)) /\ ~conn[n] /\ Len(q) + 2 <= MaxMail
    BY DEF GatewayInv, Gateway!Connect, Gateway!Room
  <2>2. q \in Seq(Messages)
    BY <2>1 DEF GatewayTypeOK
  <2>3. QED
    BY <2>1, <2>2 DEF PeerInv, KnowsForwarder
<1>2. /\ conn' = [conn EXCEPT ![n] = TRUE] /\ mail' = [mail EXCEPT ![n] = t]
      /\ UNCHANGED <<published, forwarding, pending, sent, republished, pid, known, cached, received, stale, due,
                     steady, spoke, rough>>
  BY DEF Gateway!Connect, Gateway!Tell, Gateway!forwarder, Gateway!cache, Gateway!clock
<1>3. up1 \in Messages /\ up1.kind = "up"
  BY DEF Messages
<1> HIDE DEF up1
<1>4. /\ t \in Seq(Messages) /\ Len(t) = Len(q) + 1 /\ DOMAIN q = 1..Len(q) /\ t[Len(q) + 1] = up1
      /\ DOMAIN t = 1..(Len(q) + 1)
      /\ \A i \in DOMAIN t : i \in DOMAIN q \/ i = Len(q) + 1
  BY <1>1, <1>3, AppendIs
<1>5. Len(t) <= MaxMail
  BY <1>1, <1>4, LinksAssumption
<1> HIDE DEF t
<1>6. /\ mail'[n] = t /\ \A m \in Peers : m # n => mail'[m] = mail[m] /\ conn'[m] = conn[m]
  BY <1>1, <1>2 DEF GatewayTypeOK
<1>7. GatewayTypeOK'
  <2>1. mail' \in [Peers -> Seq(Messages)] /\ conn' \in [Peers -> BOOLEAN]
    BY <1>1, <1>2, <1>4 DEF GatewayTypeOK
  <2>2. \A m \in Peers : Len(mail'[m]) <= MaxMail
    BY <1>1, <1>5, <1>6 DEF GatewayTypeOK
  <2>3. QED
    BY <1>1, <1>2, <2>1, <2>2 DEF GatewayTypeOK
<1>8. ASSUME NEW m \in Peers, m # n PROVE PeerInv(m)'
  BY <1>1, <1>2, <1>6, <1>8, Elsewhere
<1>9. KnowsForwarder(n)'
  <2>1. known'[n] \subseteq {pid'[n]}
    BY <1>1, <1>2 DEF PeerInv, KnowsForwarder
  <2>2. ASSUME NEW i \in DOMAIN mail'[n], mail'[n][i].kind = "down"
        PROVE  \E j \in DOMAIN mail'[n] : j > i /\ mail'[n][j].kind = "up"
    <3>1. Len(q) + 1 \in DOMAIN t /\ t[Len(q) + 1].kind = "up" /\ i \in DOMAIN q /\ Len(q) + 1 > i
      BY <1>1, <1>3, <1>4, <1>6, <2>2
    <3>2. Len(q) + 1 \in DOMAIN mail'[n] /\ mail'[n][Len(q) + 1].kind = "up"
      BY <1>6, <3>1
    <3>3. QED
      BY <3>1, <3>2
  <2>3. QED
    BY <1>1, <1>2, <2>1, <2>2 DEF KnowsForwarder
<1>10. AgesRightly(n)'
  BY <1>1, <1>2 DEF PeerInv, AgesRightly, GatewayTypeOK
<1>11. QED
  BY <1>1, <1>2, <1>7, <1>8, <1>9, <1>10 DEF GatewayInv, PeerInv

LEMMA LeastOfTwo ==
  ASSUME NEW a \in Nat, NEW b \in Nat
  PROVE  Gateway!Min({a, b}) = IF a <= b THEN a ELSE b
<1>1. \E x \in {a, b} : \A y \in {a, b} : x <= y
  OBVIOUS
<1>2. Gateway!Min({a, b}) \in {a, b} /\ \A y \in {a, b} : Gateway!Min({a, b}) <= y
  BY <1>1 DEF Gateway!Min
<1>3. QED
  BY <1>2

LEMMA TickStep ==
  ASSUME GatewayInv, Gateway!Tick
  PROVE  GatewayInv'
<1> USE DEF Gateway!Nothing, Gateway!forwarder
<1>1. GatewayTypeOK /\ \A m \in Peers : PeerInv(m)
  BY DEF GatewayInv
<1>2. /\ UNCHANGED <<conn, published, forwarding, pending, sent, republished, mail, pid, known, cached, stale>>
      /\ <<"stale", "gateway">> \notin due
      /\ \A n \in Peers : mail[n] = <<>> /\
           (forwarding[n] => <<"refresh", n>> \notin due /\ (pending[n] = "nothing" \/ rough[n]))
      /\ due' = Gateway!Timers
      /\ received' = [n \in Peers |-> IF cached[n] = "nothing" THEN 0 ELSE Gateway!Min({received[n] + 1, StaleAfter + 1})]
      /\ steady' = [n \in Peers |->
           IF spoke[n] /\ forwarding[n] /\ ~rough[n] THEN Gateway!Min({steady[n] + 1, StaleAfter + 1}) ELSE 0]
      /\ spoke' = [n \in Peers |-> FALSE] /\ rough' = [n \in Peers |-> FALSE]
  BY DEF Gateway!Tick
<1>3. ASSUME NEW n \in Peers
      PROVE  /\ received'[n] = IF cached[n] = "nothing" THEN 0
                               ELSE IF received[n] <= StaleAfter THEN received[n] + 1 ELSE StaleAfter + 1
             /\ steady'[n] = IF spoke[n] /\ forwarding[n] /\ ~rough[n]
                               THEN IF steady[n] <= StaleAfter THEN steady[n] + 1 ELSE StaleAfter + 1 ELSE 0
             /\ received[n] \in Nat /\ steady[n] \in Nat /\ received'[n] \in Nat /\ steady'[n] \in Nat
  <2>1. received[n] + 1 \in Nat /\ steady[n] + 1 \in Nat /\ StaleAfter + 1 \in Nat /\ received[n] \in Nat /\ steady[n] \in Nat
    BY <1>1, LinksAssumption DEF GatewayTypeOK
  <2>2. /\ Gateway!Min({received[n] + 1, StaleAfter + 1}) = IF received[n] <= StaleAfter THEN received[n] + 1 ELSE StaleAfter + 1
        /\ Gateway!Min({steady[n] + 1, StaleAfter + 1}) = IF steady[n] <= StaleAfter THEN steady[n] + 1 ELSE StaleAfter + 1
    <3>1. Gateway!Min({received[n] + 1, StaleAfter + 1}) = IF received[n] + 1 <= StaleAfter + 1 THEN received[n] + 1 ELSE StaleAfter + 1
      BY <2>1, LeastOfTwo
    <3>2. Gateway!Min({steady[n] + 1, StaleAfter + 1}) = IF steady[n] + 1 <= StaleAfter + 1 THEN steady[n] + 1 ELSE StaleAfter + 1
      BY <2>1, LeastOfTwo
    <3>3. (received[n] + 1 <= StaleAfter + 1 <=> received[n] <= StaleAfter) /\ (steady[n] + 1 <= StaleAfter + 1 <=> steady[n] <= StaleAfter)
      BY <2>1, LinksAssumption
    <3>4. QED
      BY <3>1, <3>2, <3>3
  <2>3. QED
    BY <1>2, <2>1, <2>2, LinksAssumption
<1>4. GatewayTypeOK'
  <2>1. received' \in [Peers -> Nat] /\ steady' \in [Peers -> Nat] /\ spoke' \in [Peers -> BOOLEAN] /\ rough' \in [Peers -> BOOLEAN]
    <3>1. \A n \in Peers : received'[n] \in Nat /\ steady'[n] \in Nat
      BY <1>3
    <3>2. QED
      BY <1>2, <3>1
  <2>2. QED
    BY <1>1, <1>2, <2>1 DEF GatewayTypeOK
<1>5. ASSUME NEW n \in Peers PROVE PeerInv(n)'
  <2>1. /\ <<"stale", "gateway">> \in due' /\ <<"refresh", n>> \in due'
        /\ ~spoke'[n] /\ ~rough'[n] /\ mail'[n] = <<>> /\ mail[n] = <<>> /\ DOMAIN mail[n] = {} /\ DOMAIN mail'[n] = {}
    BY <1>2 DEF Gateway!Timers
  <2>2. KnowsForwarder(n)'
    BY <1>1, <1>2 DEF PeerInv, KnowsForwarder
  <2>3. CarriesNewest(n) => CarriesNewest(n)'
    BY <1>2 DEF CarriesNewest, ComesTo
  <2>4. CASE ~(spoke[n] /\ forwarding[n] /\ ~rough[n])
    <3>1. steady'[n] = 0
      BY <1>3, <2>4
    <3>2. AgesRightly(n)'
      BY <1>2, <1>3, <2>1, <3>1 DEF AgesRightly
    <3>3. QED
      BY <1>1, <1>2, <2>2, <2>3, <3>2 DEF PeerInv
  <2>5. CASE spoke[n] /\ forwarding[n] /\ ~rough[n]
    <3>1. ~OnItsWay(n) /\ ~RefreshDue(n)
      BY <1>2, <2>1, <2>5 DEF OnItsWay, RefreshDue
    <3>2. steady'[n] > 0 /\ (steady'[n] = 1 => steady[n] = 0) /\ (steady'[n] > 1 => steady[n] > 0)
      BY <1>3, <2>5, LinksAssumption
    <3>3. \/ republished[n] \/ (received[n] = 0 /\ ~stale[n]) \/ (sent[n] = "nothing" /\ steady[n] = 0)
      BY <1>1, <2>5, <3>1 DEF PeerInv, AgesRightly
    <3>4. steady[n] > 0 => received[n] <= 1 /\ ~stale[n]
      <4>1. CASE steady[n] = 1
        BY <1>1, <2>5, <3>1, <4>1 DEF PeerInv, AgesRightly
      <4>2. CASE steady[n] > 1
        BY <1>1, <2>5, <3>1, <4>2 DEF PeerInv, AgesRightly
      <4>3. QED
        BY <1>3, <4>1, <4>2
    <3>5. received'[n] <= received[n] + 1 /\ (received'[n] > 0 => cached[n] # "nothing")
      BY <1>3, LinksAssumption
    <3>6. republished[n] => RefreshDue(n)'
      BY <1>2, <2>1 DEF RefreshDue
    <3>7. AgesRightly(n)'
      BY <1>2, <1>3, <2>1, <2>5, <3>2, <3>3, <3>4, <3>5, <3>6, LinksAssumption DEF AgesRightly
    <3>8. QED
      BY <1>1, <1>2, <2>2, <2>3, <3>7 DEF PeerInv
  <2>6. QED
    BY <2>4, <2>5
<1>6. QED
  BY <1>4, <1>5 DEF GatewayInv

LEMMA GatewayStep ==
  ASSUME GatewayInv, [Gateway!GatewayNext]_(Gateway!gatewayVars)
  PROVE  GatewayInv'
<1>1. CASE \E n \in Peers : Gateway!Refresh(n) \/ Gateway!Flush(n) \/ Gateway!HandleMail(n) \/ Gateway!Respawn(n)
                            \/ (\E v \in Values : Gateway!Publish(n, v))
                            \/ Gateway!Disconnect(n) \/ Gateway!Connect(n) \/ Gateway!Exit(n)
  BY <1>1, RefreshStep, FlushStep, HandleMailStep, RespawnStep, PublishStep, DisconnectStep, ConnectStep, ExitStep
<1>2. CASE Gateway!CheckStale \/ Gateway!Tick
  BY <1>2, CheckStaleStep, TickStep
<1>3. CASE UNCHANGED Gateway!gatewayVars
  <2>1. UNCHANGED <<conn, published, forwarding, pending, sent, republished, mail, pid, known, cached, received, stale,
                    due, steady, spoke, rough>>
    BY <1>3 DEF Gateway!gatewayVars
  <2>2. GatewayTypeOK'
    BY <2>1 DEF GatewayInv, GatewayTypeOK
  <2>3. \A m \in Peers : PeerInv(m)'
    BY <2>1, Elsewhere DEF GatewayInv
  <2>4. QED
    BY <2>2, <2>3 DEF GatewayInv
<1>4. QED
  BY <1>1, <1>2, <1>3 DEF Gateway!GatewayNext

LEMMA GatewayTrue ==
  ASSUME GatewayInv
  PROVE  Gateway!GatewayIsTrue
<1> USE DEF Gateway!Nothing
<1>1. GatewayTypeOK
  BY DEF GatewayInv
<1>2. SUFFICES ASSUME NEW n \in Peers
               PROVE  /\ forwarding[n] /\ (pending[n] # "nothing" \/ sent[n] # "nothing") => Gateway!Newest(n) = published[n]
                      /\ forwarding[n] /\ (\A i \in DOMAIN mail[n] : mail[n][i].kind \notin {"up", "down"}) => known[n] = {pid[n]}
                      /\ steady[n] > 1 => ~stale[n]
                      /\ received[n] > StaleAfter /\ <<"stale", "gateway">> \notin due => stale[n]
  BY DEF Gateway!GatewayIsTrue
<1>3. PeerInv(n)
  BY DEF GatewayInv
<1>4. ASSUME forwarding[n], pending[n] # "nothing" \/ sent[n] # "nothing" PROVE Gateway!Newest(n) = published[n]
  <2>1. CASE pending[n] # "nothing"
    BY <1>3, <1>4, <2>1 DEF PeerInv, CarriesNewest, Gateway!Newest
  <2>2. CASE pending[n] = "nothing"
    <3> DEFINE q == mail[n]
               S == Gateway!Batches(n)
    <3>1. sent[n] = published[n] /\ ComesTo(q, cached[n], published[n]) /\ q \in Seq(Messages)
      BY <1>1, <1>3, <1>4, <2>2 DEF PeerInv, CarriesNewest, GatewayTypeOK
    <3>2. S = {i \in DOMAIN q : q[i].kind = "batch"}
      BY DEF Gateway!Batches
    <3>3. CASE S = {}
      BY <2>2, <3>1, <3>2, <3>3 DEF ComesTo, Gateway!Newest
    <3>4. CASE S # {}
      <4>1. Len(q) \in Nat /\ S \in SUBSET (1..Len(q)) /\ DOMAIN q = 1..Len(q)
        BY <3>1, <3>2
      <4>2. \E m \in S : \A i \in S : m >= i
        <5>1. PICK m \in S : \A i \in S : i <= m
          BY <3>4, <4>1, GreatestExists
        <5>2. \A i \in S : m >= i
          BY <4>1, <5>1
        <5>3. QED
          BY <5>2
      <4> HIDE DEF S
      <4> DEFINE m == Gateway!Max(S)
      <4>3. m \in S /\ \A i \in S : m >= i
        BY <4>2 DEF Gateway!Max
      <4> HIDE DEF m
      <4>4. m \in DOMAIN q /\ q[m].kind = "batch" /\ \A j \in DOMAIN q : j > m => q[j].kind # "batch"
        <5>1. m \in DOMAIN q /\ q[m].kind = "batch" /\ m \in Int
          BY <3>2, <4>1, <4>3
        <5>2. ASSUME NEW j \in DOMAIN q, j > m PROVE q[j].kind # "batch"
          BY <3>2, <4>1, <4>3, <5>1, <5>2
        <5>3. QED
          BY <5>1, <5>2
      <4>5. q[m].value = published[n]
        BY <3>1, <4>4 DEF ComesTo
      <4>6. QED
        BY <2>2, <3>4, <4>5 DEF Gateway!Newest, S, m
    <3>5. QED
      BY <3>3, <3>4
  <2>3. QED
    BY <2>1, <2>2
<1>5. QED
  BY <1>3, <1>4 DEF PeerInv, KnowsForwarder, AgesRightly

-----------------------------------------------------------------------------
(* The drive *)

\* A planner, a hand and a control level, whatever they do, and processes that
\* crash whenever they do.
Drive == INSTANCE PlannerDrive WITH Velocities <- Int, HandRequests <- Int, Gears <- {"drive", "neutral", "reverse"},
  Levels <- {"none", "hand", "ros"}, Crashing <- {"bridge", "ros", "motor"},
  MaxDisruptions <- MaxCrashes + MaxSwitches, disruptions <- crashes, stale <- lost, due <- loops

RosAmounts == {Drive!Zero} \cup [of : {"ros"}, value : Int, age : Nat]
Amounts == RosAmounts \cup [of : {"hand"}, value : Int, age : Nat]
SourceNames == {"none", "hand", "ros"}
CommandFrames == {"none", "set_current", "set_duty", "set_rpm", "set_current_brake"}
Ticks == Nat \cup {-1}

BridgeTypeOK ==
  /\ bridgeUp \in BOOLEAN /\ inputStale \in BOOLEAN
  /\ frame \in [sample : RosAmounts, sequence : Nat]
  /\ orphaned \in Nat /\ seen \in Ticks
VmsTypeOK ==
  /\ lost \in BOOLEAN /\ linear \in RosAmounts
  /\ observed \in Ticks /\ freshFor \in Ticks
MotorTypeOK ==
  /\ since \in Nat /\ request \in Amounts
  /\ level \in SourceNames /\ source \in SourceNames
  /\ command \in [frame : CommandFrames, amount : Amounts]
DriveTypeOK == BridgeTypeOK /\ VmsTypeOK /\ MotorTypeOK /\ crashes \in Nat

\* A request of another source than the one in force is replaced by the next
\* loop of that one, and the command by the motor's next.
SourceInForce ==
  /\ source = "none" => request = Drive!Zero
  /\ request # Drive!Zero /\ request.of # source => since = 0 \/ (since = 1 /\ source \in loops)
  /\ command.amount # Drive!Zero /\ command.amount.of # source => since <= 1 \/ (since = 2 /\ "motor" \in loops)
  /\ enabled = {command.frame} \ {"none"}

\* The bridge's watchdog: a sample is as old as the watchdog thinks at most,
\* and the watchdog, which may not have looked since it came, will look in time.
Sampled ==
  frame.sample # Drive!Zero =>
    /\ frame.sample.age <= BridgeTimeout + 1
    /\ bridgeUp => /\ seen >= frame.sample.age /\ seen <= BridgeTimeout + 1
                   /\ inputStale => seen = 0 \/ (seen = 1 /\ "bridge" \in loops)
                   /\ seen = BridgeTimeout + 1 => "bridge" \in loops

\* The VMS's.
Followed ==
  /\ freshFor = -1 <=> observed = -1
  /\ linear # Drive!Zero =>
       /\ freshFor >= 0 /\ freshFor <= Timeout + 1
       /\ linear.age <= BridgeTimeout + 1 + freshFor
       /\ lost => freshFor = 0 \/ (freshFor = 1 /\ "ros" \in loops)
       /\ freshFor = Timeout + 1 => "ros" \in loops

\* A bridge that is down has been so for no longer than its last frame has
\* been followed.
Orphaned ==
  /\ bridgeUp => orphaned = 0
  /\ orphaned > 0 => observed = frame.sequence /\ (freshFor >= orphaned \/ freshFor = Timeout + 1)

\* Each loop that passes a velocity on lets it grow one period older.
PassedOn ==
  /\ level # "hand" /\ source # "hand" /\ request \in RosAmounts /\ command.amount \in RosAmounts
  /\ request # Drive!Zero =>
       /\ request.age <= BridgeTimeout + Timeout + 2 /\ orphaned <= Timeout + 1
       /\ "ros" \notin loops => request.age <= BridgeTimeout + Timeout + 1 /\ orphaned <= Timeout
  /\ command.amount # Drive!Zero =>
       /\ command.amount.age <= BridgeTimeout + Timeout + 3 /\ orphaned <= Timeout + 2
       /\ "motor" \notin loops => command.amount.age <= BridgeTimeout + Timeout + 2 /\ orphaned <= Timeout + 1

NoPlanner == frame.sample = Drive!Zero /\ linear = Drive!Zero /\ request.of # "ros" /\ command.amount.of # "ros"

SwitchInv == DriveTypeOK /\ SourceInForce /\ NoPlanner
LinkInv == DriveTypeOK /\ SourceInForce /\ Sampled /\ Followed /\ Orphaned
PlannerInv == LinkInv /\ PassedOn

LEMMA LeastAge ==
  ASSUME NEW a \in Nat, NEW b \in Nat
  PROVE  Drive!Min({a, b}) = IF a <= b THEN a ELSE b
<1>1. \E x \in {a, b} : \A y \in {a, b} : x <= y
  OBVIOUS
<1>2. Drive!Min({a, b}) \in {a, b} /\ \A y \in {a, b} : Drive!Min({a, b}) <= y
  BY <1>1 DEF Drive!Min
<1>3. QED
  BY <1>2

LEMMA ZeroIs ==
  /\ Drive!Zero \in RosAmounts /\ Drive!Zero \in Amounts
  /\ Drive!Zero.of = "none" /\ Drive!Zero.value = 0 /\ Drive!Zero.age = 0
  /\ \A x \in Amounts : x # Drive!Zero => x.of \in {"hand", "ros"}
BY DEF Drive!Zero, RosAmounts, Amounts

LEMMA OlderIs ==
  ASSUME NEW x \in Amounts
  PROVE  /\ Drive!Older(x) \in Amounts /\ (x \in RosAmounts => Drive!Older(x) \in RosAmounts)
         /\ Drive!Older(x) = Drive!Zero <=> x = Drive!Zero
         /\ Drive!Older(x).of = x.of /\ Drive!Older(x).age <= x.age + 1 /\ x.age \in Nat
<1>1. CASE x = Drive!Zero
  BY <1>1, ZeroIs DEF Drive!Older
<1>2. CASE x # Drive!Zero
  <2>1. x \in [of : {"ros", "hand"}, value : Int, age : Nat]
    BY <1>2 DEF Amounts, RosAmounts
  <2>2. /\ x.age + 1 \in Nat /\ Drive!Bound + 1 \in Nat
    BY <2>1, LinksAssumption DEF Drive!Bound
  <2> DEFINE older == Drive!Min({x.age + 1, Drive!Bound + 1})
  <2>3. older \in Nat /\ older <= x.age + 1
    BY <2>2, LeastAge
  <2>4. Drive!Older(x) = [x EXCEPT !.age = older]
    BY <1>2 DEF Drive!Older
  <2> HIDE DEF older
  <2>5. Drive!Older(x) = [of |-> x.of, value |-> x.value, age |-> older]
    BY <2>1, <2>4
  <2>6. Drive!Older(x).of # "none"
    BY <2>1, <2>5
  <2>7. Drive!Older(x) # Drive!Zero
    BY <2>6, ZeroIs
  <2>8. Drive!Older(x) \in Amounts
    BY <2>1, <2>3, <2>5 DEF Amounts, RosAmounts
  <2>9. ASSUME x \in RosAmounts PROVE Drive!Older(x) \in RosAmounts
    BY <1>2, <2>3, <2>5, <2>9 DEF RosAmounts
  <2>10. QED
    BY <1>2, <2>1, <2>3, <2>5, <2>7, <2>8, <2>9
<1>3. QED
  BY <1>1, <1>2

LEMMA LaterIs ==
  ASSUME NEW t \in Ticks, NEW limit \in Nat
  PROVE  /\ Drive!Later(t, limit) \in Ticks
         /\ t = -1 => Drive!Later(t, limit) = -1
         /\ t # -1 => Drive!Later(t, limit) = IF t + 1 <= limit THEN t + 1 ELSE limit
<1>1. CASE t = -1
  BY <1>1 DEF Drive!Later, Drive!Never, Ticks
<1>2. CASE t # -1
  <2>1. t + 1 \in Nat
    BY <1>2 DEF Ticks
  <2>2. Drive!Later(t, limit) = Drive!Min({t + 1, limit})
    BY <1>2 DEF Drive!Later, Drive!Never
  <2>3. QED
    BY <1>2, <2>1, <2>2, LeastAge DEF Ticks
<1>3. QED
  BY <1>1, <1>2

LEMMA AmountIs ==
  ASSUME NEW v \in Int
  PROVE  /\ Drive!Amount("ros", v) \in RosAmounts /\ Drive!Amount("ros", v).age = 0
         /\ Drive!Amount("hand", v) \in Amounts
         /\ Drive!Amount("hand", v) # Drive!Zero => Drive!Amount("hand", v).of = "hand"
         /\ Drive!Amount("hand", v).of # "ros"
BY ZeroIs DEF Drive!Amount, RosAmounts, Amounts

\* What the motor is told is to stop, or what was requested.
LEMMA CommandIs ==
  ASSUME MotorTypeOK
  PROVE  /\ Drive!Command \in [frame : CommandFrames, amount : Amounts]
         /\ Drive!Command.frame # "none"
         /\ Drive!Command.amount # Drive!Zero =>
              Drive!Command.amount.of = request.of /\ Drive!Command.amount.age = request.age /\ request # Drive!Zero
         /\ Drive!Command.amount.of # "none" => Drive!Command.amount # Drive!Zero
         /\ source # "hand" => Drive!Command.amount \in {Drive!Zero, request}
<1>1. /\ Drive!Release \in [frame : CommandFrames, amount : Amounts] /\ Drive!Release.frame # "none"
      /\ Drive!Release.amount = Drive!Zero
  BY ZeroIs DEF Drive!Release, CommandFrames
<1>2. request \in Amounts /\ source \in SourceNames
  BY DEF MotorTypeOK
<1>3. request.value \in Int
  BY <1>2 DEF Amounts, RosAmounts, Drive!Zero
<1>4. CASE source = "none"
  BY <1>1, <1>4, ZeroIs DEF Drive!Command
<1>5. CASE source = "ros"
  <2>1. Drive!Command = [frame |-> IF request = Drive!Zero THEN "set_duty" ELSE "set_rpm", amount |-> request]
    BY <1>5 DEF Drive!Command
  <2>2. QED
    BY <1>2, <1>5, <2>1, ZeroIs DEF CommandFrames
<1>6. CASE source = "hand" /\ request.value < 0
  <2>1. Drive!Command = [frame |-> "set_current_brake", amount |-> [request EXCEPT !.value = -@]]
    BY <1>3, <1>6 DEF Drive!Command
  <2>2. request # Drive!Zero
    BY <1>6, ZeroIs
  <2>3. request \in [of : {"ros", "hand"}, value : Int, age : Nat]
    BY <1>2, <2>2 DEF Amounts, RosAmounts
  <2>4. Drive!Command.amount = [of |-> request.of, value |-> -request.value, age |-> request.age]
    BY <2>1, <2>3
  <2>5. Drive!Command.amount \in Amounts
    BY <2>3, <2>4 DEF Amounts, RosAmounts
  <2>6. QED
    BY <1>6, <2>1, <2>2, <2>4, <2>5, ZeroIs DEF CommandFrames
<1>7. CASE source = "hand" /\ request.value >= 0
  <2>1. Drive!Command = IF gear \notin {"drive", "reverse"} \/ request = Drive!Zero THEN Drive!Release
                        ELSE [frame |-> "set_duty",
                              amount |-> [request EXCEPT !.value = IF gear = "drive" THEN @ ELSE -@]]
    BY <1>3, <1>7 DEF Drive!Command
  <2>2. CASE gear \notin {"drive", "reverse"} \/ request = Drive!Zero
    BY <1>1, <1>7, <2>1, <2>2, ZeroIs
  <2>3. CASE ~(gear \notin {"drive", "reverse"} \/ request = Drive!Zero)
    <3>1. request \in [of : {"ros", "hand"}, value : Int, age : Nat]
      BY <1>2, <2>3 DEF Amounts, RosAmounts
    <3> DEFINE v == IF gear = "drive" THEN request.value ELSE -request.value
    <3>2. v \in Int /\ Drive!Command = [frame |-> "set_duty", amount |-> [request EXCEPT !.value = v]]
      BY <1>3, <2>1, <2>3
    <3> HIDE DEF v
    <3>3. Drive!Command.amount = [of |-> request.of, value |-> v, age |-> request.age]
      BY <3>1, <3>2
    <3>4. Drive!Command.amount \in Amounts
      BY <3>1, <3>2, <3>3 DEF Amounts, RosAmounts
    <3>5. QED
      BY <1>7, <2>3, <3>2, <3>3, <3>4, ZeroIs DEF CommandFrames
  <2>4. QED
    BY <2>2, <2>3
<1>8. QED
  BY <1>2, <1>3, <1>4, <1>5, <1>6, <1>7 DEF SourceNames

LEMMA DriveTyped ==
  ASSUME DriveTypeOK, Drive!DriveNext \/ UNCHANGED Drive!driveVars
  PROVE  DriveTypeOK'
<1> USE DEF Drive!bridge, Drive!watchdog, Drive!vms, Drive!freshness, Drive!motor
<1>1. BridgeTypeOK /\ VmsTypeOK /\ MotorTypeOK /\ crashes \in Nat
  BY DEF DriveTypeOK
<1>2. Drive!Zero \in RosAmounts /\ Drive!Zero \in Amounts /\ RosAmounts \subseteq Amounts /\ Drive!Never = -1
  BY ZeroIs DEF Amounts, Drive!Never
<1>3. Drive!Disrupted => crashes' \in Nat
  BY <1>1 DEF Drive!Disrupted
<1>4. Drive!NextSequence \in Nat
  BY <1>1, LinksAssumption DEF Drive!NextSequence, BridgeTypeOK
<1>5. ASSUME NEW x \in RosAmounts, Drive!EmitNew(x) PROVE frame' \in [sample : RosAmounts, sequence : Nat]
  BY <1>4, <1>5 DEF Drive!EmitNew
<1>6. CASE Drive!CheckInput
  <2>1. frame' \in [sample : RosAmounts, sequence : Nat]
    <3>1. CASE UNCHANGED frame
      BY <1>1, <3>1 DEF BridgeTypeOK
    <3>2. QED
      BY <1>2, <1>5, <1>6, <3>1 DEF Drive!CheckInput
  <2>2. inputStale' \in BOOLEAN
    BY <1>6 DEF Drive!CheckInput
  <2>3. QED
    BY <1>1, <1>6, <2>1, <2>2 DEF Drive!CheckInput, DriveTypeOK, BridgeTypeOK, VmsTypeOK, MotorTypeOK
<1>7. CASE Drive!Observe
  BY <1>1, <1>7 DEF Drive!Observe, DriveTypeOK, BridgeTypeOK, VmsTypeOK, MotorTypeOK, Ticks
<1>8. CASE Drive!RosLoop
  <2>1. lost' \in BOOLEAN /\ linear' \in {linear, Drive!Zero} /\ request' \in {request, linear'}
    BY <1>1, <1>8 DEF Drive!RosLoop, VmsTypeOK
  <2>2. UNCHANGED <<bridgeUp, inputStale, frame, orphaned, seen, observed, freshFor, since, level, source, command, crashes>>
    BY <1>8 DEF Drive!RosLoop
  <2>3. BridgeTypeOK' /\ VmsTypeOK'
    BY <1>1, <1>2, <2>1, <2>2 DEF BridgeTypeOK, VmsTypeOK
  <2>4. request' \in Amounts
    BY <1>1, <1>2, <2>1, <2>3 DEF VmsTypeOK, MotorTypeOK
  <2>5. QED
    BY <1>1, <2>2, <2>3, <2>4 DEF DriveTypeOK, MotorTypeOK
<1>9. CASE Drive!HandLoop
  <2>1. request' \in Amounts
    BY <1>9, AmountIs DEF Drive!HandLoop
  <2>2. QED
    BY <1>1, <1>9, <2>1 DEF Drive!HandLoop, DriveTypeOK, BridgeTypeOK, VmsTypeOK, MotorTypeOK
<1>10. CASE Drive!NameSource
  <2>1. level' \in SourceNames /\ source' \in SourceNames /\ request' \in {request, Drive!Zero} /\ since' = 0 /\ crashes' \in Nat
    BY <1>1, <1>3, <1>10 DEF Drive!NameSource, MotorTypeOK, SourceNames
  <2>2. QED
    BY <1>1, <1>2, <1>10, <2>1 DEF Drive!NameSource, DriveTypeOK, BridgeTypeOK, VmsTypeOK, MotorTypeOK
<1>11. CASE Drive!MotorLoop
  <2>1. Drive!Command \in [frame : CommandFrames, amount : Amounts]
    BY <1>1, CommandIs
  <2>2. QED
    BY <1>1, <1>11, <2>1 DEF Drive!MotorLoop, DriveTypeOK, BridgeTypeOK, VmsTypeOK, MotorTypeOK
<1>12. CASE Drive!Tick
  <2>1. /\ frame' = [frame EXCEPT !.sample = IF bridgeUp THEN Drive!Older(@) ELSE @]
        /\ orphaned' = (IF bridgeUp \/ observed # frame.sequence THEN 0 ELSE Drive!Min({orphaned + 1, Timeout + 3}))
        /\ linear' = Drive!Older(linear) /\ request' = Drive!Older(request)
        /\ command' = [command EXCEPT !.amount = Drive!Older(@)]
        /\ seen' = Drive!Later(seen, BridgeTimeout + 1) /\ freshFor' = Drive!Later(freshFor, Timeout + 1)
        /\ since' = Drive!Min({since + 1, 3})
        /\ UNCHANGED <<bridgeUp, inputStale, observed, lost, level, source, crashes>>
    BY <1>12 DEF Drive!Tick
  <2>2. BridgeTimeout + 1 \in Nat /\ Timeout + 1 \in Nat /\ Timeout + 3 \in Nat /\ orphaned + 1 \in Nat /\ since + 1 \in Nat
    BY <1>1, LinksAssumption DEF BridgeTypeOK, MotorTypeOK
  <2>3. orphaned' \in Nat /\ since' \in Nat
    <3>1. Drive!Min({orphaned + 1, Timeout + 3}) \in Nat /\ Drive!Min({since + 1, 3}) \in Nat
      BY <2>2, LeastAge
    <3>2. QED
      BY <2>1, <3>1
  <2>4. seen' \in Ticks /\ freshFor' \in Ticks
    BY <1>1, <2>1, <2>2, LaterIs DEF BridgeTypeOK, VmsTypeOK
  <2>5. linear' \in RosAmounts /\ request' \in Amounts
    BY <1>1, <1>2, <2>1, OlderIs DEF VmsTypeOK, MotorTypeOK
  <2>6. frame' \in [sample : RosAmounts, sequence : Nat]
    <3>1. frame.sample \in RosAmounts /\ Drive!Older(frame.sample) \in RosAmounts
      BY <1>1, <1>2, OlderIs DEF BridgeTypeOK
    <3>2. QED
      BY <1>1, <2>1, <3>1 DEF BridgeTypeOK
  <2>7. command' \in [frame : CommandFrames, amount : Amounts]
    <3>1. Drive!Older(command.amount) \in Amounts
      BY <1>1, OlderIs DEF MotorTypeOK
    <3>2. QED
      BY <1>1, <2>1, <3>1 DEF MotorTypeOK
  <2>8. QED
    BY <1>1, <2>1, <2>3, <2>4, <2>5, <2>6, <2>7 DEF DriveTypeOK, BridgeTypeOK, VmsTypeOK, MotorTypeOK
<1>13. CASE Drive!BridgeDies
  BY <1>1, <1>3, <1>13 DEF Drive!BridgeDies, DriveTypeOK, BridgeTypeOK, VmsTypeOK, MotorTypeOK
<1>14. CASE Drive!BridgeStarts
  BY <1>1, <1>2, <1>14 DEF Drive!BridgeStarts, DriveTypeOK, BridgeTypeOK, VmsTypeOK, MotorTypeOK, Ticks
<1>15. CASE Drive!RestartRos
  BY <1>1, <1>2, <1>3, <1>15 DEF Drive!RestartRos, DriveTypeOK, BridgeTypeOK, VmsTypeOK, MotorTypeOK, Ticks
<1>16. CASE Drive!RestartMotor
  BY <1>1, <1>2, <1>3, <1>16 DEF Drive!RestartMotor, DriveTypeOK, BridgeTypeOK, VmsTypeOK, MotorTypeOK, SourceNames,
                                   Drive!NoCommand, CommandFrames
<1>17. ASSUME NEW v \in Int, Drive!Sample(v) PROVE DriveTypeOK'
  <2>1. frame' \in [sample : RosAmounts, sequence : Nat]
    BY <1>5, <1>17, AmountIs DEF Drive!Sample
  <2>2. QED
    BY <1>1, <1>17, <2>1 DEF Drive!Sample, DriveTypeOK, BridgeTypeOK, VmsTypeOK, MotorTypeOK, Ticks
<1>18. CASE (\E g \in {"drive", "neutral", "reverse"} : Drive!SelectGear(g)) \/ UNCHANGED Drive!driveVars
  BY <1>1, <1>18 DEF Drive!SelectGear, Drive!driveVars, DriveTypeOK, BridgeTypeOK, VmsTypeOK, MotorTypeOK
<1>19. QED
  BY <1>6, <1>7, <1>8, <1>9, <1>10, <1>11, <1>12, <1>13, <1>14, <1>15, <1>16, <1>17, <1>18 DEF Drive!DriveNext

LEMMA SourceStep ==
  ASSUME DriveTypeOK, SourceInForce, Drive!DriveNext \/ UNCHANGED Drive!driveVars
  PROVE  SourceInForce'
<1> USE DEF Drive!bridge, Drive!watchdog, Drive!vms, Drive!freshness, Drive!motor
<1>1. MotorTypeOK /\ VmsTypeOK
  BY DEF DriveTypeOK
<1>2. /\ since \in Nat /\ request \in Amounts /\ source \in SourceNames /\ command \in [frame : CommandFrames, amount : Amounts]
      /\ "none" \notin {"hand", "ros"}
  BY <1>1 DEF MotorTypeOK
<1>3. CASE Drive!CheckInput \/ Drive!Observe \/ Drive!BridgeDies \/ Drive!BridgeStarts \/ Drive!RestartRos
           \/ (\E v \in Int : Drive!Sample(v)) \/ (\E g \in {"drive", "neutral", "reverse"} : Drive!SelectGear(g))
           \/ UNCHANGED Drive!driveVars
  <2>1. /\ UNCHANGED <<source, request, command, enabled, since>>
        /\ loops' = loops \/ loops' = loops \ {"bridge"}
    BY <1>3 DEF Drive!CheckInput, Drive!Observe, Drive!BridgeDies, Drive!BridgeStarts, Drive!RestartRos, Drive!Sample,
                Drive!SelectGear, Drive!driveVars, Drive!Loop
  <2>2. (source \in loops => source \in loops') /\ ("motor" \in loops => "motor" \in loops')
    BY <1>2, <2>1 DEF SourceNames
  <2>3. QED
    BY <2>1, <2>2 DEF SourceInForce
<1>4. CASE Drive!RosLoop
  <2>1. /\ UNCHANGED <<source, command, enabled, since>> /\ loops' = loops \ {"ros"}
        /\ linear' \in {linear, Drive!Zero} /\ request' = IF source = "ros" THEN linear' ELSE request
    BY <1>4 DEF Drive!RosLoop, Drive!Loop
  <2>2. linear' \in RosAmounts
    BY <1>1, <2>1, ZeroIs DEF VmsTypeOK
  <2>3. source = "ros" => request' = Drive!Zero \/ request'.of = source
    BY <2>1, <2>2 DEF RosAmounts
  <2>4. source # "ros" => request' = request /\ (source \in loops => source \in loops')
    BY <2>1
  <2>5. source = "none" => request' = Drive!Zero
    BY <2>4 DEF SourceInForce
  <2>6. QED
    BY <2>1, <2>3, <2>4, <2>5 DEF SourceInForce
<1>5. CASE Drive!HandLoop
  <2>1. /\ UNCHANGED <<source, command, enabled, since>> /\ loops' = loops \ {"hand"} /\ source = "hand"
        /\ \E v \in Int : request' = Drive!Amount("hand", v)
    BY <1>5 DEF Drive!HandLoop, Drive!Loop
  <2>2. request' = Drive!Zero \/ request'.of = source
    BY <2>1, AmountIs
  <2>3. QED
    BY <2>1, <2>2 DEF SourceInForce
<1>6. CASE Drive!NameSource
  <2>1. /\ UNCHANGED <<command, enabled>> /\ since' = 0 /\ source' = level'
        /\ request' = IF source' = "none" THEN Drive!Zero ELSE request
    BY <1>6 DEF Drive!NameSource
  <2>2. QED
    BY <2>1 DEF SourceInForce
<1>7. CASE Drive!MotorLoop
  <2>1. /\ UNCHANGED <<source, request, since>> /\ loops' = loops \ {"motor"} /\ command' = Drive!Command
        /\ enabled' = IF Drive!Command.frame = command.frame THEN enabled
                      ELSE (enabled \ {command.frame}) \cup {Drive!Command.frame}
    BY <1>7 DEF Drive!MotorLoop, Drive!Loop
  <2>2. source \in loops => source \in loops'
    BY <1>2, <2>1 DEF SourceNames
  <2>3. enabled' = {command'.frame} \ {"none"}
    BY <1>1, <2>1, CommandIs DEF SourceInForce
  <2>4. command'.amount # Drive!Zero => command'.amount.of = request.of /\ request # Drive!Zero
    BY <1>1, <2>1, CommandIs
  <2>5. request # Drive!Zero /\ request.of # source => since <= 1
    BY <1>2 DEF SourceInForce
  <2>6. QED
    BY <2>1, <2>2, <2>3, <2>4, <2>5 DEF SourceInForce
<1>8. CASE Drive!RestartMotor
  BY <1>8 DEF Drive!RestartMotor, Drive!NoCommand, SourceInForce
<1>9. CASE Drive!Tick
  <2>1. /\ UNCHANGED <<source, enabled>> /\ loops' = Drive!Loops
        /\ request' = Drive!Older(request) /\ command' = [command EXCEPT !.amount = Drive!Older(@)]
        /\ since' = Drive!Min({since + 1, 3})
        /\ \A l \in loops : (l = "hand" /\ source # "hand") \/ (l = "bridge" /\ ~bridgeUp)
    BY <1>9 DEF Drive!Tick
  <2>2. /\ (request' = Drive!Zero <=> request = Drive!Zero) /\ request'.of = request.of
        /\ Drive!Older(command.amount) = Drive!Zero <=> command.amount = Drive!Zero
        /\ Drive!Older(command.amount).of = command.amount.of
    BY <1>2, <2>1, OlderIs
  <2>3. command'.frame = command.frame /\ command'.amount = Drive!Older(command.amount)
    BY <1>2, <2>1
  <2>4. since' = IF since + 1 <= 3 THEN since + 1 ELSE 3
    <3>1. since + 1 \in Nat /\ 3 \in Nat
      BY <1>2
    <3>2. Drive!Min({since + 1, 3}) = IF since + 1 <= 3 THEN since + 1 ELSE 3
      BY <3>1, LeastAge
    <3>3. QED
      BY <2>1, <3>2
  <2>5. "motor" \notin loops /\ (source \in {"hand", "ros"} => source \notin loops)
    BY <2>1
  <2>6. "motor" \in loops' /\ (source \in {"hand", "ros"} => source \in loops')
    BY <2>1 DEF Drive!Loops
  <2>7. source = "none" => request' = Drive!Zero
    BY <2>2 DEF SourceInForce
  <2>8. request' # Drive!Zero /\ request'.of # source => since' = 1 /\ source \in loops'
    BY <1>2, <2>2, <2>4, <2>5, <2>6 DEF SourceInForce, SourceNames
  <2>9. command'.amount # Drive!Zero /\ command'.amount.of # source => since' <= 2 /\ (since' = 2 => "motor" \in loops')
    BY <1>2, <2>2, <2>3, <2>4, <2>5, <2>6 DEF SourceInForce
  <2>10. since' \in Nat
    BY <1>2, <2>4
  <2>11. QED
    BY <2>1, <2>3, <2>7, <2>8, <2>9, <2>10 DEF SourceInForce
<1>10. QED
  BY <1>3, <1>4, <1>5, <1>6, <1>7, <1>8, <1>9 DEF Drive!DriveNext

LEMMA SampledStep ==
  ASSUME DriveTypeOK, Sampled, Drive!DriveNext \/ UNCHANGED Drive!driveVars
  PROVE  Sampled'
<1> USE DEF Drive!bridge, Drive!watchdog, Drive!vms, Drive!freshness, Drive!motor
<1>1. /\ bridgeUp \in BOOLEAN /\ inputStale \in BOOLEAN /\ seen \in Ticks /\ frame.sample \in RosAmounts
      /\ frame \in [sample : RosAmounts, sequence : Nat]
      /\ BridgeTimeout \in Nat \ {0} /\ Timeout \in Nat /\ Drive!Never = -1
  BY LinksAssumption DEF DriveTypeOK, BridgeTypeOK, Drive!Never
<1>2. frame.sample.age \in Nat
  BY <1>1 DEF RosAmounts, Drive!Zero
<1>3. CASE Drive!Observe \/ Drive!RosLoop \/ Drive!HandLoop \/ Drive!NameSource \/ Drive!MotorLoop \/ Drive!RestartRos
           \/ Drive!RestartMotor \/ (\E g \in {"drive", "neutral", "reverse"} : Drive!SelectGear(g))
           \/ UNCHANGED Drive!driveVars
  <2>1. /\ UNCHANGED <<bridgeUp, frame, seen, inputStale>>
        /\ \E l \in {"none", "ros", "hand", "motor"} : loops' = loops \ {l} \/ loops' = loops
    BY <1>3 DEF Drive!Observe, Drive!RosLoop, Drive!HandLoop, Drive!NameSource, Drive!MotorLoop, Drive!RestartRos,
                Drive!RestartMotor, Drive!SelectGear, Drive!driveVars, Drive!Loop
  <2>2. "bridge" \in loops => "bridge" \in loops'
    BY <2>1
  <2>3. QED
    BY <2>1, <2>2 DEF Sampled
<1>4. CASE Drive!CheckInput
  <2> DEFINE expired == seen = -1 \/ seen > BridgeTimeout
             fresh == ~expired /\ (inputStale \/ ~inputReported)
             silent == seen = -1 /\ ~inputReported /\ created > Drive!Max({BridgeTimeout, Grace})
             late == expired /\ ~inputStale
  <2>1. /\ bridgeUp /\ UNCHANGED <<bridgeUp, seen>>
        /\ inputStale' = (~fresh /\ (silent \/ late \/ inputStale))
        /\ IF silent \/ late THEN Drive!EmitNew(Drive!Zero) ELSE UNCHANGED frame
    BY <1>1, <1>4 DEF Drive!CheckInput, Drive!InputExpired
  <2>2. SUFFICES ASSUME frame'.sample # Drive!Zero
                 PROVE  /\ frame'.sample.age <= BridgeTimeout + 1
                        /\ seen >= frame'.sample.age /\ seen <= BridgeTimeout + 1
                        /\ ~inputStale' /\ seen # BridgeTimeout + 1
    BY <2>1 DEF Sampled
  <2>3. ~silent /\ ~late
    BY <2>1, <2>2 DEF Drive!EmitNew
  <2>4. frame' = frame
    BY <2>1, <2>3
  <2>5. /\ frame.sample.age <= BridgeTimeout + 1 /\ seen >= frame.sample.age /\ seen <= BridgeTimeout + 1
        /\ inputStale => seen = 0 \/ seen = 1
    BY <2>1, <2>2, <2>4 DEF Sampled
  <2>6. ~expired
    BY <1>1, <1>2, <2>3, <2>5
  <2>7. ~inputStale'
    BY <2>1, <2>3, <2>6
  <2>8. seen # BridgeTimeout + 1
    BY <1>1, <2>6
  <2>9. QED
    BY <2>4, <2>5, <2>7, <2>8
<1>5. CASE Drive!BridgeDies
  BY <1>1, <1>5 DEF Drive!BridgeDies, Sampled
<1>6. CASE Drive!BridgeStarts
  <2>1. frame'.sample = Drive!Zero
    BY <1>6 DEF Drive!BridgeStarts
  <2>2. QED
    BY <2>1 DEF Sampled
<1>7. ASSUME NEW v \in Int, Drive!Sample(v) PROVE Sampled'
  <2>1. frame'.sample = Drive!Amount("ros", v) /\ seen' = 0
    BY <1>7 DEF Drive!Sample, Drive!EmitNew
  <2>2. frame'.sample.age = 0
    BY <2>1, AmountIs
  <2>3. QED
    BY <1>1, <2>1, <2>2 DEF Sampled
<1>8. CASE Drive!Tick
  <2>1. /\ frame' = [frame EXCEPT !.sample = IF bridgeUp THEN Drive!Older(@) ELSE @]
        /\ seen' = Drive!Later(seen, BridgeTimeout + 1) /\ loops' = Drive!Loops
        /\ UNCHANGED <<bridgeUp, inputStale>>
        /\ \A l \in loops : (l = "hand" /\ source # "hand") \/ (l = "bridge" /\ ~bridgeUp)
    BY <1>8 DEF Drive!Tick
  <2>2. /\ frame'.sample = IF bridgeUp THEN Drive!Older(frame.sample) ELSE frame.sample
        /\ "bridge" \in loops'
        /\ bridgeUp => "bridge" \notin loops
    BY <1>1, <2>1 DEF Drive!Loops
  <2>3. /\ (Drive!Older(frame.sample) = Drive!Zero <=> frame.sample = Drive!Zero)
        /\ Drive!Older(frame.sample).age <= frame.sample.age + 1
        /\ Drive!Older(frame.sample).age \in Nat
    <3>1. frame.sample \in Amounts /\ Drive!Older(frame.sample) \in RosAmounts
      BY <1>1, OlderIs DEF Amounts
    <3>2. Drive!Older(frame.sample).age \in Nat
      BY <3>1 DEF RosAmounts, Drive!Zero
    <3>3. QED
      BY <3>1, <3>2, OlderIs
  <2>4. SUFFICES ASSUME frame'.sample # Drive!Zero
                 PROVE  /\ frame'.sample.age <= BridgeTimeout + 1
                        /\ bridgeUp => /\ seen' >= frame'.sample.age /\ seen' <= BridgeTimeout + 1
                                       /\ inputStale => seen' = 1
    BY <2>1, <2>2 DEF Sampled
  <2>5. frame.sample # Drive!Zero
    BY <2>2, <2>3, <2>4
  <2>6. CASE ~bridgeUp
    BY <2>2, <2>5, <2>6 DEF Sampled
  <2>7. CASE bridgeUp
    <3>1. /\ seen >= frame.sample.age /\ seen <= BridgeTimeout + 1 /\ seen # BridgeTimeout + 1
          /\ inputStale => seen = 0
      BY <2>2, <2>5, <2>7 DEF Sampled
    <3>2. seen # -1 /\ seen \in Nat /\ seen + 1 <= BridgeTimeout + 1
      BY <1>1, <1>2, <3>1 DEF Ticks
    <3>3. seen' = seen + 1
      BY <1>1, <2>1, <3>2, LaterIs
    <3>4. QED
      BY <1>1, <1>2, <2>2, <2>3, <2>7, <3>1, <3>2, <3>3
  <2>8. QED
    BY <2>6, <2>7
<1>9. QED
  BY <1>3, <1>4, <1>5, <1>6, <1>7, <1>8 DEF Drive!DriveNext

\* A loop of the VMS drops a velocity it has followed for as long as it may.
LEMMA VelocityDropped ==
  ASSUME DriveTypeOK, Followed, Drive!RosLoop, linear' # Drive!Zero
  PROVE  /\ linear' = linear /\ ~lost' /\ freshFor >= 0 /\ freshFor <= Timeout
         /\ linear.age <= BridgeTimeout + 1 + freshFor /\ freshFor \in Nat
<1> DEFINE expired == Drive!Expired
           fresh == ~expired /\ lost /\ freshFor # -1
           late == expired /\ (~lost \/ ~reported)
<1>1. /\ lost' = (IF fresh THEN FALSE ELSE late \/ lost)
      /\ linear' = IF late THEN Drive!Zero ELSE linear
  BY DEF Drive!RosLoop, Drive!Never
<1>2. ~late /\ linear' = linear /\ linear # Drive!Zero
  BY <1>1
<1>3. /\ freshFor >= 0 /\ freshFor <= Timeout + 1 /\ linear.age <= BridgeTimeout + 1 + freshFor
      /\ lost => freshFor = 0 \/ freshFor = 1
  BY <1>2 DEF Followed
<1>4. freshFor \in Nat /\ Timeout \in Nat \ {0} /\ lost \in BOOLEAN
  BY <1>3, LinksAssumption DEF DriveTypeOK, VmsTypeOK, Ticks
<1>5. expired <=> freshFor > Timeout
  BY <1>4 DEF Drive!Expired, Drive!Never
<1>6. ~expired
  BY <1>2, <1>3, <1>4, <1>5
<1>7. ~lost'
  BY <1>1, <1>2, <1>4, <1>6
<1>8. QED
  BY <1>2, <1>3, <1>4, <1>5, <1>6, <1>7

LEMMA FollowedStep ==
  ASSUME DriveTypeOK, Sampled, Followed, Drive!DriveNext \/ UNCHANGED Drive!driveVars
  PROVE  Followed'
<1> USE DEF Drive!bridge, Drive!watchdog, Drive!vms, Drive!freshness, Drive!motor
<1>1. /\ lost \in BOOLEAN /\ linear \in RosAmounts /\ observed \in Ticks /\ freshFor \in Ticks
      /\ frame \in [sample : RosAmounts, sequence : Nat]
      /\ BridgeTimeout \in Nat \ {0} /\ Timeout \in Nat \ {0} /\ Drive!Never = -1
  BY LinksAssumption DEF DriveTypeOK, BridgeTypeOK, VmsTypeOK, Drive!Never
<1>2. CASE Drive!CheckInput \/ Drive!HandLoop \/ Drive!NameSource \/ Drive!MotorLoop \/ Drive!BridgeDies \/ Drive!BridgeStarts
           \/ Drive!RestartMotor \/ (\E v \in Int : Drive!Sample(v))
           \/ (\E g \in {"drive", "neutral", "reverse"} : Drive!SelectGear(g)) \/ UNCHANGED Drive!driveVars
  <2>1. /\ UNCHANGED <<observed, freshFor, lost, linear>>
        /\ \E l \in {"none", "bridge", "hand", "motor"} : loops' = loops \ {l} \/ loops' = loops
    BY <1>2 DEF Drive!CheckInput, Drive!HandLoop, Drive!NameSource, Drive!MotorLoop, Drive!BridgeDies, Drive!BridgeStarts,
                Drive!RestartMotor, Drive!Sample, Drive!SelectGear, Drive!driveVars, Drive!Loop
  <2>2. "ros" \in loops => "ros" \in loops'
    BY <2>1
  <2>3. QED
    BY <2>1, <2>2 DEF Followed
<1>3. CASE Drive!Observe
  <2>1. observed' = frame.sequence /\ freshFor' = 0 /\ linear' = frame.sample
    BY <1>3 DEF Drive!Observe
  <2>2. frame.sequence \in Nat /\ frame.sample \in RosAmounts
    BY <1>1
  <2>3. linear' # Drive!Zero => linear'.age <= BridgeTimeout + 1
    BY <2>1 DEF Sampled
  <2>4. QED
    BY <1>1, <2>1, <2>2, <2>3 DEF Followed
<1>4. CASE Drive!RosLoop
  <2>1. UNCHANGED <<observed, freshFor>>
    BY <1>4 DEF Drive!RosLoop
  <2>2. linear' # Drive!Zero => ~lost' /\ linear' = linear /\ freshFor >= 0 /\ freshFor <= Timeout
                                /\ linear.age <= BridgeTimeout + 1 + freshFor /\ freshFor \in Nat
    BY <1>4, VelocityDropped
  <2>3. QED
    BY <1>1, <2>1, <2>2 DEF Followed
<1>5. CASE Drive!RestartRos
  <2>1. observed' = -1 /\ freshFor' = -1 /\ linear' = Drive!Zero
    BY <1>1, <1>5 DEF Drive!RestartRos
  <2>2. QED
    BY <2>1 DEF Followed
<1>6. CASE Drive!Tick
  <2>1. /\ linear' = Drive!Older(linear) /\ freshFor' = Drive!Later(freshFor, Timeout + 1) /\ loops' = Drive!Loops
        /\ UNCHANGED <<observed, lost>>
        /\ "ros" \notin loops
    BY <1>6 DEF Drive!Tick
  <2>2. /\ (linear' = Drive!Zero <=> linear = Drive!Zero) /\ linear'.age <= linear.age + 1
        /\ linear.age \in Nat /\ linear' \in RosAmounts
    BY <1>1, <2>1, OlderIs DEF Amounts
  <2>3. linear'.age \in Nat
    BY <2>2 DEF RosAmounts, Drive!Zero
  <2>4. Timeout + 1 \in Nat
    BY <1>1
  <2>5. freshFor' = -1 <=> freshFor = -1
    BY <1>1, <2>1, <2>4, LaterIs DEF Ticks
  <2>6. ASSUME linear' # Drive!Zero
        PROVE  /\ freshFor' >= 0 /\ freshFor' <= Timeout + 1
               /\ linear'.age <= BridgeTimeout + 1 + freshFor'
               /\ lost => freshFor' = 1
    <3>1. /\ freshFor >= 0 /\ freshFor <= Timeout + 1 /\ freshFor # Timeout + 1
          /\ linear.age <= BridgeTimeout + 1 + freshFor
          /\ lost => freshFor = 0
      BY <2>1, <2>2, <2>6 DEF Followed
    <3>2. freshFor \in Nat /\ freshFor + 1 <= Timeout + 1 /\ freshFor # -1
      BY <1>1, <3>1 DEF Ticks
    <3>3. freshFor' = freshFor + 1
      BY <1>1, <2>1, <2>4, <3>2, LaterIs
    <3>4. QED
      BY <1>1, <2>2, <2>3, <3>1, <3>2, <3>3
  <2>7. "ros" \in loops'
    BY <2>1 DEF Drive!Loops
  <2>8. freshFor = -1 <=> observed = -1
    BY DEF Followed
  <2>9. QED
    BY <2>1, <2>5, <2>6, <2>7, <2>8 DEF Followed
<1>7. QED
  BY <1>2, <1>3, <1>4, <1>5, <1>6 DEF Drive!DriveNext

LEMMA OrphanedStep ==
  ASSUME DriveTypeOK, Followed, Orphaned, Drive!DriveNext \/ UNCHANGED Drive!driveVars
  PROVE  Orphaned'
<1> USE DEF Drive!bridge, Drive!watchdog, Drive!vms, Drive!freshness, Drive!motor
<1>1. /\ bridgeUp \in BOOLEAN /\ orphaned \in Nat /\ observed \in Ticks /\ freshFor \in Ticks
      /\ frame \in [sample : RosAmounts, sequence : Nat]
      /\ Timeout \in Nat \ {0}
  BY LinksAssumption DEF DriveTypeOK, BridgeTypeOK, VmsTypeOK
<1>2. CASE Drive!CheckInput \/ Drive!BridgeDies \/ (\E v \in Int : Drive!Sample(v))
  <2>1. bridgeUp /\ UNCHANGED orphaned
    BY <1>2 DEF Drive!CheckInput, Drive!BridgeDies, Drive!Sample
  <2>2. QED
    BY <1>1, <2>1 DEF Orphaned
<1>3. CASE Drive!BridgeStarts \/ Drive!RestartRos
  <2>1. orphaned' = 0
    BY <1>3 DEF Drive!BridgeStarts, Drive!RestartRos
  <2>2. QED
    BY <2>1 DEF Orphaned
<1>4. CASE Drive!RosLoop \/ Drive!HandLoop \/ Drive!NameSource \/ Drive!MotorLoop \/ Drive!RestartMotor
           \/ (\E g \in {"drive", "neutral", "reverse"} : Drive!SelectGear(g)) \/ UNCHANGED Drive!driveVars
  <2>1. UNCHANGED <<bridgeUp, frame, orphaned, observed, freshFor>>
    BY <1>4 DEF Drive!RosLoop, Drive!HandLoop, Drive!NameSource, Drive!MotorLoop,
                Drive!RestartMotor, Drive!SelectGear, Drive!driveVars
  <2>2. QED
    BY <2>1 DEF Orphaned
<1>5. CASE Drive!Observe
  <2>1. frame.sequence # observed /\ UNCHANGED <<bridgeUp, orphaned>>
    BY <1>5 DEF Drive!Observe
  <2>2. orphaned = 0
    BY <1>1, <2>1 DEF Orphaned
  <2>3. QED
    BY <1>1, <2>1, <2>2 DEF Orphaned
<1>6. CASE Drive!Tick
  <2>1. /\ orphaned' = (IF bridgeUp \/ observed # frame.sequence THEN 0 ELSE Drive!Min({orphaned + 1, Timeout + 3}))
        /\ freshFor' = Drive!Later(freshFor, Timeout + 1)
        /\ frame' = [frame EXCEPT !.sample = IF bridgeUp THEN Drive!Older(@) ELSE @]
        /\ UNCHANGED <<bridgeUp, observed>>
    BY <1>6 DEF Drive!Tick
  <2>2. frame'.sequence = frame.sequence
    BY <1>1, <2>1
  <2>3. CASE bridgeUp \/ observed # frame.sequence
    BY <2>1, <2>3 DEF Orphaned
  <2>4. CASE ~bridgeUp /\ observed = frame.sequence
    <3>1. observed # -1 /\ freshFor # -1 /\ freshFor \in Nat
      BY <1>1, <2>4 DEF Followed, Ticks
    <3>2. /\ freshFor' = IF freshFor + 1 <= Timeout + 1 THEN freshFor + 1 ELSE Timeout + 1
          /\ orphaned' = IF orphaned + 1 <= Timeout + 3 THEN orphaned + 1 ELSE Timeout + 3
      <4>1. Timeout + 1 \in Nat /\ Timeout + 3 \in Nat /\ orphaned + 1 \in Nat
        BY <1>1
      <4>2. orphaned' = Drive!Min({orphaned + 1, Timeout + 3})
        BY <2>1, <2>4
      <4>3. Drive!Min({orphaned + 1, Timeout + 3}) = IF orphaned + 1 <= Timeout + 3 THEN orphaned + 1 ELSE Timeout + 3
        BY <4>1, LeastAge
      <4>4. freshFor' = IF freshFor + 1 <= Timeout + 1 THEN freshFor + 1 ELSE Timeout + 1
        BY <1>1, <2>1, <3>1, <4>1, LaterIs
      <4>5. QED
        BY <4>2, <4>3, <4>4
    <3>3. freshFor' >= orphaned' \/ freshFor' = Timeout + 1
      BY <1>1, <3>1, <3>2 DEF Orphaned
    <3>4. QED
      BY <2>1, <2>2, <2>4, <3>3 DEF Orphaned
  <2>5. QED
    BY <2>3, <2>4
<1>7. QED
  BY <1>2, <1>3, <1>4, <1>5, <1>6 DEF Drive!DriveNext

LEMMA PassedOnStep ==
  ASSUME PlannerInv, Drive!DriveNext \/ UNCHANGED Drive!driveVars, level' # "hand"
  PROVE  PassedOn'
<1> USE DEF Drive!bridge, Drive!watchdog, Drive!vms, Drive!freshness, Drive!motor
<1>1. /\ DriveTypeOK /\ MotorTypeOK /\ PassedOn /\ Followed /\ Orphaned
      /\ level # "hand" /\ source # "hand" /\ request \in RosAmounts /\ command.amount \in RosAmounts
      /\ orphaned \in Nat /\ linear \in RosAmounts
      /\ BridgeTimeout \in Nat \ {0} /\ Timeout \in Nat \ {0}
  BY LinksAssumption DEF PlannerInv, LinkInv, DriveTypeOK, BridgeTypeOK, VmsTypeOK, PassedOn
<1>2. RosAmounts \subseteq Amounts /\ \A x \in RosAmounts : x.age \in Nat
  BY DEF RosAmounts, Amounts, Drive!Zero
<1>3. CASE Drive!CheckInput \/ Drive!Observe \/ Drive!BridgeDies \/ Drive!BridgeStarts \/ Drive!RestartRos
           \/ (\E v \in Int : Drive!Sample(v)) \/ (\E g \in {"drive", "neutral", "reverse"} : Drive!SelectGear(g))
           \/ UNCHANGED Drive!driveVars
  <2>1. /\ UNCHANGED <<level, source, request, command>> /\ orphaned' \in {orphaned, 0}
        /\ loops' = loops \/ loops' = loops \ {"bridge"}
    BY <1>3 DEF Drive!CheckInput, Drive!Observe, Drive!BridgeDies, Drive!BridgeStarts, Drive!RestartRos, Drive!Sample,
                Drive!SelectGear, Drive!driveVars, Drive!Loop
  <2>2. ("ros" \in loops => "ros" \in loops') /\ ("motor" \in loops => "motor" \in loops')
    BY <2>1
  <2>3. orphaned' <= orphaned /\ orphaned' \in Nat
    BY <1>1, <2>1
  <2>4. QED
    BY <1>1, <2>1, <2>2, <2>3 DEF PassedOn
<1>4. CASE Drive!RosLoop
  <2>1. /\ UNCHANGED <<level, source, command, orphaned>> /\ loops' = loops \ {"ros"}
        /\ linear' \in {linear, Drive!Zero} /\ request' = IF source = "ros" THEN linear' ELSE request
    BY <1>4 DEF Drive!RosLoop, Drive!Loop
  <2>2. request' \in RosAmounts
    BY <1>1, <2>1, ZeroIs
  <2>3. ASSUME request' # Drive!Zero
        PROVE  request'.age <= BridgeTimeout + Timeout + 1 /\ orphaned <= Timeout
    <3>1. source = "ros"
      BY <1>1, <2>1, <2>3 DEF PlannerInv, LinkInv, SourceInForce, MotorTypeOK, SourceNames
    <3>2. /\ linear' = linear /\ freshFor >= 0 /\ freshFor <= Timeout
          /\ linear.age <= BridgeTimeout + 1 + freshFor /\ freshFor \in Nat
      BY <1>1, <1>4, <2>1, <2>3, <3>1, VelocityDropped
    <3>3. orphaned <= Timeout
      BY <1>1, <3>2 DEF Orphaned
    <3>4. request' = linear /\ linear.age \in Nat
      BY <1>1, <1>2, <2>1, <3>1, <3>2
    <3>5. QED
      BY <1>1, <3>2, <3>3, <3>4
  <2>4. request'.age \in Nat /\ ("motor" \in loops => "motor" \in loops')
    BY <1>2, <2>1, <2>2
  <2>5. request' # Drive!Zero => request'.age <= BridgeTimeout + Timeout + 2 /\ orphaned <= Timeout + 1
    BY <1>1, <2>3, <2>4
  <2>6. QED
    BY <1>1, <2>1, <2>2, <2>3, <2>4, <2>5 DEF PassedOn
<1>5. CASE Drive!HandLoop
  BY <1>1, <1>5 DEF Drive!HandLoop
<1>6. CASE Drive!NameSource
  <2>1. /\ UNCHANGED <<command, orphaned, loops>> /\ source' = level'
        /\ request' \in {request, Drive!Zero}
    BY <1>6 DEF Drive!NameSource
  <2>2. QED
    BY <1>1, <2>1, ZeroIs DEF PassedOn
<1>7. CASE Drive!MotorLoop
  <2>1. /\ UNCHANGED <<level, source, request, orphaned>> /\ loops' = loops \ {"motor"}
        /\ command' = Drive!Command
    BY <1>7 DEF Drive!MotorLoop, Drive!Loop
  <2>2. command'.amount \in {Drive!Zero, request}
    BY <1>1, <2>1, CommandIs
  <2>3. command'.amount \in RosAmounts /\ ("ros" \in loops => "ros" \in loops') /\ request.age \in Nat
    BY <1>1, <1>2, <2>1, <2>2, ZeroIs
  <2>4. command'.amount # Drive!Zero =>
          command'.amount.age <= BridgeTimeout + Timeout + 2 /\ orphaned <= Timeout + 1
    BY <1>1, <2>2 DEF PassedOn
  <2>5. command'.amount # Drive!Zero =>
          command'.amount.age <= BridgeTimeout + Timeout + 3 /\ orphaned <= Timeout + 2
    BY <1>1, <1>2, <2>3, <2>4
  <2>6. QED
    BY <1>1, <2>1, <2>3, <2>4, <2>5 DEF PassedOn
<1>8. CASE Drive!RestartMotor
  <2>1. /\ UNCHANGED <<level, orphaned>> /\ source' = "none" /\ request' = Drive!Zero /\ command'.amount = Drive!Zero
    BY <1>8 DEF Drive!RestartMotor, Drive!NoCommand
  <2>2. QED
    BY <1>1, <2>1, ZeroIs DEF PassedOn
<1>9. CASE Drive!Tick
  <2>1. /\ UNCHANGED <<level, source>> /\ loops' = Drive!Loops
        /\ request' = Drive!Older(request) /\ command' = [command EXCEPT !.amount = Drive!Older(@)]
        /\ orphaned' = (IF bridgeUp \/ observed # frame.sequence THEN 0 ELSE Drive!Min({orphaned + 1, Timeout + 3}))
        /\ "ros" \notin loops /\ "motor" \notin loops
    BY <1>9 DEF Drive!Tick
  <2>2. /\ (request' = Drive!Zero <=> request = Drive!Zero) /\ request'.age <= request.age + 1 /\ request' \in RosAmounts
        /\ Drive!Older(command.amount) = Drive!Zero <=> command.amount = Drive!Zero
        /\ Drive!Older(command.amount).age <= command.amount.age + 1 /\ Drive!Older(command.amount) \in RosAmounts
    BY <1>1, <1>2, <2>1, OlderIs
  <2>3. command'.amount = Drive!Older(command.amount)
    BY <1>1, <2>1 DEF MotorTypeOK
  <2>4. orphaned' <= orphaned + 1 /\ orphaned' \in Nat
    <3>1. orphaned + 1 \in Nat /\ Timeout + 3 \in Nat
      BY <1>1
    <3>2. Drive!Min({orphaned + 1, Timeout + 3}) = IF orphaned + 1 <= Timeout + 3 THEN orphaned + 1 ELSE Timeout + 3
      BY <3>1, LeastAge
    <3>3. Drive!Min({orphaned + 1, Timeout + 3}) <= orphaned + 1 /\ Drive!Min({orphaned + 1, Timeout + 3}) \in Nat
      BY <3>1, <3>2
    <3>4. QED
      BY <1>1, <2>1, <3>3
  <2>5. "ros" \in loops' /\ "motor" \in loops'
    BY <2>1 DEF Drive!Loops
  <2>6. request.age \in Nat /\ request'.age \in Nat /\ command.amount.age \in Nat /\ command'.amount.age \in Nat
    BY <1>1, <1>2, <2>2, <2>3
  <2>7. request' # Drive!Zero => request'.age <= BridgeTimeout + Timeout + 2 /\ orphaned' <= Timeout + 1
    BY <1>1, <2>1, <2>2, <2>4, <2>6 DEF PassedOn
  <2>8. command'.amount # Drive!Zero => command'.amount.age <= BridgeTimeout + Timeout + 3 /\ orphaned' <= Timeout + 2
    <3>1. command.amount # Drive!Zero => command.amount.age <= BridgeTimeout + Timeout + 2 /\ orphaned <= Timeout + 1
      BY <1>1, <2>1 DEF PassedOn
    <3>2. command'.amount.age <= command.amount.age + 1 /\ (command'.amount # Drive!Zero => command.amount # Drive!Zero)
      BY <2>2, <2>3
    <3>3. QED
      BY <1>1, <2>4, <2>6, <3>1, <3>2
  <2>9. QED
    BY <1>1, <2>1, <2>2, <2>3, <2>5, <2>7, <2>8 DEF PassedOn
<1>10. QED
  BY <1>3, <1>4, <1>5, <1>6, <1>7, <1>8, <1>9 DEF Drive!DriveNext

\* No planner sends a sample.
Unplanned ==
  \/ Drive!CheckInput \/ Drive!Observe \/ Drive!RosLoop \/ Drive!HandLoop \/ Drive!NameSource \/ Drive!MotorLoop
  \/ Drive!Tick \/ Drive!BridgeDies \/ Drive!BridgeStarts \/ Drive!RestartRos \/ Drive!RestartMotor
  \/ \E g \in {"drive", "neutral", "reverse"} : Drive!SelectGear(g)

LEMMA NoPlannerStep ==
  ASSUME SwitchInv, Unplanned \/ UNCHANGED Drive!driveVars
  PROVE  NoPlanner'
<1> USE DEF Drive!bridge, Drive!watchdog, Drive!vms, Drive!freshness, Drive!motor
<1>1. /\ DriveTypeOK /\ MotorTypeOK /\ frame \in [sample : RosAmounts, sequence : Nat]
      /\ request \in Amounts /\ command \in [frame : CommandFrames, amount : Amounts]
      /\ frame.sample = Drive!Zero /\ linear = Drive!Zero /\ request.of # "ros" /\ command.amount.of # "ros"
      /\ Drive!Older(Drive!Zero) = Drive!Zero /\ Drive!Zero.of # "ros"
  BY ZeroIs DEF SwitchInv, NoPlanner, DriveTypeOK, BridgeTypeOK, MotorTypeOK, Drive!Older
<1>2. CASE Drive!CheckInput \/ Drive!Observe \/ Drive!BridgeDies \/ Drive!BridgeStarts \/ Drive!RestartRos
           \/ (\E g \in {"drive", "neutral", "reverse"} : Drive!SelectGear(g)) \/ UNCHANGED Drive!driveVars
  <2>1. UNCHANGED <<request, command>> /\ linear' \in {linear, frame.sample, Drive!Zero}
    BY <1>2 DEF Drive!CheckInput, Drive!Observe, Drive!BridgeDies, Drive!BridgeStarts, Drive!RestartRos,
                Drive!SelectGear, Drive!driveVars
  <2>2. frame'.sample \in {frame.sample, Drive!Zero}
    BY <1>2 DEF Drive!CheckInput, Drive!Observe, Drive!BridgeDies, Drive!BridgeStarts, Drive!RestartRos,
                Drive!SelectGear, Drive!driveVars, Drive!EmitNew
  <2>3. QED
    BY <1>1, <2>1, <2>2 DEF NoPlanner
<1>3. CASE Drive!RosLoop
  <2>1. UNCHANGED <<frame, command>> /\ linear' \in {linear, Drive!Zero} /\ request' \in {request, linear'}
    BY <1>3 DEF Drive!RosLoop
  <2>2. QED
    BY <1>1, <2>1 DEF NoPlanner
<1>4. CASE Drive!HandLoop
  <2>1. UNCHANGED <<frame, command, linear>> /\ \E v \in Int : request' = Drive!Amount("hand", v)
    BY <1>4 DEF Drive!HandLoop
  <2>2. request'.of # "ros"
    BY <2>1, AmountIs
  <2>3. QED
    BY <1>1, <2>1, <2>2 DEF NoPlanner
<1>5. CASE Drive!NameSource
  <2>1. UNCHANGED <<frame, command, linear>> /\ request' \in {request, Drive!Zero}
    BY <1>5 DEF Drive!NameSource
  <2>2. QED
    BY <1>1, <2>1 DEF NoPlanner
<1>6. CASE Drive!MotorLoop
  <2>1. UNCHANGED <<frame, request, linear>> /\ command' = Drive!Command
    BY <1>6 DEF Drive!MotorLoop
  <2>2. command'.amount.of # "ros"
    BY <1>1, <2>1, CommandIs
  <2>3. QED
    BY <1>1, <2>1, <2>2 DEF NoPlanner
<1>7. CASE Drive!RestartMotor
  <2>1. UNCHANGED <<frame, linear>> /\ request' = Drive!Zero /\ command'.amount = Drive!Zero
    BY <1>7 DEF Drive!RestartMotor, Drive!NoCommand
  <2>2. QED
    BY <1>1, <2>1 DEF NoPlanner
<1>8. CASE Drive!Tick
  <2>1. /\ frame' = [frame EXCEPT !.sample = IF bridgeUp THEN Drive!Older(@) ELSE @]
        /\ linear' = Drive!Older(linear) /\ request' = Drive!Older(request)
        /\ command' = [command EXCEPT !.amount = Drive!Older(@)]
    BY <1>8 DEF Drive!Tick
  <2>2. request'.of = request.of /\ command'.amount.of = command.amount.of
    BY <1>1, <2>1, OlderIs
  <2>3. frame'.sample = Drive!Zero
    BY <1>1, <2>1
  <2>4. QED
    BY <1>1, <2>1, <2>2, <2>3 DEF NoPlanner
<1>9. QED
  BY <1>2, <1>3, <1>4, <1>5, <1>6, <1>7, <1>8 DEF Unplanned

LEMMA PlannerIsADrive ==
  ASSUME crashes \in Nat, Planner!DriveNext \/ UNCHANGED Planner!driveVars
  PROVE  /\ Drive!DriveNext \/ UNCHANGED Drive!driveVars
         /\ level = "ros" => level' = "ros"
<1> USE DEF Drive!bridge, Drive!watchdog, Drive!vms, Drive!freshness, Drive!motor,
            Planner!bridge, Planner!watchdog, Planner!vms, Planner!freshness, Planner!motor
<1>1. /\ Planner!Zero = Drive!Zero /\ Planner!Never = Drive!Never /\ Planner!Loops = Drive!Loops /\ Planner!NoCommand = Drive!NoCommand
      /\ Planner!Release = Drive!Release /\ Planner!Bound = Drive!Bound /\ Planner!NextSequence = Drive!NextSequence
      /\ Planner!InputExpired = Drive!InputExpired /\ Planner!Expired = Drive!Expired
  BY DEF Planner!Zero, Drive!Zero, Planner!Never, Drive!Never, Planner!Loops, Drive!Loops, Planner!NoCommand, Drive!NoCommand,
         Planner!Release, Drive!Release, Planner!Bound, Drive!Bound, Planner!NextSequence, Drive!NextSequence,
         Planner!InputExpired, Drive!InputExpired, Planner!Expired, Drive!Expired
<1>2. \A S : Planner!Min(S) = Drive!Min(S) /\ Planner!Max(S) = Drive!Max(S)
  BY DEF Planner!Min, Drive!Min, Planner!Max, Drive!Max
<1>3. /\ \A x : Planner!Older(x) = Drive!Older(x)
      /\ \A t, limit : Planner!Later(t, limit) = Drive!Later(t, limit)
      /\ \A of, v : Planner!Amount(of, v) = Drive!Amount(of, v)
  BY <1>1, <1>2 DEF Planner!Older, Drive!Older, Planner!Later, Drive!Later, Planner!Amount, Drive!Amount
<1>4. Planner!Command = Drive!Command
  BY <1>1 DEF Planner!Command, Drive!Command
<1>5. Planner!Disrupted => Drive!Disrupted
  BY LinksAssumption DEF Planner!Disrupted, Drive!Disrupted
<1>6. /\ \A l : Planner!Loop(l) <=> Drive!Loop(l)
      /\ \A x : Planner!EmitNew(x) <=> Drive!EmitNew(x)
  BY <1>1 DEF Planner!Loop, Drive!Loop, Planner!EmitNew, Drive!EmitNew
<1>7. (Planner!CheckInput => Drive!CheckInput) /\ (Planner!Observe => Drive!Observe) /\ (Planner!RosLoop => Drive!RosLoop)
  BY <1>1, <1>2, <1>6 DEF Planner!CheckInput, Drive!CheckInput, Planner!Observe, Drive!Observe, Planner!RosLoop, Drive!RosLoop
<1>8. Planner!HandLoop => Drive!HandLoop
  BY <1>3, <1>6 DEF Planner!HandLoop, Drive!HandLoop
<1>9. Planner!NameSource => Drive!NameSource
  BY <1>1, <1>5 DEF Planner!NameSource, Drive!NameSource
<1>10. Planner!MotorLoop => Drive!MotorLoop
  BY <1>4, <1>6 DEF Planner!MotorLoop, Drive!MotorLoop
<1>11. Planner!Tick => Drive!Tick
  BY <1>1, <1>2, <1>3 DEF Planner!Tick, Drive!Tick
<1>12. /\ (Planner!BridgeDies => Drive!BridgeDies) /\ (Planner!BridgeStarts => Drive!BridgeStarts)
       /\ (Planner!RestartRos => Drive!RestartRos) /\ (Planner!RestartMotor => Drive!RestartMotor)
  BY <1>1, <1>5 DEF Planner!BridgeDies, Drive!BridgeDies, Planner!BridgeStarts, Drive!BridgeStarts,
                    Planner!RestartRos, Drive!RestartRos, Planner!RestartMotor, Drive!RestartMotor
<1>13. ASSUME NEW v \in {1}, Planner!Sample(v) PROVE Drive!Sample(v) /\ v \in Int
  BY <1>3, <1>6, <1>13 DEF Planner!Sample, Drive!Sample
<1>14. ASSUME level = "ros" PROVE level' = "ros"
  BY <1>14 DEF Planner!DriveNext, Planner!CheckInput, Planner!Observe, Planner!RosLoop, Planner!HandLoop,
               Planner!NameSource, Planner!MotorLoop, Planner!Tick, Planner!BridgeDies, Planner!BridgeStarts,
               Planner!RestartRos, Planner!RestartMotor, Planner!Sample, Planner!driveVars
<1>16. Drive!DriveNext \/ UNCHANGED Drive!driveVars
  BY <1>7, <1>8, <1>9, <1>10, <1>11, <1>12, <1>13 DEF Planner!DriveNext, Drive!DriveNext, Planner!driveVars, Drive!driveVars
<1>15. QED
  BY <1>14, <1>16 DEF Planner!DriveNext, Drive!DriveNext, Planner!driveVars, Drive!driveVars

LEMMA SwitchIsADrive ==
  ASSUME crashes \in Nat, Switch!DriveNext \/ UNCHANGED Switch!driveVars
  PROVE  Unplanned \/ UNCHANGED Drive!driveVars
<1> USE DEF Drive!bridge, Drive!watchdog, Drive!vms, Drive!freshness, Drive!motor,
            Switch!bridge, Switch!watchdog, Switch!vms, Switch!freshness, Switch!motor
<1>1. /\ Switch!Zero = Drive!Zero /\ Switch!Never = Drive!Never /\ Switch!Loops = Drive!Loops /\ Switch!NoCommand = Drive!NoCommand
      /\ Switch!Release = Drive!Release /\ Switch!Bound = Drive!Bound /\ Switch!NextSequence = Drive!NextSequence
      /\ Switch!InputExpired = Drive!InputExpired /\ Switch!Expired = Drive!Expired
  BY DEF Switch!Zero, Drive!Zero, Switch!Never, Drive!Never, Switch!Loops, Drive!Loops, Switch!NoCommand, Drive!NoCommand,
         Switch!Release, Drive!Release, Switch!Bound, Drive!Bound, Switch!NextSequence, Drive!NextSequence,
         Switch!InputExpired, Drive!InputExpired, Switch!Expired, Drive!Expired
<1>2. \A S : Switch!Min(S) = Drive!Min(S) /\ Switch!Max(S) = Drive!Max(S)
  BY DEF Switch!Min, Drive!Min, Switch!Max, Drive!Max
<1>3. /\ \A x : Switch!Older(x) = Drive!Older(x)
      /\ \A t, limit : Switch!Later(t, limit) = Drive!Later(t, limit)
      /\ \A of, v : Switch!Amount(of, v) = Drive!Amount(of, v)
  BY <1>1, <1>2 DEF Switch!Older, Drive!Older, Switch!Later, Drive!Later, Switch!Amount, Drive!Amount
<1>4. Switch!Command = Drive!Command
  BY <1>1 DEF Switch!Command, Drive!Command
<1>5. Switch!Disrupted => Drive!Disrupted
  BY LinksAssumption DEF Switch!Disrupted, Drive!Disrupted
<1>6. /\ \A l : Switch!Loop(l) <=> Drive!Loop(l)
      /\ \A x : Switch!EmitNew(x) <=> Drive!EmitNew(x)
  BY <1>1 DEF Switch!Loop, Drive!Loop, Switch!EmitNew, Drive!EmitNew
<1>7. (Switch!CheckInput => Drive!CheckInput) /\ (Switch!Observe => Drive!Observe) /\ (Switch!RosLoop => Drive!RosLoop)
  BY <1>1, <1>2, <1>6 DEF Switch!CheckInput, Drive!CheckInput, Switch!Observe, Drive!Observe, Switch!RosLoop, Drive!RosLoop
<1>8. Switch!HandLoop => Drive!HandLoop
  BY <1>3, <1>6 DEF Switch!HandLoop, Drive!HandLoop
<1>9. Switch!NameSource => Drive!NameSource
  BY <1>1, <1>5 DEF Switch!NameSource, Drive!NameSource
<1>10. Switch!MotorLoop => Drive!MotorLoop
  BY <1>4, <1>6 DEF Switch!MotorLoop, Drive!MotorLoop
<1>11. Switch!Tick => Drive!Tick
  BY <1>1, <1>2, <1>3 DEF Switch!Tick, Drive!Tick
<1>12. /\ (Switch!BridgeDies => Drive!BridgeDies) /\ (Switch!BridgeStarts => Drive!BridgeStarts)
       /\ (Switch!RestartRos => Drive!RestartRos) /\ (Switch!RestartMotor => Drive!RestartMotor)
  BY <1>1, <1>5 DEF Switch!BridgeDies, Drive!BridgeDies, Switch!BridgeStarts, Drive!BridgeStarts,
                    Switch!RestartRos, Drive!RestartRos, Switch!RestartMotor, Drive!RestartMotor
<1>13. ASSUME NEW g \in {"reverse"}, Switch!SelectGear(g) PROVE Drive!SelectGear(g) /\ g \in {"drive", "neutral", "reverse"}
  BY <1>13 DEF Switch!SelectGear, Drive!SelectGear
<1>14. QED
  BY <1>7, <1>8, <1>9, <1>10, <1>11, <1>12, <1>13 DEF Switch!DriveNext, Unplanned, Switch!driveVars, Drive!driveVars

LEMMA DriveStart ==
  /\ Planner!DriveInit => PlannerInv /\ level = "ros"
  /\ Switch!DriveInit => SwitchInv
<1> USE DEF Drive!Zero, Drive!Never, Drive!NoCommand
<1>1. Drive!Zero \in RosAmounts /\ Drive!Zero \in Amounts /\ BridgeTimeout \in Nat /\ Timeout \in Nat
  BY ZeroIs, LinksAssumption
<1>2. ASSUME Planner!DriveInit PROVE PlannerInv /\ level = "ros"
  <2>1. /\ bridgeUp = TRUE /\ frame = [sample |-> Drive!Zero, sequence |-> 0] /\ orphaned = 0 /\ seen = -1 /\ inputStale = TRUE
        /\ observed = -1 /\ freshFor = -1 /\ lost = TRUE /\ linear = Drive!Zero /\ level = "ros" /\ source = "none"
        /\ request = Drive!Zero /\ command = [frame |-> "none", amount |-> Drive!Zero] /\ enabled = {} /\ since = 0 /\ crashes = 0
    BY <1>2 DEF Planner!DriveInit, Planner!Zero, Planner!Never, Planner!NoCommand
  <2> HIDE DEF Drive!Zero
  <2>2. BridgeTypeOK /\ VmsTypeOK
    BY <1>1, <2>1 DEF BridgeTypeOK, VmsTypeOK, Ticks
  <2>3. MotorTypeOK
    BY <1>1, <2>1 DEF MotorTypeOK, SourceNames, CommandFrames
  <2>4. SourceInForce /\ Sampled /\ Followed /\ Orphaned
    BY <2>1 DEF SourceInForce, Sampled, Followed, Orphaned
  <2>5. PassedOn
    BY <1>1, <2>1 DEF PassedOn
  <2>6. QED
    BY <2>1, <2>2, <2>3, <2>4, <2>5 DEF PlannerInv, LinkInv, DriveTypeOK
<1>3. ASSUME Switch!DriveInit PROVE SwitchInv
  <2>1. /\ bridgeUp = TRUE /\ frame = [sample |-> Drive!Zero, sequence |-> 0] /\ orphaned = 0 /\ seen = -1 /\ inputStale = TRUE
        /\ observed = -1 /\ freshFor = -1 /\ lost = TRUE /\ linear = Drive!Zero /\ level \in SourceNames /\ source = "none"
        /\ request = Drive!Zero /\ command = [frame |-> "none", amount |-> Drive!Zero] /\ enabled = {} /\ since = 0 /\ crashes = 0
    BY <1>3 DEF Switch!DriveInit, Switch!Zero, Switch!Never, Switch!NoCommand, SourceNames
  <2> HIDE DEF Drive!Zero
  <2>2. BridgeTypeOK /\ VmsTypeOK
    BY <1>1, <2>1 DEF BridgeTypeOK, VmsTypeOK, Ticks
  <2>3. MotorTypeOK
    BY <1>1, <2>1 DEF MotorTypeOK, SourceNames, CommandFrames
  <2>4. SourceInForce
    BY <2>1 DEF SourceInForce
  <2>5. NoPlanner
    BY <2>1, ZeroIs DEF NoPlanner
  <2>6. QED
    BY <2>1, <2>2, <2>3, <2>4, <2>5 DEF SwitchInv, DriveTypeOK
<1>4. QED
  BY <1>2, <1>3

LEMMA PlannerStep ==
  ASSUME PlannerInv, level = "ros", [Planner!DriveNext]_(Planner!driveVars)
  PROVE  PlannerInv' /\ level' = "ros"
<1>1. DriveTypeOK /\ SourceInForce /\ Sampled /\ Followed /\ Orphaned /\ PassedOn /\ crashes \in Nat
  BY DEF PlannerInv, LinkInv, DriveTypeOK
<1>2. (Drive!DriveNext \/ UNCHANGED Drive!driveVars) /\ level' = "ros"
  BY <1>1, PlannerIsADrive
<1>3. DriveTypeOK' /\ SourceInForce' /\ Sampled' /\ Followed' /\ Orphaned' /\ PassedOn'
  BY <1>1, <1>2, DriveTyped, SourceStep, SampledStep, FollowedStep, OrphanedStep, PassedOnStep
<1>4. QED
  BY <1>2, <1>3 DEF PlannerInv, LinkInv

LEMMA SwitchStep ==
  ASSUME SwitchInv, [Switch!DriveNext]_(Switch!driveVars)
  PROVE  SwitchInv'
<1>1. DriveTypeOK /\ SourceInForce /\ crashes \in Nat
  BY DEF SwitchInv, DriveTypeOK
<1>2. Unplanned \/ UNCHANGED Drive!driveVars
  BY <1>1, SwitchIsADrive
<1>3. Drive!DriveNext \/ UNCHANGED Drive!driveVars
  BY <1>2 DEF Unplanned, Drive!DriveNext
<1>4. DriveTypeOK' /\ SourceInForce' /\ NoPlanner'
  BY <1>1, <1>2, <1>3, DriveTyped, SourceStep, NoPlannerStep
<1>5. QED
  BY <1>4 DEF SwitchInv

LEMMA DriveTrue ==
  /\ PlannerInv => Planner!DriveIsTrue
  /\ SwitchInv => Switch!DriveIsTrue
<1>1. Planner!Zero = Drive!Zero /\ Switch!Zero = Drive!Zero
  BY DEF Planner!Zero, Switch!Zero, Drive!Zero
<1>2. ASSUME PlannerInv PROVE Planner!DriveIsTrue
  <2>1. DriveTypeOK /\ SourceInForce /\ PassedOn
    BY <1>2 DEF PlannerInv, LinkInv
  <2>2. command.amount # Drive!Zero /\ command.amount.of # source => since <= 2
    BY <2>1 DEF SourceInForce, DriveTypeOK, MotorTypeOK
  <2>3. command.amount.of = "ros" => command.amount.age <= Planner!Bound /\ orphaned <= Timeout + 2
    BY <2>1, ZeroIs DEF PassedOn, Planner!Bound
  <2>4. QED
    BY <1>1, <2>1, <2>2, <2>3 DEF Planner!DriveIsTrue, SourceInForce
<1>3. ASSUME SwitchInv PROVE Switch!DriveIsTrue
  <2>1. DriveTypeOK /\ SourceInForce /\ NoPlanner
    BY <1>3 DEF SwitchInv
  <2>2. command.amount # Drive!Zero /\ command.amount.of # source => since <= 2
    BY <2>1 DEF SourceInForce, DriveTypeOK, MotorTypeOK
  <2>3. QED
    BY <1>1, <2>1, <2>2 DEF Switch!DriveIsTrue, SourceInForce, NoPlanner
<1>4. QED
  BY <1>2, <1>3

-----------------------------------------------------------------------------
(* The rotation *)

FusionTypeOK ==
  /\ readings = [s \in Mini!Names |-> readings[s]] /\ receivedAgo \in [Mini!Names -> Nat]
  /\ outAgo \in Nat /\ apart \in Nat /\ mismatchFor \in Nat \cup {Mini!None}
  /\ fault \in BOOLEAN /\ healthy \in BOOLEAN /\ checked \in BOOLEAN

\* The rotation is as old as the reading it was made of, which has not expired.
OfTheActive ==
  out # Mini!Nothing =>
    /\ out.of = Mini!ActiveOf(readings) /\ out.of \in Mini!Names /\ readings[out.of] # Mini!None
    /\ outAgo = receivedAgo[out.of] /\ outAgo <= SilentAfter + 1
    /\ checked => outAgo <= SilentAfter

\* The mismatch is timed from when the readings came apart.
TimedApart ==
  /\ ~Mini!Apart(readings) => mismatchFor = Mini!None /\ apart = 0
  /\ Mini!Apart(readings) => mismatchFor = IF apart <= Hold THEN apart ELSE Hold
  /\ fault => Mini!Apart(readings) /\ apart >= Hold /\ ~healthy
  /\ apart > Hold \/ (checked /\ apart >= Hold /\ Mini!Apart(readings)) => fault
  /\ healthy => readings[Head(Sensors)] # Mini!None

RotationInv == FusionTypeOK /\ OfTheActive /\ TimedApart

\* The source that speaks is alive, unless none is.
LEMMA ActiveIs ==
  ASSUME NEW r
  PROVE  \/ Mini!ActiveOf(r) = "none"
         \/ Mini!ActiveOf(r) \in Mini!Names /\ r[Mini!ActiveOf(r)] # Mini!None
<1> DEFINE live == {i \in DOMAIN Sensors : r[Sensors[i]] # Mini!None}
<1>1. Mini!ActiveOf(r) = IF live = {} THEN "none" ELSE Sensors[Mini!Min(live)]
  BY DEF Mini!ActiveOf
<1>2. CASE live = {}
  BY <1>1, <1>2
<1>3. CASE live # {}
  <2>1. live \in SUBSET Nat
    BY LinksAssumption
  <2>2. \E m \in live : \A n \in live : m <= n
    BY <1>3, <2>1, LeastExists
  <2>3. Mini!Min(live) \in live
    BY <2>2 DEF Mini!Min
  <2> HIDE DEF live
  <2>4. Mini!ActiveOf(r) = Sensors[Mini!Min(live)]
    BY <1>1, <1>3
  <2>5. Mini!Min(live) \in DOMAIN Sensors /\ r[Sensors[Mini!Min(live)]] # Mini!None
    BY <2>3 DEF live
  <2>6. Sensors[Mini!Min(live)] \in Mini!Names
    BY <2>5 DEF Mini!Names, Mini!Range
  <2>7. QED
    BY <2>4, <2>5, <2>6
<1>4. QED
  BY <1>2, <1>3

LEMMA NamesAre == "none" \notin Mini!Names
  BY LinksAssumption DEF Mini!Names, Mini!Range

\* Whether an actuator tells the direction, the sources are compared alike.
LEMMA SameFusion ==
  /\ Undirected!Names = Mini!Names /\ Undirected!None = Mini!None /\ Undirected!Nothing = Mini!Nothing
  /\ \A r : Undirected!ActiveOf(r) = Mini!ActiveOf(r)
  /\ \A r : Undirected!Apart(r) <=> Mini!Apart(r)
  /\ \A r, ago : Undirected!Expired(r, ago) = Mini!Expired(r, ago)
<1>1. Undirected!Names = Mini!Names /\ Undirected!None = Mini!None /\ Undirected!Nothing = Mini!Nothing
  BY DEF Mini!Names, Undirected!Names, Mini!Range, Undirected!Range, Mini!None, Undirected!None,
         Mini!Nothing, Undirected!Nothing
<1>2. \A S : Undirected!Min(S) = Mini!Min(S) /\ Undirected!Max(S) = Mini!Max(S)
  BY DEF Undirected!Min, Mini!Min, Undirected!Max, Mini!Max
<1>3. ASSUME NEW r PROVE Undirected!ActiveOf(r) = Mini!ActiveOf(r)
  BY <1>1, <1>2 DEF Undirected!ActiveOf, Mini!ActiveOf
<1>4. ASSUME NEW r PROVE Undirected!Apart(r) <=> Mini!Apart(r)
  <2>1. Undirected!Alive(r) = Mini!Alive(r)
    BY <1>1 DEF Undirected!Alive, Mini!Alive
  <2>2. \A x : Undirected!Magnitude(x) = Mini!Magnitude(x)
    BY DEF Undirected!Magnitude, Mini!Magnitude
  <2>3. QED
    BY <1>2, <1>3, <2>1, <2>2 DEF Undirected!Apart, Mini!Apart
<1>5. \A r, ago : Undirected!Expired(r, ago) = Mini!Expired(r, ago)
  BY <1>1 DEF Undirected!Expired, Mini!Expired
<1>6. QED
  BY <1>1, <1>3, <1>4, <1>5

LEMMA RotationStart ==
  ASSUME Mini!FusionInit
  PROVE  RotationInv
<1> USE DEF Mini!FusionInit
<1>1. Mini!Alive(readings) = {}
  BY DEF Mini!Alive
<1>2. ~Mini!Apart(readings)
  BY <1>1 DEF Mini!Apart
<1>3. FusionTypeOK
  BY DEF FusionTypeOK, Mini!None
<1>4. OfTheActive
  BY DEF OfTheActive
<1>5. TimedApart
  BY <1>2, LinksAssumption DEF TimedApart
<1>6. QED
  BY <1>3, <1>4, <1>5 DEF RotationInv

\* Comparing the readings r keeps the time they have been apart.
LEMMA ComparedStep ==
  ASSUME RotationInv, Mini!PublishHealth(readings')
  PROVE  /\ TimedApart'
         /\ apart' \in Nat /\ mismatchFor' \in Nat \cup {Mini!None} /\ fault' \in BOOLEAN /\ healthy' \in BOOLEAN
<1> DEFINE R == Mini!Apart(readings)
           S == Mini!Apart(readings')
<1>1. /\ mismatchFor' = IF ~S THEN Mini!None ELSE IF mismatchFor = Mini!None THEN 0 ELSE mismatchFor
      /\ fault' = (S /\ mismatchFor' >= Hold)
      /\ apart' = IF S THEN apart ELSE 0
      /\ healthy' = (readings'[Head(Sensors)] # Mini!None /\ ~fault')
  BY DEF Mini!PublishHealth, Mini!CrossCheck
<1>2. /\ apart \in Nat /\ mismatchFor \in Nat \cup {Mini!None} /\ Hold \in Nat
      /\ ~R => mismatchFor = Mini!None /\ apart = 0
      /\ R => mismatchFor = IF apart <= Hold THEN apart ELSE Hold
  BY LinksAssumption DEF RotationInv, FusionTypeOK, TimedApart
<1>3. Mini!None \notin Nat /\ Mini!None < 0
  BY DEF Mini!None
<1>4. TimedApart' <=>
        /\ ~S => mismatchFor' = Mini!None /\ apart' = 0
        /\ S => mismatchFor' = IF apart' <= Hold THEN apart' ELSE Hold
        /\ fault' => S /\ apart' >= Hold /\ ~healthy'
        /\ apart' > Hold \/ (checked' /\ apart' >= Hold /\ S) => fault'
        /\ healthy' => readings'[Head(Sensors)] # Mini!None
  BY DEF TimedApart
<1> HIDE DEF R, S
<1>5. /\ fault' \in BOOLEAN /\ healthy' \in BOOLEAN
      /\ fault' => S /\ mismatchFor' >= Hold
      /\ S /\ mismatchFor' >= Hold => fault'
      /\ fault' => ~healthy'
      /\ healthy' => readings'[Head(Sensors)] # Mini!None
  BY <1>1
<1>6. apart' \in Nat /\ mismatchFor' \in Nat \cup {Mini!None}
  BY <1>1, <1>2
<1>7. /\ ~S => mismatchFor' = Mini!None /\ apart' = 0
      /\ S => mismatchFor' = (IF apart <= Hold THEN apart ELSE Hold) /\ apart' = apart
  BY <1>1, <1>2, <1>3
<1>8. S => (mismatchFor' >= Hold <=> apart' >= Hold)
  BY <1>2, <1>7
<1>9. apart' > Hold => S
  BY <1>2, <1>7
<1>10. apart' > Hold => apart' >= Hold
  BY <1>2, <1>6
<1>11. TimedApart'
  BY <1>4, <1>5, <1>7, <1>8, <1>9, <1>10
<1>12. QED
  BY <1>5, <1>6, <1>11

\* Readings that expire or come, and what becomes of the rotation.
LEMMA ReadingStep ==
  ASSUME RotationInv, NEW s \in Mini!Names, NEW v,
         readings' = [Mini!Expired(readings, receivedAgo) EXCEPT ![s] = v],
         receivedAgo' = [receivedAgo EXCEPT ![s] = 0],
         checked' = checked, Mini!PublishHealth(readings'),
         \/ Mini!ActiveOf(readings') = s /\ outAgo' = 0 /\ out'.of = s
         \/ out' = Mini!Nothing /\ outAgo' = 0
         \/ Mini!ActiveOf(readings') # s /\ Mini!ActiveOf(readings') = Mini!ActiveOf(readings) /\ UNCHANGED <<out, outAgo>>
  PROVE  RotationInv'
<1>1. FusionTypeOK /\ OfTheActive
  BY DEF RotationInv
<1>2. TimedApart' /\ FusionTypeOK'
  <2>1. readings' = [t \in Mini!Names |-> readings'[t]] /\ receivedAgo' \in [Mini!Names -> Nat] /\ outAgo' \in Nat
    <3>1. readings' = [t \in Mini!Names |-> IF t = s THEN v ELSE Mini!Expired(readings, receivedAgo)[t]]
      BY DEF Mini!Expired
    <3>2. \A t \in Mini!Names : readings'[t] = IF t = s THEN v ELSE Mini!Expired(readings, receivedAgo)[t]
      BY <3>1
    <3>3. readings' = [t \in Mini!Names |-> readings'[t]]
      BY <3>1, <3>2
    <3>4. QED
      BY <1>1, <3>3 DEF FusionTypeOK
  <2>2. checked' \in BOOLEAN
    BY <1>1 DEF FusionTypeOK
  <2>3. QED
    BY <2>1, <2>2, ComparedStep DEF FusionTypeOK
<1>3. \/ Mini!ActiveOf(readings') = "none"
      \/ Mini!ActiveOf(readings') \in Mini!Names /\ readings'[Mini!ActiveOf(readings')] # Mini!None
  BY ActiveIs
<1>4. OfTheActive'
  <2>1. SUFFICES ASSUME out' # Mini!Nothing
                 PROVE  /\ out'.of = Mini!ActiveOf(readings') /\ out'.of \in Mini!Names /\ readings'[out'.of] # Mini!None
                        /\ outAgo' = receivedAgo'[out'.of] /\ outAgo' <= SilentAfter + 1
                        /\ checked' => outAgo' <= SilentAfter
    BY DEF OfTheActive
  <2>2. CASE Mini!ActiveOf(readings') = s /\ outAgo' = 0 /\ out'.of = s
    BY <1>1, <1>3, <2>2, NamesAre, LinksAssumption DEF FusionTypeOK
  <2>3. CASE Mini!ActiveOf(readings') # s /\ Mini!ActiveOf(readings') = Mini!ActiveOf(readings) /\ UNCHANGED <<out, outAgo>>
    <3>1. /\ out.of = Mini!ActiveOf(readings) /\ out.of \in Mini!Names
          /\ outAgo = receivedAgo[out.of] /\ outAgo <= SilentAfter + 1
          /\ checked => outAgo <= SilentAfter
      BY <1>1, <2>1, <2>3 DEF OfTheActive
    <3>2. out.of # s /\ out.of # "none"
      BY <2>3, <3>1, NamesAre
    <3>3. receivedAgo'[out.of] = receivedAgo[out.of]
      BY <1>1, <3>1, <3>2 DEF FusionTypeOK
    <3>4. QED
      BY <1>3, <2>3, <3>1, <3>2, <3>3
  <2>4. QED
    BY <2>1, <2>2, <2>3
<1>5. QED
  BY <1>2, <1>4 DEF RotationInv

LEMMA FreshnessStep ==
  ASSUME RotationInv, checked' = TRUE, receivedAgo' = receivedAgo,
         readings' = Mini!Expired(readings, receivedAgo), Mini!PublishHealth(readings'),
         \/ out' = Mini!Nothing /\ outAgo' = 0
         \/ Mini!ActiveOf(readings') = Mini!ActiveOf(readings) /\ UNCHANGED <<out, outAgo>>
  PROVE  RotationInv'
<1>1. FusionTypeOK /\ OfTheActive
  BY DEF RotationInv
<1>2. TimedApart' /\ FusionTypeOK'
  <2>1. readings' = [t \in Mini!Names |-> readings'[t]] /\ receivedAgo' \in [Mini!Names -> Nat] /\ outAgo' \in Nat
    BY <1>1 DEF FusionTypeOK, Mini!Expired
  <2>2. QED
    BY <2>1, ComparedStep DEF FusionTypeOK
<1>3. \/ Mini!ActiveOf(readings') = "none"
      \/ Mini!ActiveOf(readings') \in Mini!Names /\ readings'[Mini!ActiveOf(readings')] # Mini!None
  BY ActiveIs
<1>4. OfTheActive'
  <2>1. SUFFICES ASSUME out' # Mini!Nothing
                 PROVE  /\ out'.of = Mini!ActiveOf(readings') /\ out'.of \in Mini!Names /\ readings'[out'.of] # Mini!None
                        /\ outAgo' = receivedAgo'[out'.of] /\ outAgo' <= SilentAfter + 1
                        /\ outAgo' <= SilentAfter
    BY DEF OfTheActive
  <2>2. Mini!ActiveOf(readings') = Mini!ActiveOf(readings) /\ UNCHANGED <<out, outAgo>>
    BY <2>1
  <2>3. /\ out.of = Mini!ActiveOf(readings) /\ out.of \in Mini!Names
        /\ outAgo = receivedAgo[out.of] /\ outAgo <= SilentAfter + 1
    BY <1>1, <2>1, <2>2 DEF OfTheActive
  <2>4. readings'[out.of] # Mini!None
    BY <1>3, <2>2, <2>3, NamesAre
  <2>5. receivedAgo[out.of] <= SilentAfter
    BY <2>3, <2>4 DEF Mini!Expired
  <2>6. QED
    BY <2>2, <2>3, <2>4, <2>5
<1>5. QED
  BY <1>2, <1>4 DEF RotationInv

LEMMA LeastReading ==
  ASSUME NEW a \in Nat, NEW b \in Nat
  PROVE  Mini!Min({a, b}) = IF a <= b THEN a ELSE b
<1>1. \E x \in {a, b} : \A y \in {a, b} : x <= y
  OBVIOUS
<1>2. Mini!Min({a, b}) \in {a, b} /\ \A y \in {a, b} : Mini!Min({a, b}) <= y
  BY <1>1 DEF Mini!Min
<1>3. QED
  BY <1>2

LEMMA TicksOn ==
  ASSUME RotationInv, Mini!Tick
  PROVE  RotationInv'
<1>1. FusionTypeOK /\ OfTheActive /\ TimedApart
  BY DEF RotationInv
<1>2. /\ checked /\ checked' = FALSE
      /\ UNCHANGED <<readings, fault, out, healthy>>
      /\ receivedAgo' = [s \in Mini!Names |-> IF readings[s] = Mini!None THEN 0 ELSE Mini!Min({receivedAgo[s] + 1, SilentAfter + 1})]
      /\ mismatchFor' = IF mismatchFor = Mini!None THEN Mini!None ELSE Mini!Min({mismatchFor + 1, Hold})
      /\ outAgo' = IF out = Mini!Nothing THEN 0 ELSE Mini!Min({outAgo + 1, SilentAfter + 2})
      /\ apart' = IF Mini!Apart(readings) THEN Mini!Min({apart + 1, Hold + 1}) ELSE 0
  BY DEF Mini!Tick
<1>3. \A a, b \in Nat : Mini!Min({a, b}) = (IF a <= b THEN a ELSE b) /\ Mini!Min({a, b}) \in Nat
  BY LeastReading
<1>4. /\ outAgo + 1 \in Nat /\ apart + 1 \in Nat /\ SilentAfter + 1 \in Nat /\ SilentAfter + 2 \in Nat
      /\ Hold \in Nat /\ Hold + 1 \in Nat /\ (mismatchFor # Mini!None => mismatchFor \in Nat /\ mismatchFor + 1 \in Nat)
      /\ \A s \in Mini!Names : receivedAgo[s] \in Nat /\ receivedAgo[s] + 1 \in Nat
  <2>1. SilentAfter \in Nat /\ Hold \in Nat
    BY LinksAssumption
  <2>2. /\ outAgo \in Nat /\ apart \in Nat /\ (mismatchFor # Mini!None => mismatchFor \in Nat)
        /\ \A s \in Mini!Names : receivedAgo[s] \in Nat
    BY <1>1 DEF FusionTypeOK
  <2>3. QED
    BY <2>1, <2>2
<1>5. FusionTypeOK'
  <2>1. receivedAgo' \in [Mini!Names -> Nat]
    BY <1>2, <1>3, <1>4
  <2>2. outAgo' \in Nat /\ apart' \in Nat
    BY <1>2, <1>3, <1>4
  <2>3. mismatchFor' \in Nat \cup {Mini!None}
    BY <1>2, <1>3, <1>4
  <2>4. QED
    BY <1>1, <1>2, <2>1, <2>2, <2>3 DEF FusionTypeOK
<1>6. OfTheActive'
  <2>1. CASE out = Mini!Nothing
    BY <1>2, <2>1 DEF OfTheActive
  <2>2. CASE out # Mini!Nothing
    <3> DEFINE a == out.of
    <3>1. /\ a = Mini!ActiveOf(readings) /\ a \in Mini!Names /\ readings[a] # Mini!None
          /\ outAgo = receivedAgo[a] /\ outAgo <= SilentAfter
      BY <1>1, <1>2, <2>2 DEF OfTheActive
    <3>2. outAgo' = Mini!Min({outAgo + 1, SilentAfter + 2}) /\ receivedAgo'[a] = Mini!Min({outAgo + 1, SilentAfter + 1})
      BY <1>2, <2>2, <3>1
    <3>3. outAgo' = outAgo + 1 /\ receivedAgo'[a] = outAgo + 1
      <4>1. outAgo \in Nat /\ SilentAfter \in Nat
        BY <1>1, LinksAssumption DEF FusionTypeOK
      <4>2. /\ Mini!Min({outAgo + 1, SilentAfter + 2}) = IF outAgo + 1 <= SilentAfter + 2 THEN outAgo + 1 ELSE SilentAfter + 2
            /\ Mini!Min({outAgo + 1, SilentAfter + 1}) = IF outAgo + 1 <= SilentAfter + 1 THEN outAgo + 1 ELSE SilentAfter + 1
        BY <1>3, <1>4
      <4>3. QED
        BY <3>1, <3>2, <4>1, <4>2
    <3>4. out' = out /\ readings' = readings /\ ~checked' /\ outAgo + 1 <= SilentAfter + 1
      BY <1>1, <1>2, <3>1, LinksAssumption DEF FusionTypeOK
    <3>5. QED
      BY <3>1, <3>3, <3>4 DEF OfTheActive
  <2>3. QED
    BY <2>1, <2>2
<1>7. TimedApart'
  <2> DEFINE S == Mini!Apart(readings)
  <2>1. /\ ~S => mismatchFor = Mini!None /\ apart = 0
        /\ S => mismatchFor = IF apart <= Hold THEN apart ELSE Hold
        /\ fault => S /\ apart >= Hold /\ ~healthy
        /\ apart >= Hold /\ S => fault
        /\ healthy => readings[Head(Sensors)] # Mini!None
        /\ apart \in Nat
    BY <1>1, <1>2 DEF TimedApart, FusionTypeOK
  <2>2. readings' = readings /\ fault' = fault /\ healthy' = healthy /\ ~checked'
    BY <1>2
  <2>3. TimedApart' <=>
          /\ ~S => mismatchFor' = Mini!None /\ apart' = 0
          /\ S => mismatchFor' = IF apart' <= Hold THEN apart' ELSE Hold
          /\ fault => S /\ apart' >= Hold /\ ~healthy
          /\ apart' > Hold => fault
          /\ healthy => readings[Head(Sensors)] # Mini!None
    BY <2>2 DEF TimedApart
  <2>4. /\ mismatchFor' = IF mismatchFor = Mini!None THEN Mini!None ELSE Mini!Min({mismatchFor + 1, Hold})
        /\ apart' = IF S THEN Mini!Min({apart + 1, Hold + 1}) ELSE 0
    BY <1>2
  <2> HIDE DEF S
  <2>5. CASE ~S
    BY <2>1, <2>3, <2>4, <2>5, <1>4
  <2>6. CASE S
    <3>1. mismatchFor # Mini!None /\ mismatchFor \in Nat /\ mismatchFor = IF apart <= Hold THEN apart ELSE Hold
      <4>1. mismatchFor = IF apart <= Hold THEN apart ELSE Hold
        BY <2>1, <2>6
      <4>2. mismatchFor \in Nat
        BY <1>4, <2>1, <4>1
      <4>3. QED
        BY <4>1, <4>2 DEF Mini!None
    <3>2. mismatchFor' = Mini!Min({mismatchFor + 1, Hold}) /\ apart' = Mini!Min({apart + 1, Hold + 1})
      BY <2>4, <2>6, <3>1
    <3>3. /\ mismatchFor' = IF mismatchFor + 1 <= Hold THEN mismatchFor + 1 ELSE Hold
          /\ apart' = IF apart + 1 <= Hold + 1 THEN apart + 1 ELSE Hold + 1
      BY <1>3, <1>4, <3>1, <3>2
    <3>4. mismatchFor' = IF apart' <= Hold THEN apart' ELSE Hold
      BY <1>4, <2>1, <3>1, <3>3
    <3>5. (apart >= Hold => apart' >= Hold) /\ (apart' > Hold => apart >= Hold)
      BY <1>4, <2>1, <3>3
    <3>6. QED
      BY <2>1, <2>3, <2>6, <3>4, <3>5
  <2>7. QED
    BY <2>5, <2>6
<1>8. QED
  BY <1>5, <1>6, <1>7 DEF RotationInv

LEMMA RotationRests ==
  ASSUME RotationInv, UNCHANGED <<readings, receivedAgo, mismatchFor, fault, out, healthy, outAgo, apart, checked>>
  PROVE  RotationInv'
BY DEF RotationInv, FusionTypeOK, OfTheActive, TimedApart

LEMMA DirectedStep ==
  ASSUME RotationInv, [Mini!FusionNext]_(Mini!fusionVars)
  PROVE  RotationInv'
<1>1. ASSUME NEW s \in Mini!Names, NEW v, Mini!Read(s, v) PROVE RotationInv'
  <2>1. /\ readings' = [Mini!Expired(readings, receivedAgo) EXCEPT ![s] = v]
        /\ receivedAgo' = [receivedAgo EXCEPT ![s] = 0]
        /\ Mini!PublishHealth(readings') /\ checked' = checked
    BY <1>1 DEF Mini!Read
  <2>2. \/ Mini!ActiveOf(readings') = s /\ outAgo' = 0 /\ out'.of = s
        \/ out' = Mini!Nothing /\ outAgo' = 0
        \/ Mini!ActiveOf(readings') # s /\ Mini!ActiveOf(readings') = Mini!ActiveOf(readings) /\ UNCHANGED <<out, outAgo>>
    BY <1>1 DEF Mini!Read
  <2>3. QED
    BY <2>1, <2>2, ReadingStep
<1>2. CASE Mini!CheckFreshness
  BY <1>2, FreshnessStep DEF Mini!CheckFreshness
<1>3. CASE Mini!FallSilent \/ (\E t \in -1..1 : Mini!Throttle(t)) \/ UNCHANGED Mini!fusionVars
  BY <1>3, RotationRests DEF Mini!FallSilent, Mini!Throttle, Mini!fusionVars
<1>4. QED
  BY <1>1, <1>2, <1>3, TicksOn DEF Mini!FusionNext

LEMMA UndirectedStep ==
  ASSUME RotationInv, [Undirected!FusionNext]_(Undirected!fusionVars)
  PROVE  RotationInv'
<1>1. ASSUME Undirected!PublishHealth(readings') PROVE Mini!PublishHealth(readings')
  BY <1>1, SameFusion DEF Undirected!PublishHealth, Mini!PublishHealth, Undirected!CrossCheck, Mini!CrossCheck
<1>2. ASSUME NEW s \in Mini!Names, NEW v, Undirected!Read(s, v) PROVE RotationInv'
  <2>1. /\ readings' = [Mini!Expired(readings, receivedAgo) EXCEPT ![s] = v]
        /\ receivedAgo' = [receivedAgo EXCEPT ![s] = 0]
        /\ Undirected!PublishHealth(readings') /\ checked' = checked
    BY <1>2, SameFusion DEF Undirected!Read
  <2>2. \/ Mini!ActiveOf(readings') = s /\ outAgo' = 0 /\ out'.of = s
        \/ out' = Mini!Nothing /\ outAgo' = 0
        \/ Mini!ActiveOf(readings') # s /\ Mini!ActiveOf(readings') = Mini!ActiveOf(readings) /\ UNCHANGED <<out, outAgo>>
    BY <1>2, SameFusion DEF Undirected!Read
  <2>3. QED
    BY <1>1, <2>1, <2>2, ReadingStep
<1>3. CASE Undirected!CheckFreshness
  BY <1>1, <1>3, SameFusion, FreshnessStep DEF Undirected!CheckFreshness
<1>4. CASE Undirected!FallSilent \/ (\E t \in -1..1 : Undirected!Throttle(t)) \/ UNCHANGED Undirected!fusionVars
  BY <1>4, RotationRests DEF Undirected!FallSilent, Undirected!Throttle, Undirected!fusionVars
<1>5. CASE Undirected!Tick
  <2>1. \A S : Undirected!Min(S) = Mini!Min(S)
    BY DEF Undirected!Min, Mini!Min
  <2>2. Mini!Tick
    BY <1>5, <2>1, SameFusion DEF Undirected!Tick, Mini!Tick
  <2>3. QED
    BY <2>2, TicksOn
<1>6. QED
  BY <1>2, <1>3, <1>4, <1>5, SameFusion DEF Undirected!FusionNext

LEMMA RotationTrue ==
  ASSUME RotationInv
  PROVE  Mini!RotationIsTrue /\ Undirected!RotationIsTrue
<1>1. Mini!RotationIsTrue
  BY DEF RotationInv, OfTheActive, TimedApart, Mini!RotationIsTrue
<1>2. QED
  BY <1>1, SameFusion DEF Mini!RotationIsTrue, Undirected!RotationIsTrue

-----------------------------------------------------------------------------
(* The links *)

LinksIInv ==
  /\ part = "local" => LocalIInv
  /\ part = "gateway" => GatewayInv
  /\ part = "planner" => PlannerInv /\ level = "ros"
  /\ part = "switch" => SwitchInv
  /\ part \in {"rotation", "undirected"} => RotationInv

LEMMA LinksStart == Init => LinksIInv
<1>1. Init => /\ Local!LocalInit /\ Gateway!GatewayInit /\ Mini!FusionInit
              /\ IF part = "switch" THEN Switch!DriveInit ELSE Planner!DriveInit
  BY DEF Init
<1>2. QED
  BY <1>1, LocalStart, GatewayStart, DriveStart, RotationStart DEF LinksIInv

\* A step is one of the part the behaviour is about.
LEMMA LinksStep ==
  ASSUME LinksIInv, [Next]_allVars
  PROVE  LinksIInv'
<1>1. part' = part
  BY DEF Next, Panes, LocalPart, DevicePart, GatewayPart, DrivePart, FusionPart, allVars
<1>2. CASE UNCHANGED allVars
  <2>1. /\ UNCHANGED Local!localVars /\ UNCHANGED Gateway!gatewayVars
        /\ UNCHANGED Planner!driveVars /\ UNCHANGED Switch!driveVars
        /\ UNCHANGED Mini!fusionVars /\ UNCHANGED Undirected!fusionVars
    <3>1. UNCHANGED <<localOnly, gatewayOnly, driveOnly, fusionOnly>>
      BY <1>2 DEF allVars, attachOnly, vehicleOnly
    <3>2. UNCHANGED Local!localVars
      BY <3>1 DEF localOnly, Local!localVars
    <3>3. UNCHANGED Gateway!gatewayVars
      BY <3>1 DEF gatewayOnly, Gateway!gatewayVars
    <3>4. UNCHANGED Planner!driveVars /\ UNCHANGED Switch!driveVars
      BY <3>1 DEF driveOnly, Planner!driveVars, Planner!bridge, Planner!watchdog, Planner!vms, Planner!freshness, Planner!motor,
                  Switch!driveVars, Switch!bridge, Switch!watchdog, Switch!vms, Switch!freshness, Switch!motor
    <3>5. UNCHANGED Mini!fusionVars /\ UNCHANGED Undirected!fusionVars
      BY <3>1 DEF fusionOnly, Mini!fusionVars, Undirected!fusionVars
    <3>6. QED
      BY <3>2, <3>3, <3>4, <3>5
  <2>2. QED
    BY <1>1, <2>1, LocalStep, GatewayStep, PlannerStep, SwitchStep, DirectedStep DEF LinksIInv
<1>3. CASE Next
  <2>1. CASE Panes \/ DevicePart(Device!DeviceNext)
    <3>1. part \notin Links \/ part = "devices"
      BY <2>1, PanesAssumption DEF Panes, PanesNext, DevicePart
    <3>2. QED
      BY <1>1, <3>1 DEF LinksIInv, Links
  <2>2. CASE LocalPart(Local!LocalNext)
    BY <1>1, <2>2, LocalStep DEF LocalPart, LinksIInv
  <2>3. CASE GatewayPart(Gateway!GatewayNext)
    BY <1>1, <2>3, GatewayStep DEF GatewayPart, LinksIInv
  <2>4. CASE DrivePart("planner", Planner!DriveNext)
    BY <1>1, <2>4, PlannerStep DEF DrivePart, LinksIInv
  <2>5. CASE DrivePart("switch", Switch!DriveNext)
    BY <1>1, <2>5, SwitchStep DEF DrivePart, LinksIInv
  <2>6. CASE FusionPart("rotation", Mini!FusionNext)
    BY <1>1, <2>6, DirectedStep DEF FusionPart, LinksIInv
  <2>7. CASE FusionPart("undirected", Undirected!FusionNext)
    BY <1>1, <2>7, UndirectedStep DEF FusionPart, LinksIInv
  <2>8. QED
    BY <1>3, <2>1, <2>2, <2>3, <2>4, <2>5, <2>6, <2>7 DEF Next
<1>4. QED
  BY <1>2, <1>3

\* A line is evaluated by the session it was typed in, a node is halted by
\* attach only when a spawn failed half-way, and no remsh outlives its session,
\* for attach to local nodes alone (LocalAttach, of local.rs and session.rs).
THEOREM LocalAttachIsTrue == Local!LocalSpec => []Local!LocalIsTrue
<1>1. LocalIInv /\ [Local!LocalNext]_(Local!localVars) => LocalIInv'
  BY LocalStep
<1>2. LocalIInv => Local!LocalIsTrue
  BY DEF LocalIInv, Orphans, Attended, Local!LocalIsTrue
<1>3. QED
  BY LocalStart, <1>1, <1>2, PTL DEF Local!LocalSpec

\* Each link tells the truth, through reconnections, crashes, lost frames,
\* switches of the source and readings that expire (session.rs, forwarder.ex
\* with collector.ex, velocity.ex with freshness.ex and motor_controller.ex,
\* and rotation_fusion.ex).
THEOREM LinksStayTrue == Spec => []LinksAreTrue
<1>1. LinksIInv /\ [Next]_allVars => LinksIInv'
  BY LinksStep
<1>2. LinksIInv => LinksAreTrue
  <2>1. LocalIInv => Local!LocalIsTrue
    BY DEF LocalIInv, Orphans, Attended, Local!LocalIsTrue
  <2>2. QED
    BY <2>1, GatewayTrue, DriveTrue, RotationTrue DEF LinksIInv, LinksAreTrue
<1>3. QED
  BY LinksStart, <1>1, <1>2, PTL DEF Spec
=============================================================================
