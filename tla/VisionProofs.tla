----------------------------- MODULE VisionProofs -----------------------------
(***************************************************************************)
(* What holds of the programs of vision/rust and their servers, for any    *)
(* number of segments, runs, frames, buffers and requests.                 *)
(*                                                                         *)
(* Detector: every message written is of the frame asked for, or of none,  *)
(* as a process that leaves a frame in its streams exits: between requests *)
(* the streams are empty.                                                  *)
(*                                                                         *)
(* Pairs: a buffer is in one place, between the device and the loop        *)
(* (OnePlace), so what is converted is what was taken (StillThere), and    *)
(* the frames of a side pass in the order they were taken (InOrder), so a  *)
(* frame is never in two pairs.                                            *)
(*                                                                         *)
(* libcamera: a request is in one place (OneOwner), so the frame it names  *)
(* is not written over while it is held (HoldsFrame), and what a control   *)
(* comes to is the last value sent, wherever it waits (LastControlIs).     *)
(*                                                                         *)
(* Port: the replies under way and the requests not computed yet, laid end *)
(* to end, are those the server waits for, in order (RepliesMatch,         *)
(* WorkMatches); messages of earlier Ports come before them all.  A run    *)
(* comes after the configuration it was sent with (RunsConfigured), after  *)
(* every run carried over (WorkInOrder), and what the server thinks        *)
(* configured is the last the Port is asked for, or a refusal is under way *)
(* (ServerKnows).                                                          *)
(***************************************************************************)
EXTENDS MCVision, FiniteSetTheorems, WellFoundedInduction, TLAPS

-----------------------------------------------------------------------------
(***************************************************************************)
(* Sequences                                                               *)
(***************************************************************************)

LEMMA TailIs ==
  ASSUME NEW S, NEW q \in Seq(S), q # <<>>
  PROVE  /\ Head(q) = q[1] /\ q[1] \in S /\ Tail(q) \in Seq(S) /\ Len(q) \in Nat \ {0}
         /\ 1 \in DOMAIN q /\ DOMAIN q = 1..Len(q) /\ Len(Tail(q)) = Len(q) - 1
         /\ DOMAIN Tail(q) = 1..(Len(q) - 1)
         /\ \A n \in DOMAIN Tail(q) : n + 1 \in DOMAIN q /\ n + 1 # 1 /\ Tail(q)[n] = q[n + 1]
  OBVIOUS

LEMMA AppendIs ==
  ASSUME NEW S, NEW q \in Seq(S), NEW x \in S
  PROVE  /\ Append(q, x) \in Seq(S) /\ Len(q) \in Nat /\ DOMAIN q = 1..Len(q)
         /\ Len(Append(q, x)) = Len(q) + 1 /\ DOMAIN Append(q, x) = 1..(Len(q) + 1)
         /\ \A n \in DOMAIN q : n \in DOMAIN Append(q, x) /\ Append(q, x)[n] = q[n]
         /\ Append(q, x)[Len(q) + 1] = x
         /\ \A n \in DOMAIN Append(q, x) : n \in DOMAIN q \/ n = Len(q) + 1
  OBVIOUS

LEMMA ConcatIs ==
  ASSUME NEW S, NEW p \in Seq(S), NEW q \in Seq(S)
  PROVE  /\ p \o q \in Seq(S) /\ Len(p \o q) = Len(p) + Len(q)
         /\ Len(p) \in Nat /\ Len(q) \in Nat
         /\ DOMAIN (p \o q) = 1..(Len(p) + Len(q))
         /\ \A n \in 1..Len(p) : (p \o q)[n] = p[n]
         /\ \A n \in 1..Len(q) : (p \o q)[Len(p) + n] = q[n]
         /\ \A n \in 1..(Len(p) + Len(q)) : n \notin 1..Len(p) => n - Len(p) \in 1..Len(q) /\ (p \o q)[n] = q[n - Len(p)]
  OBVIOUS

LEMMA ConcatThree ==
  ASSUME NEW S, NEW p \in Seq(S), NEW q \in Seq(S), NEW r \in Seq(S)
  PROVE  p \o (q \o r) = (p \o q) \o r
  OBVIOUS

LEMMA AppendLast ==
  ASSUME NEW S, NEW p \in Seq(S), NEW q \in Seq(S), NEW x \in S
  PROVE  p \o Append(q, x) = Append(p \o q, x)
  OBVIOUS

\* The first of one sequence becomes the last of the one before it.
LEMMA MoveIs ==
  ASSUME NEW S, NEW p \in Seq(S), NEW q \in Seq(S), q # <<>>
  PROVE  Append(p, Head(q)) \o Tail(q) = p \o q
  OBVIOUS

LEMMA SequenceIs ==
  ASSUME NEW S, NEW N \in Nat, NEW f, f = [n \in 1..N |-> f[n]], \A n \in 1..N : f[n] \in S
  PROVE  f \in Seq(S)
<1>1. f \in [1..N -> S]
  OBVIOUS
<1>2. QED
  BY <1>1

LEMMA ElementIs ==
  ASSUME NEW S, NEW q \in Seq(S), NEW n \in DOMAIN q
  PROVE  q[n] \in S
  OBVIOUS

LEMMA ReplaceIs ==
  ASSUME NEW S, NEW q \in Seq(S), NEW n \in DOMAIN q, NEW x \in S
  PROVE  /\ [q EXCEPT ![n] = x] \in Seq(S) /\ DOMAIN [q EXCEPT ![n] = x] = DOMAIN q
         /\ Len([q EXCEPT ![n] = x]) = Len(q)
         /\ \A m \in DOMAIN q : [q EXCEPT ![n] = x][m] = IF m = n THEN x ELSE q[m]
  OBVIOUS

-----------------------------------------------------------------------------
(***************************************************************************)
(* The detector and its server                                             *)
(***************************************************************************)

\* What a process writes: detections, of the frame it was asked for if any
\* were made, or that it has exited.
Written ==
  {m \in [from : Nat, kind : {"detections"}, frame : Nat, detections : Int] :
     m.detections \in {m.frame, D!NoDetections}}
    \union [from : Nat, kind : {"exit"}]

ProcessState ==
  [pc : {"absent", "opening", "reading", "exited"}, connected : BOOLEAN, request : Nat,
   handles : SUBSET {"vdevice", "hef", "inputs", "outputs"}, streams : {<<>>}]

\* Between requests no frame is in a process's streams: one that leaves its
\* frame there exits.
DetectorInv ==
  /\ frames \in Nat
  /\ process \in [D!Instances -> ProcessState]
  /\ messages \in Seq(Written)
  /\ D!DetectionsOfFrame

LEMMA DetectorStart ==
  ASSUME D!DetectorInit
  PROVE  DetectorInv
<1>1. /\ frames = 0 /\ messages = <<>> /\ delivered = {}
      /\ process = [i \in D!Instances |-> IF i = 1 THEN D!Starting ELSE D!NotStarted]
  BY DEF D!DetectorInit
<1>2. D!Starting \in ProcessState /\ D!NotStarted \in ProcessState
  BY DEF D!Starting, D!NotStarted, ProcessState
<1>3. QED
  BY <1>1, <1>2 DEF DetectorInv, D!DetectionsOfFrame

\* A process that exits says so after what it wrote.
LEMMA ExitsTyped ==
  ASSUME DetectorInv, NEW i \in D!Instances, NEW w \in Seq(Written), D!Exits(i, w)
  PROVE  process' \in [D!Instances -> ProcessState] /\ messages' \in Seq(Written)
<1>1. D!Released(i) \in ProcessState
  BY DEF D!Released, DetectorInv, ProcessState
<1>2. [from |-> i, kind |-> "exit"] \in Written
  BY DEF D!Instances, Written
<1>3. process' = [process EXCEPT ![i] = D!Released(i)]
  BY DEF D!Exits
<1>4. messages' \in {messages, messages \o w \o <<[from |-> i, kind |-> "exit"]>>}
  BY DEF D!Exits
<1> DEFINE exit == [from |-> i, kind |-> "exit"]
<1> HIDE DEF exit
<1>5. messages' \in Seq(Written)
  <2>1. messages \in Seq(Written) /\ <<exit>> \in Seq(Written)
    BY <1>2 DEF DetectorInv, exit
  <2>2. messages \o w \o <<exit>> \in Seq(Written)
    BY <2>1
  <2>3. QED
    BY <1>4, <2>1, <2>2 DEF exit
<1>6. QED
  BY <1>1, <1>3, <1>5 DEF DetectorInv

LEMMA InferStep ==
  ASSUME DetectorInv, NEW i \in D!Instances, D!Infer(i)
  PROVE  DetectorInv'
<1>1. PICK outcome \in D!Outcomes :
        LET asked == process[i].request
            streams == process[i].streams
            reply == D!ReplyFor(outcome)
            made == IF reply = "detections" THEN Head(Append(streams, asked)) ELSE D!NoDetections
            one == <<[from |-> i, kind |-> "detections", frame |-> asked, detections |-> made]>>
        IN  IF reply = "empty_then_exit" \/ ~process[i].connected THEN D!Exits(i, one)
            ELSE /\ messages' = messages \o one
                 /\ process' = [process EXCEPT ![i].request = 0,
                                 ![i].streams = D!StreamsAfter(streams, asked, outcome)]
  BY DEF D!Infer
<1> DEFINE asked == process[i].request
           reply == D!ReplyFor(outcome)
           made == IF reply = "detections" THEN Head(Append(<<>>, asked)) ELSE D!NoDetections
           answer == [from |-> i, kind |-> "detections", frame |-> asked, detections |-> made]
<1>2. process[i] \in ProcessState /\ asked \in Nat /\ process[i].streams = <<>>
  BY DEF DetectorInv, ProcessState
<1>3. made \in {asked, D!NoDetections} /\ D!NoDetections \in Int
  BY <1>2 DEF D!NoDetections
<1>4. answer \in Written
  BY <1>2, <1>3 DEF Written, D!Instances
<1>5. /\ delivered' = delivered /\ frames' = frames
      /\ \/ D!Exits(i, <<answer>>)
         \/ /\ reply # "empty_then_exit" /\ messages' = messages \o <<answer>>
            /\ process' = [process EXCEPT ![i].request = 0,
                            ![i].streams = D!StreamsAfter(<<>>, asked, outcome)]
  BY <1>1, <1>2 DEF D!Infer
<1>6. reply # "empty_then_exit" => D!StreamsAfter(<<>>, asked, outcome) = <<>>
  BY <1>2 DEF D!Outcomes, D!ReplyFor, D!StreamsAfter
<1> HIDE DEF answer, reply
<1>7. CASE D!Exits(i, <<answer>>)
  <2>1. <<answer>> \in Seq(Written)
    BY <1>4
  <2>2. process' \in [D!Instances -> ProcessState] /\ messages' \in Seq(Written)
    BY <1>7, <2>1, ExitsTyped
  <2>3. QED
    BY <1>5, <2>2 DEF DetectorInv, D!DetectionsOfFrame
<1>8. CASE ~D!Exits(i, <<answer>>)
  <2>1. process' = [process EXCEPT ![i].request = 0, ![i].streams = <<>>]
    BY <1>5, <1>6, <1>8
  <2>2. [process[i] EXCEPT !.request = 0, !.streams = <<>>] \in ProcessState
    BY <1>2 DEF ProcessState
  <2>3. process' \in [D!Instances -> ProcessState]
    BY <2>1, <2>2 DEF DetectorInv
  <2>4. messages' \in Seq(Written)
    BY <1>4, <1>5, <1>8 DEF DetectorInv
  <2>5. QED
    BY <1>5, <2>3, <2>4 DEF DetectorInv, D!DetectionsOfFrame
<1>9. QED
  BY <1>7, <1>8

LEMMA DetectorStep ==
  ASSUME DetectorInv, D!DetectorNext
  PROVE  DetectorInv'
<1>0. D!Starting \in ProcessState
  BY DEF D!Starting, D!NotStarted, ProcessState
<1>1. CASE D!Detect
  <2>1. /\ frames' = frames + 1 /\ UNCHANGED <<messages, delivered>>
        /\ process' \in {process, [process EXCEPT ![link].request = frames + 1]}
    BY <1>1 DEF D!Detect
  <2>2. process' \in [D!Instances -> ProcessState]
    BY <2>1 DEF DetectorInv, ProcessState
  <2>3. QED
    BY <2>1, <2>2 DEF DetectorInv, D!DetectionsOfFrame
<1>2. CASE D!Raise
  <2>1. process' \in [D!Instances -> ProcessState]
    BY <1>0, <1>2 DEF D!Raise, DetectorInv
  <2>2. frames' \in Nat /\ messages' = <<>> /\ delivered' = delivered
    BY <1>2 DEF D!Raise, DetectorInv
  <2>3. QED
    BY <2>1, <2>2 DEF DetectorInv, D!DetectionsOfFrame
<1>3. CASE D!HandleMessage
  <2>1. messages # <<>> /\ messages' = Tail(messages) /\ UNCHANGED <<frames, process>>
    BY <1>3 DEF D!HandleMessage
  <2>2. Head(messages) \in Written /\ messages' \in Seq(Written)
    BY <2>1 DEF DetectorInv
  <2>3. \/ delivered' = delivered
        \/ /\ Head(messages).kind # "exit"
           /\ delivered' = delivered \union {<<Head(messages).frame, Head(messages).detections>>}
    BY <1>3 DEF D!HandleMessage, D!Deliver
  <2>4. D!DetectionsOfFrame'
    BY <2>2, <2>3 DEF DetectorInv, D!DetectionsOfFrame, Written
  <2>5. QED
    BY <2>1, <2>2, <2>4 DEF DetectorInv
<1>4. CASE D!InferTimeout
  BY <1>4 DEF D!InferTimeout, D!Disconnected, DetectorInv, ProcessState, D!DetectionsOfFrame
<1>5. CASE D!Reopen
  BY <1>0, <1>5 DEF D!Reopen, DetectorInv, D!DetectionsOfFrame
<1>6. ASSUME NEW i \in D!Instances, D!Open(i) PROVE DetectorInv'
  BY <1>6 DEF D!Open, DetectorInv, ProcessState, D!DetectionsOfFrame
<1>7. ASSUME NEW i \in D!Instances, D!OpenFails(i) \/ D!EndOfInput(i) PROVE DetectorInv'
  <2>1. <<>> \in Seq(Written)
    OBVIOUS
  <2>2. D!Exits(i, <<>>) /\ UNCHANGED <<frames, delivered>>
    BY <1>7 DEF D!OpenFails, D!EndOfInput
  <2>3. QED
    BY <2>1, <2>2, ExitsTyped DEF DetectorInv, D!DetectionsOfFrame
<1>8. QED
  BY <1>1, <1>2, <1>3, <1>4, <1>5, <1>6, <1>7, InferStep DEF D!DetectorNext, D!ProcessStep

LEMMA DetectorIdle ==
  ASSUME DetectorInv, UNCHANGED detectorOnly
  PROVE  DetectorInv'
  BY DEF DetectorInv, detectorOnly, D!DetectionsOfFrame

-----------------------------------------------------------------------------
(***************************************************************************)
(* Pairs of frames                                                         *)
(***************************************************************************)

\* The side whose frame is being converted.
HandOf(s) == at = C!Converting[s]

Frame == [start : Int, grey : Int]
Filled == [index : 1..Buffers, start : Int, whole : BOOLEAN]

PairsTypeOK ==
  /\ exposed \in [C!Sides -> Nat]
  /\ queued \in [C!Sides -> Seq(1..Buffers)]
  /\ filled \in [C!Sides -> Seq(Filled)]
  /\ content \in [C!Sides -> [1..Buffers -> Int]]
  /\ skew \in Skews
  /\ at \in {"poll", "left", "right", "stopped", "convert_left", "convert_right"}
  /\ (\E s \in C!Sides : HandOf(s)) => hand \in [index : 1..Buffers, start : Int]
  /\ newest \in [C!Sides -> Frame]
  /\ pairs \in Seq([C!Sides -> Frame])
  /\ settings \in [auto : BOOLEAN, exposure : Int, longest : Int]
  /\ exposing \in Int /\ commands \in Nat

\* A buffer is in one place.
OnePlace(s) ==
  /\ \A m, n \in DOMAIN queued[s] : m # n => queued[s][m] # queued[s][n]
  /\ \A m, n \in DOMAIN filled[s] : m # n => filled[s][m].index # filled[s][n].index
  /\ \A m \in DOMAIN queued[s], n \in DOMAIN filled[s] : queued[s][m] # filled[s][n].index
  /\ HandOf(s) =>
       /\ \A m \in DOMAIN queued[s] : queued[s][m] # hand.index
       /\ \A n \in DOMAIN filled[s] : filled[s][n].index # hand.index

\* A frame to be converted is still in its buffer.
StillThere(s) ==
  /\ \A n \in DOMAIN filled[s] : content[s][filled[s][n].index] = filled[s][n].start
  /\ HandOf(s) => content[s][hand.index] = hand.start

\* Every frame of a side so far started before.
NextStart(s) == (exposed[s] + 1) * FramePeriod

\* The frames of a side go through the loop in the order they were taken.
Passed(s, start) ==
  /\ newest[s].start < start
  /\ \A i \in DOMAIN pairs : pairs[i][s].start < start

InOrder(s) ==
  /\ Passed(s, NextStart(s))
  /\ \A n \in DOMAIN filled[s] :
       /\ filled[s][n].start \in 0..(NextStart(s) - 1)
       /\ Passed(s, filled[s][n].start)
       /\ \A m \in DOMAIN filled[s] : m < n => filled[s][m].start < filled[s][n].start
  /\ HandOf(s) =>
       /\ hand.start \in 0..(NextStart(s) - 1)
       /\ Passed(s, hand.start)
       /\ \A n \in DOMAIN filled[s] : hand.start < filled[s][n].start
  /\ newest[s] = C!NoFrame \/ \A i \in DOMAIN pairs : pairs[i][s].start < newest[s].start
  /\ newest[s].grey = newest[s].start

PairsInv ==
  /\ PairsTypeOK
  /\ \A s \in C!Sides : OnePlace(s) /\ StillThere(s) /\ InOrder(s)
  /\ C!PairsAreTrue /\ C!BuffersKept /\ C!ExposureContinues


LEMMA ExtremesOfTwo ==
  ASSUME NEW a \in Int, NEW b \in Int
  PROVE  /\ C!Min({a, b}) = IF a <= b THEN a ELSE b
         /\ C!Max({a, b}) = IF a >= b THEN a ELSE b
         /\ C!Min({a, b}) \in Int /\ C!Max({a, b}) \in Int
<1>1. /\ C!Min({a, b}) = IF a <= b THEN a ELSE b
      /\ C!Max({a, b}) = IF a >= b THEN a ELSE b
  BY DEF C!Min, C!Max
<1>2. QED
  BY <1>1

LEMMA LinesIs ==
  ASSUME NEW e \in Int
  PROVE  /\ C!Lines(e) = IF e < 1 THEN 1 ELSE IF e <= MaxLines THEN e ELSE MaxLines
         /\ C!Lines(C!Lines(e)) = C!Lines(e)
         /\ C!Lines(e) \in Int
<1>2. ASSUME NEW f \in Int
      PROVE  C!Lines(f) = IF f < 1 THEN 1 ELSE IF f <= MaxLines THEN f ELSE MaxLines
  <2>1. MaxLines \in Int /\ MaxLines >= 1
    BY VisionAssumption
  <2>2. C!Min({f, MaxLines}) = IF f <= MaxLines THEN f ELSE MaxLines
    BY <2>1, ExtremesOfTwo
  <2> DEFINE m == C!Min({f, MaxLines})
  <2>3. m \in Int
    BY <2>1, <2>2
  <2> HIDE DEF m
  <2>4. C!Max({1, m}) = IF 1 >= m THEN 1 ELSE m
    <3>1. 1 \in Int
      OBVIOUS
    <3>2. QED
      BY ONLY <2>3, <3>1, ExtremesOfTwo
  <2>5. QED
    BY <2>1, <2>2, <2>3, <2>4 DEF C!Lines, m
<1>3. QED
  BY <1>2, VisionAssumption

LEMMA CountsTwo ==
  ASSUME NEW a \in Nat, NEW b \in Nat, NEW c, c = 0
  PROVE  a + b + c = Buffers <=> a + b = Buffers
  OBVIOUS

LEMMA SidesAre == C!Sides = {"left", "right"} /\ C!Converting = [left |-> "convert_left", right |-> "convert_right"]
  BY DEF C!Sides, C!Converting

LEMMA FramesTyped ==
  ASSUME PairsInv, NEW s \in C!Sides
  PROVE  /\ queued[s] \in Seq(1..Buffers)
         /\ filled[s] \in Seq(Filled)
         /\ NextStart(s) \in Int /\ newest[s] \in Frame
         /\ \A i \in DOMAIN pairs : pairs[i][s] \in Frame
         /\ \A n \in DOMAIN filled[s] : filled[s][n].start \in Int /\ filled[s][n].index \in 1..Buffers
         /\ HandOf(s) => hand.start \in Int /\ hand.index \in 1..Buffers
<1>1. exposed[s] \in Nat /\ FramePeriod \in Nat
  BY VisionAssumption DEF PairsInv, PairsTypeOK
<1>2. NextStart(s) \in Int
  BY <1>1 DEF NextStart
<1>3. /\ queued[s] \in Seq(1..Buffers) /\ filled[s] \in Seq(Filled) /\ newest[s] \in Frame
      /\ pairs \in Seq([C!Sides -> Frame])
      /\ HandOf(s) => hand \in [index : 1..Buffers, start : Int]
  BY DEF PairsInv, PairsTypeOK
<1>4. \A i \in DOMAIN pairs : pairs[i][s] \in Frame
  BY <1>3
<1>5. \A n \in DOMAIN filled[s] : filled[s][n] \in Filled
  BY <1>3
<1>6. QED
  BY <1>2, <1>3, <1>4, <1>5 DEF Filled

\* A step that leaves a side as it is, or only lets time pass.
LEMMA SideKept ==
  ASSUME PairsInv, NEW u \in C!Sides,
         queued'[u] = queued[u], filled'[u] = filled[u], content'[u] = content[u],
         newest'[u] = newest[u], pairs' = pairs, HandOf(u)' => HandOf(u) /\ hand' = hand,
         NextStart(u)' \in Int, NextStart(u)' >= NextStart(u)
  PROVE  OnePlace(u)' /\ StillThere(u)' /\ InOrder(u)'
<1>1. OnePlace(u) /\ StillThere(u) /\ InOrder(u)
  BY DEF PairsInv
<1>2. OnePlace(u)' /\ StillThere(u)'
  BY <1>1 DEF OnePlace, StillThere
<1> DEFINE f == filled[u]  now == NextStart(u)  then == NextStart(u)'
<1>3. now \in Int /\ then \in Int /\ then >= now /\ newest[u].start \in Int
      /\ \A i \in DOMAIN pairs : pairs[i][u].start \in Int
      /\ \A n \in DOMAIN f : f[n].start \in Int
      /\ HandOf(u) => hand.start \in Int
  BY FramesTyped DEF Frame
<1>4. /\ Passed(u, now)
      /\ \A n \in DOMAIN f :
           /\ f[n].start \in 0..(now - 1) /\ Passed(u, f[n].start)
           /\ \A m \in DOMAIN f : m < n => f[m].start < f[n].start
      /\ HandOf(u) =>
           /\ hand.start \in 0..(now - 1) /\ Passed(u, hand.start)
           /\ \A n \in DOMAIN f : hand.start < f[n].start
      /\ newest[u] = C!NoFrame \/ \A i \in DOMAIN pairs : pairs[i][u].start < newest[u].start
      /\ newest[u].grey = newest[u].start
  BY <1>1 DEF InOrder
<1> HIDE DEF f, now, then
<1>5. /\ Passed(u, then)
      /\ \A n \in DOMAIN f : f[n].start \in 0..(then - 1)
      /\ HandOf(u) => hand.start \in 0..(then - 1)
  BY <1>3, <1>4 DEF Passed
<1>6. InOrder(u)'
  BY <1>4, <1>5 DEF InOrder, Passed, C!NoFrame, f, then
<1>7. QED
  BY <1>2, <1>6

\* A frame starts after every one its sensor took before, though it was moved.
LEMMA StartsInTurn ==
  ASSUME PairsInv, NEW s \in C!Sides, exposed' = [exposed EXCEPT ![s] = @ + 1],
         NEW behind \in {0, skew}
  PROVE  LET start == exposed'[s] * FramePeriod + behind
         IN  /\ start \in Nat /\ NextStart(s) <= start /\ start < NextStart(s)'
             /\ NextStart(s)' \in Int /\ NextStart(s) \in Nat
<1> DEFINE e == exposed[s]  K == FramePeriod
<1>1. e \in Nat /\ K \in Nat /\ behind \in Nat /\ behind < K /\ exposed'[s] = e + 1
  BY VisionAssumption DEF PairsInv, PairsTypeOK
<1>2. NextStart(s) = (e + 1) * K /\ NextStart(s)' = (e + 1 + 1) * K
  BY <1>1 DEF NextStart
<1> HIDE DEF e, K
<1>3. (e + 1) * K \in Nat
  BY <1>1
<1>4. (e + 1 + 1) * K = (e + 1) * K + K
  BY <1>1
<1>5. exposed'[s] * FramePeriod = (e + 1) * K
  BY <1>1 DEF K
<1>6. QED
  BY <1>1, <1>2, <1>3, <1>4, <1>5

LEMMA ExposeStep ==
  ASSUME PairsInv, NEW s \in C!Sides, C!Expose(s)
  PROVE  PairsInv'
<1> DEFINE behind == IF s = "right" THEN skew ELSE 0
           start == exposed'[s] * FramePeriod + behind
           b == Head(queued[s])
<1>1. /\ exposed' = [exposed EXCEPT ![s] = @ + 1]
      /\ UNCHANGED <<skew, at, hand, newest, pairs, settings, exposing, sensors, commands>>
  BY DEF C!Expose, C!exposureVars
<1>2. start \in Nat /\ NextStart(s) <= start /\ start < NextStart(s)' /\ NextStart(s)' \in Int
  BY <1>1, StartsInTurn
<1> HIDE DEF behind
<1>3. /\ exposed' \in [C!Sides -> Nat]
      /\ \A u \in C!Sides \ {s} : NextStart(u)' = NextStart(u)
      /\ \A u \in C!Sides : HandOf(u)' <=> HandOf(u)
  BY <1>1 DEF PairsInv, PairsTypeOK, NextStart, HandOf
<1>4. C!PairsAreTrue' /\ C!ExposureContinues'
  BY <1>1 DEF PairsInv, C!PairsAreTrue, C!ExposureContinues, C!Lines
<1>5. CASE queued[s] = <<>>
  <2>1. UNCHANGED <<queued, filled, content>>
    BY <1>5 DEF C!Expose
  <2>2. PairsTypeOK' /\ C!BuffersKept'
    BY <1>1, <1>3, <2>1 DEF PairsInv, PairsTypeOK, C!BuffersKept, HandOf
  <2>3. ASSUME NEW u \in C!Sides PROVE OnePlace(u)' /\ StillThere(u)' /\ InOrder(u)'
    <3>1. NextStart(u)' \in Int /\ NextStart(u)' >= NextStart(u)
      BY <1>2, <1>3, FramesTyped
    <3>2. QED
      BY <1>1, <1>3, <2>1, <3>1, SideKept
  <2>4. QED
    BY <1>4, <2>2, <2>3 DEF PairsInv
<1>6. CASE queued[s] # <<>>
  <2>1. PICK whole \in BOOLEAN :
          /\ queued' = [queued EXCEPT ![s] = Tail(@)]
          /\ content' = [content EXCEPT ![s][b] = start]
          /\ filled' = [filled EXCEPT ![s] = Append(@, [index |-> b, start |-> start, whole |-> whole])]
    BY <1>6 DEF C!Expose, behind
  <2> DEFINE new == [index |-> b, start |-> start, whole |-> whole]
             q == queued[s]  f == filled[s]
  <2> HIDE DEF start
  <2>2. /\ b = q[1] /\ b \in 1..Buffers /\ Tail(q) \in Seq(1..Buffers)
        /\ Len(Tail(q)) = Len(q) - 1 /\ Len(q) \in Nat /\ 1 \in DOMAIN q
        /\ \A n \in DOMAIN Tail(q) : n + 1 \in DOMAIN q /\ n + 1 # 1 /\ Tail(q)[n] = q[n + 1]
    BY <1>6, TailIs, FramesTyped
  <2>3. new \in Filled
    BY <1>2, <2>2 DEF Filled
  <2>31. /\ filled' = [filled EXCEPT ![s] = Append(@, new)]
         /\ new.index = b /\ new.start = start
    BY <2>1
  <2> HIDE DEF new
  <2>4. /\ Append(f, new) \in Seq(Filled)
        /\ Len(f) \in Nat /\ DOMAIN f = 1..Len(f) /\ Len(Append(f, new)) = Len(f) + 1
        /\ Append(f, new)[Len(f) + 1] = new
        /\ \A n \in DOMAIN f : Append(f, new)[n] = f[n]
        /\ \A n \in DOMAIN Append(f, new) : n \in DOMAIN f \/ n = Len(f) + 1
    BY <2>3, AppendIs, FramesTyped
  <2>5. /\ queued'[s] = Tail(q) /\ filled'[s] = Append(f, new)
        /\ content'[s][b] = start
        /\ \A c \in (1..Buffers) \ {b} : content'[s][c] = content[s][c]
        /\ \A u \in C!Sides \ {s} :
             queued'[u] = queued[u] /\ filled'[u] = filled[u] /\ content'[u] = content[u]
    BY <2>1, <2>2, <2>31 DEF PairsInv, PairsTypeOK
  <2>6. PairsTypeOK'
    <3>1. queued' \in [C!Sides -> Seq(1..Buffers)]
      BY <2>1, <2>2 DEF PairsInv, PairsTypeOK
    <3>2. filled' \in [C!Sides -> Seq(Filled)]
      BY <2>31, <2>4 DEF PairsInv, PairsTypeOK
    <3>3. content' \in [C!Sides -> [1..Buffers -> Int]]
      BY <1>2, <2>1, <2>2 DEF PairsInv, PairsTypeOK
    <3>4. QED
      BY <1>1, <1>3, <3>1, <3>2, <3>3 DEF PairsInv, PairsTypeOK
  <2>7. C!BuffersKept'
    <3>1. ASSUME at # "stopped", NEW u \in C!Sides
          PROVE  Len(queued'[u]) + Len(filled'[u]) + (IF at = C!Converting[u] THEN 1 ELSE 0) = Buffers
      <4>1. Len(queued[u]) + Len(filled[u]) + (IF at = C!Converting[u] THEN 1 ELSE 0) = Buffers
        BY <3>1 DEF PairsInv, C!BuffersKept
      <4>2. CASE u = s
        <5>1. Len(queued'[s]) = Len(q) - 1 /\ Len(filled'[s]) = Len(f) + 1
          BY <2>2, <2>4, <2>5
        <5>2. Len(q) \in Nat /\ Len(f) \in Nat
          BY <2>2, <2>4
        <5>3. Len(q) + Len(f) + (IF at = C!Converting[s] THEN 1 ELSE 0) = Buffers
          BY <4>1, <4>2
        <5> HIDE DEF q, f
        <5>4. QED
          BY <4>2, <5>1, <5>2, <5>3
      <4>3. CASE u # s
        BY <2>5, <4>1, <4>3
      <4>4. QED
        BY <4>2, <4>3
    <3>2. QED
      BY <1>1, <3>1 DEF C!BuffersKept, C!Converting
  <2> DEFINE q2 == queued'[s]  f2 == filled'[s]
  <2>8. /\ b \in 1..Buffers /\ new.index = b /\ new.start = start
        /\ \A m \in DOMAIN q2 : m + 1 \in DOMAIN q /\ m + 1 # 1 /\ q2[m] = q[m + 1] /\ m \in Int
        /\ \A n \in DOMAIN f2 : (n \in DOMAIN f /\ f2[n] = f[n] /\ n < Len(f) + 1) \/ (n = Len(f) + 1 /\ f2[n] = new)
        /\ \A n \in DOMAIN f : f[n].index \in 1..Buffers
    BY <2>2, <2>31, <2>4, <2>5, FramesTyped
  <2> HIDE DEF q2, f2, q, f
  <2>9. OnePlace(s)'
    <3>1. /\ \A m, n \in DOMAIN q : m # n => q[m] # q[n]
          /\ \A m, n \in DOMAIN f : m # n => f[m].index # f[n].index
          /\ \A m \in DOMAIN q, n \in DOMAIN f : q[m] # f[n].index
      BY DEF PairsInv, OnePlace, q, f
    <3>2. /\ \A m \in DOMAIN q2 : q2[m] # b
          /\ \A n \in DOMAIN f : f[n].index # b
      BY <2>2, <2>8, <3>1 DEF q
    <3>3. /\ \A m, n \in DOMAIN q2 : m # n => q2[m] # q2[n]
          /\ \A m, n \in DOMAIN f2 : m # n => f2[m].index # f2[n].index
          /\ \A m \in DOMAIN q2, n \in DOMAIN f2 : q2[m] # f2[n].index
      BY <2>8, <3>1, <3>2
    <3>4. ASSUME HandOf(s)
          PROVE  /\ \A m \in DOMAIN q2 : q2[m] # hand.index
                 /\ \A n \in DOMAIN f2 : f2[n].index # hand.index
      <4>1. /\ \A m \in DOMAIN q : q[m] # hand.index
            /\ \A n \in DOMAIN f : f[n].index # hand.index
        BY <3>4 DEF PairsInv, OnePlace, q, f
      <4>2. QED
        BY <2>2, <2>8, <4>1 DEF q
    <3>5. QED
      BY <1>1, <1>3, <3>3, <3>4 DEF OnePlace, q2, f2
  <2>10. StillThere(s)'
    <3>1. /\ \A n \in DOMAIN f : f[n].index # b /\ content[s][f[n].index] = f[n].start
          /\ HandOf(s) => hand.index # b /\ hand.index \in 1..Buffers /\ content[s][hand.index] = hand.start
      <4>1. OnePlace(s) /\ StillThere(s) /\ 1 \in DOMAIN q /\ b = q[1]
        BY <2>2 DEF PairsInv, q
      <4>2. HandOf(s) => hand.index \in 1..Buffers
        BY FramesTyped
      <4>3. QED
        BY <4>1, <4>2 DEF OnePlace, StillThere, q, f
    <3>2. QED
      BY <1>1, <1>3, <2>5, <2>8, <3>1 DEF StillThere, f2, f
  <2>11. InOrder(s)'
    <3>1. \A x : Passed(s, x)' <=> Passed(s, x)
      BY <1>1 DEF Passed
    <3>2. InOrder(s)
      BY DEF PairsInv
    <3>3. NextStart(s) \in Int /\ start \in Int /\ \A n \in DOMAIN f : f[n].start \in Int
      BY <1>2, FramesTyped DEF f, start
    <3>4. Passed(s, start) /\ Passed(s, NextStart(s)')
      BY <1>2, <3>2, <3>3, FramesTyped DEF InOrder, Passed, Frame, start
    <3>5. \A n \in DOMAIN f : f[n].start \in 0..(NextStart(s) - 1) /\ Passed(s, f[n].start)
                              /\ \A m \in DOMAIN f : m < n => f[m].start < f[n].start
      BY <3>2 DEF InOrder, f
    <3>6. start \in 0..(NextStart(s)' - 1) /\ NextStart(s)' \in Int /\ NextStart(s) <= start
      BY <1>2 DEF start
    <3>7. ASSUME NEW n \in DOMAIN f2
          PROVE  /\ f2[n].start \in 0..(NextStart(s)' - 1) /\ Passed(s, f2[n].start)
                 /\ \A m \in DOMAIN f2 : m < n => f2[m].start < f2[n].start
      <4>1. /\ Len(f) \in Nat /\ DOMAIN f = 1..Len(f)
            /\ \A m \in DOMAIN f2 : (m \in DOMAIN f /\ f2[m] = f[m]) \/ (m = Len(f) + 1 /\ f2[m] = new)
            /\ new.start = start
        BY <2>4, <2>8 DEF f
      <4>2. \A m \in DOMAIN f : f[m].start < start
        BY <3>3, <3>5, <3>6
      <4>3. CASE n \in DOMAIN f
        <5>1. f2[n] = f[n] /\ n <= Len(f) /\ n \in Int
          BY <4>1, <4>3
        <5>2. f[n].start \in 0..(NextStart(s)' - 1)
          BY <3>3, <3>5, <3>6, <4>3
        <5>3. \A m \in DOMAIN f2 : m < n => m \in DOMAIN f /\ f2[m] = f[m]
          BY <4>1, <5>1
        <5>4. QED
          BY <3>5, <4>3, <5>1, <5>2, <5>3
      <4>4. CASE n = Len(f) + 1 /\ n \notin DOMAIN f
        <5>1. f2[n] = new
          BY <3>7, <4>1, <4>4
        <5>2. \A m \in DOMAIN f2 : m < n => m \in DOMAIN f /\ f2[m] = f[m]
          BY <4>1, <4>4
        <5>3. QED
          BY <3>4, <3>6, <4>1, <4>2, <5>1, <5>2
      <4>5. QED
        BY <3>7, <4>1, <4>3, <4>4
    <3>8. ASSUME HandOf(s)
          PROVE  /\ hand.start \in 0..(NextStart(s)' - 1) /\ Passed(s, hand.start)
                 /\ \A n \in DOMAIN f2 : hand.start < f2[n].start
      <4>1. /\ hand.start \in 0..(NextStart(s) - 1) /\ Passed(s, hand.start)
            /\ \A n \in DOMAIN f : hand.start < f[n].start
        BY <3>2, <3>8 DEF InOrder, f
      <4>2. QED
        BY <2>8, <3>3, <3>6, <4>1
    <3>9. QED
      BY <1>1, <1>3, <3>1, <3>2, <3>4, <3>7, <3>8 DEF InOrder, f2, C!NoFrame
  <2>12. ASSUME NEW u \in C!Sides \ {s} PROVE OnePlace(u)' /\ StillThere(u)' /\ InOrder(u)'
    <3>1. NextStart(u)' \in Int /\ NextStart(u)' >= NextStart(u)
      BY <1>3, FramesTyped
    <3>2. QED
      BY <1>1, <1>3, <2>5, <3>1, SideKept
  <2>13. QED
    BY <1>4, <2>6, <2>7, <2>9, <2>10, <2>11, <2>12 DEF PairsInv
<1>7. QED
  BY <1>5, <1>6

\* The steps that move no frame.
LEMMA LoopStep ==
  ASSUME PairsInv, C!Shift \/ C!Poll \/ C!Fail
  PROVE  PairsInv'
<1>1. /\ UNCHANGED <<exposed, queued, filled, content, hand, newest, pairs>>
      /\ skew' \in Skews
      /\ at' = at \/ (at = "poll" /\ at' \in {"left", "stopped"}) \/ at' = "stopped"
  BY DEF C!Shift, C!Poll, C!Fail, C!driverVars, PairsInv, PairsTypeOK
<1>2. /\ \A u \in C!Sides : HandOf(u)' => HandOf(u)
      /\ at' # "stopped" => \A u \in C!Sides : HandOf(u)' <=> HandOf(u)
      /\ \A u \in C!Sides : NextStart(u)' = NextStart(u)
  BY <1>1, SidesAre DEF HandOf, NextStart
<1>3. ASSUME NEW u \in C!Sides PROVE OnePlace(u)' /\ StillThere(u)' /\ InOrder(u)'
  <2>1. NextStart(u)' \in Int /\ NextStart(u)' >= NextStart(u)
    BY <1>2, FramesTyped
  <2>2. QED
    BY <1>1, <1>2, <2>1, SideKept
<1>4. /\ settings' \in [auto : BOOLEAN, exposure : Int, longest : Int]
      /\ exposing' \in Int /\ commands' \in Nat /\ C!ExposureContinues'
  <2>1. CASE UNCHANGED <<settings, exposing, sensors, commands>>
    BY <2>1 DEF PairsInv, PairsTypeOK, C!ExposureContinues, C!Lines
  <2>2. ASSUME NEW change \in {[settings EXCEPT !.auto = ~@], [settings EXCEPT !.exposure = MaxLines + 1],
                               [settings EXCEPT !.longest = 1]},
               C!Apply(change), commands' = commands + 1
        PROVE  /\ settings' \in [auto : BOOLEAN, exposure : Int, longest : Int]
               /\ exposing' \in Int /\ commands' \in Nat /\ C!ExposureContinues'
    <3>1. change \in [auto : BOOLEAN, exposure : Int, longest : Int]
      <4>1. settings \in [auto : BOOLEAN, exposure : Int, longest : Int] /\ MaxLines + 1 \in Int
        BY VisionAssumption DEF PairsInv, PairsTypeOK
      <4>2. CASE change = [settings EXCEPT !.auto = ~@]
        <5>1. (~settings.auto) \in BOOLEAN
          OBVIOUS
        <5>2. QED
          BY <4>1, <4>2, <5>1
      <4>3. CASE change \in {[settings EXCEPT !.exposure = MaxLines + 1], [settings EXCEPT !.longest = 1]}
        BY <4>1, <4>3
      <4>4. QED
        BY <2>2, <4>2, <4>3
    <3>2. change.exposure \in Int /\ settings' = change /\ commands' \in Nat
      BY <2>2, <3>1 DEF C!Apply, PairsInv, PairsTypeOK
    <3>3. CASE change.auto
      BY <2>2, <3>1, <3>2, <3>3 DEF C!Apply, PairsInv, PairsTypeOK, C!ExposureContinues, C!Lines
    <3>4. CASE ~change.auto
      <4>1. exposing' = C!Lines(change.exposure) /\ sensors' = C!Lines(change.exposure)
        BY <2>2, <3>4 DEF C!Apply
      <4>2. C!Lines(exposing') = sensors' /\ exposing' \in Int
        BY <3>2, <4>1, LinesIs
      <4>3. C!Lines(exposing)' = C!Lines(exposing')
        BY DEF C!Lines
      <4>4. QED
        BY <3>1, <3>2, <4>2, <4>3 DEF C!ExposureContinues
    <3>5. QED
      BY <3>3, <3>4
  <2>3. QED
    BY <2>1, <2>2 DEF C!Shift, C!Poll, C!Fail, C!exposureVars
<1>5. PairsTypeOK'
  <2>1. at' \in {"poll", "left", "right", "stopped", "convert_left", "convert_right"}
    BY <1>1 DEF PairsInv, PairsTypeOK
  <2>2. (\E s \in C!Sides : HandOf(s)') => hand' \in [index : 1..Buffers, start : Int]
    BY <1>1, <1>2 DEF PairsInv, PairsTypeOK
  <2>3. QED
    BY <1>1, <1>4, <2>1, <2>2 DEF PairsInv, PairsTypeOK
<1>6. C!PairsAreTrue' /\ C!BuffersKept'
  <2>1. at' # "stopped" => at # "stopped"
    BY <1>1
  <2>2. QED
    BY <1>1, <1>2, <2>1 DEF PairsInv, C!PairsAreTrue, C!BuffersKept, HandOf
<1>7. QED
  BY <1>3, <1>4, <1>5, <1>6 DEF PairsInv

LEMMA DequeueStep ==
  ASSUME PairsInv, NEW s \in C!Sides, C!Dequeue(s)
  PROVE  PairsInv'
<1>1. /\ at = s
      /\ UNCHANGED <<exposed, content, skew, newest, pairs, settings, exposing, sensors, commands>>
  BY DEF C!Dequeue, C!exposureVars
<1>2. /\ \A u \in C!Sides : ~HandOf(u) /\ NextStart(u)' = NextStart(u)
      /\ at # "stopped"
  BY <1>1, SidesAre DEF HandOf, NextStart
<1>3. C!PairsAreTrue' /\ C!ExposureContinues'
  BY <1>1 DEF PairsInv, C!PairsAreTrue, C!ExposureContinues, C!Lines
<1>4. ASSUME NEW u \in C!Sides, queued'[u] = queued[u], filled'[u] = filled[u], ~HandOf(u)'
      PROVE  OnePlace(u)' /\ StillThere(u)' /\ InOrder(u)'
  <2>1. NextStart(u)' \in Int /\ NextStart(u)' >= NextStart(u)
    BY <1>2, FramesTyped
  <2>2. QED
    BY <1>1, <1>4, <2>1, SideKept
<1>5. CASE filled[s] = <<>>
  <2>1. /\ at' \in {"right", "poll"} /\ UNCHANGED <<queued, filled, hand>>
    BY <1>5 DEF C!Dequeue
  <2>2. \A u \in C!Sides : ~HandOf(u)'
    BY <2>1, SidesAre DEF HandOf
  <2>3. PairsTypeOK'
    BY <1>1, <2>1, <2>2 DEF PairsInv, PairsTypeOK
  <2>4. C!BuffersKept'
    BY <1>1, <1>2, <2>1, <2>2 DEF PairsInv, C!BuffersKept, HandOf
  <2>5. QED
    BY <1>3, <1>4, <2>1, <2>2, <2>3, <2>4 DEF PairsInv
<1>6. CASE filled[s] # <<>>
  <2> DEFINE f == filled[s]  q == queued[s]  first == Head(f)
  <2>1. /\ first = f[1] /\ f[1] \in Filled /\ Tail(f) \in Seq(Filled) /\ Len(f) \in Nat /\ 1 \in DOMAIN f
        /\ Len(Tail(f)) = Len(f) - 1 /\ DOMAIN f = 1..Len(f)
        /\ \A n \in DOMAIN Tail(f) : n \in Int /\ n + 1 \in DOMAIN f /\ n + 1 # 1 /\ Tail(f)[n] = f[n + 1]
    BY <1>6, TailIs, FramesTyped
  <2>2. /\ filled' = [filled EXCEPT ![s] = Tail(f)]
        /\ \/ /\ at' = C!Converting[s] /\ hand' = [index |-> first.index, start |-> first.start]
              /\ queued' = queued
           \/ /\ queued' = [queued EXCEPT ![s] = Append(q, first.index)]
              /\ UNCHANGED <<at, hand>>
    BY <1>6 DEF C!Dequeue
  <2> HIDE DEF first
  <2>3. /\ filled'[s] = Tail(f) /\ \A u \in C!Sides \ {s} : filled'[u] = filled[u]
        /\ filled' \in [C!Sides -> Seq(Filled)]
        /\ \A u \in C!Sides \ {s} : queued'[u] = queued[u] /\ ~HandOf(u)'
    BY <1>2, <2>1, <2>2, SidesAre DEF PairsInv, PairsTypeOK, HandOf
  <2>4. ASSUME NEW u \in C!Sides \ {s} PROVE OnePlace(u)' /\ StillThere(u)' /\ InOrder(u)'
    BY <1>4, <2>3
  <2> DEFINE f2 == Tail(f)
  <2>5. /\ \A m, n \in DOMAIN q : m # n => q[m] # q[n]
        /\ \A m, n \in DOMAIN f : m # n => f[m].index # f[n].index
        /\ \A m \in DOMAIN q, n \in DOMAIN f : q[m] # f[n].index
        /\ \A n \in DOMAIN f : content[s][f[n].index] = f[n].start
        /\ \A n \in DOMAIN f : f[n].index \in 1..Buffers /\ f[n].start \in Int
    BY FramesTyped DEF PairsInv, OnePlace, StillThere
  <2>6. /\ Passed(s, NextStart(s))
        /\ \A n \in DOMAIN f :
             /\ f[n].start \in 0..(NextStart(s) - 1) /\ Passed(s, f[n].start)
             /\ \A m \in DOMAIN f : m < n => f[m].start < f[n].start
        /\ newest[s] = C!NoFrame \/ \A i \in DOMAIN pairs : pairs[i][s].start < newest[s].start
        /\ newest[s].grey = newest[s].start
    BY DEF PairsInv, InOrder
  <2>7. /\ \A n \in DOMAIN f2 : \E k \in DOMAIN f : k # 1 /\ k > 1 /\ f2[n] = f[k]
        /\ \A m, n \in DOMAIN f2 : m # n => f2[m].index # f2[n].index
        /\ \A m, n \in DOMAIN f2 : m < n => f2[m].start < f2[n].start
        /\ 1 \in DOMAIN f /\ first = f[1]
        /\ \A n \in DOMAIN f2 : first.start < f2[n].start /\ first.index # f2[n].index
    <3>1. \A n \in DOMAIN f2 : n \in Int /\ n + 1 \in DOMAIN f /\ n + 1 > 1 /\ f2[n] = f[n + 1]
      BY <2>1
    <3> HIDE DEF f2, f
    <3>2. /\ 1 \in DOMAIN f /\ first = f[1]
      BY <2>1
    <3>3. \A m, n \in DOMAIN f2 : m # n => f2[m].index # f2[n].index
      BY <2>5, <3>1
    <3>4. \A m, n \in DOMAIN f2 : m < n => f2[m].start < f2[n].start
      BY <2>6, <3>1
    <3>5. \A n \in DOMAIN f2 : first.start < f2[n].start /\ first.index # f2[n].index
      BY <2>5, <2>6, <3>1, <3>2
    <3>6. QED
      BY <3>1, <3>2, <3>3, <3>4, <3>5
  <2>8. Len(f2) = Len(f) - 1 /\ Len(f) \in Nat /\ Len(q) \in Nat
    BY <2>1, FramesTyped
  <2>10. ASSUME NEW u \in C!Sides PROVE Len(queued[u]) + Len(filled[u]) = Buffers
    <3>1. Len(queued[u]) \in Nat /\ Len(filled[u]) \in Nat
      BY FramesTyped
    <3>2. Len(queued[u]) + Len(filled[u]) + (IF at = C!Converting[u] THEN 1 ELSE 0) = Buffers
      BY <1>2 DEF PairsInv, C!BuffersKept
    <3>3. (IF at = C!Converting[u] THEN 1 ELSE 0) = 0
      BY <1>2 DEF HandOf
    <3>4. QED
      BY <3>1, <3>2, <3>3, CountsTwo
  <2>9. Len(q) + Len(f) = Buffers
    BY <2>10
  <2>11. \A x : Passed(s, x)' <=> Passed(s, x)
    BY <1>1 DEF Passed
  <2>12. CASE at' = C!Converting[s] /\ hand' = [index |-> first.index, start |-> first.start] /\ queued' = queued
    <3> HIDE DEF f2, q, f
    <3>1. HandOf(s)' /\ hand'.index = first.index /\ hand'.start = first.start
          /\ queued'[s] = q /\ filled'[s] = f2
      BY <2>3, <2>12 DEF HandOf, f2, q, f, C!Converting
    <3>2. OnePlace(s)'
      BY <2>5, <2>7, <3>1 DEF OnePlace
    <3>3. StillThere(s)'
      BY <1>1, <2>5, <2>7, <3>1 DEF StillThere
    <3>4. InOrder(s)'
      <4>1. \A n \in DOMAIN f2 : f2[n].start \in 0..(NextStart(s) - 1) /\ Passed(s, f2[n].start)
        BY <2>6, <2>7
      <4>2. first.start \in 0..(NextStart(s) - 1) /\ Passed(s, first.start)
        BY <2>6, <2>7
      <4>3. QED
        BY <1>1, <1>2, <2>6, <2>7, <2>11, <3>1, <4>1, <4>2 DEF InOrder
    <3>5. PairsTypeOK'
      <4>1. hand' \in [index : 1..Buffers, start : Int]
        BY <2>5, <2>7, <2>12
      <4>2. at' \in {"poll", "left", "right", "stopped", "convert_left", "convert_right"}
        BY <2>12, SidesAre
      <4>3. QED
        BY <1>1, <2>3, <2>12, <4>1, <4>2 DEF PairsInv, PairsTypeOK
    <3>6. C!BuffersKept'
      <4>1. ASSUME NEW u \in C!Sides
            PROVE  Len(queued'[u]) + Len(filled'[u]) + (IF at' = C!Converting[u] THEN 1 ELSE 0) = Buffers
        <5>1. CASE u = s
          <6>1. Len(queued'[u]) = Len(q) /\ Len(filled'[u]) = Len(f) - 1 /\ at' = C!Converting[u]
            BY <2>8, <2>12, <3>1, <5>1
          <6>2. QED
            BY <2>8, <2>9, <6>1
        <5>2. CASE u # s
          <6>1. at' # C!Converting[u] /\ queued'[u] = queued[u] /\ filled'[u] = filled[u]
            BY <2>3, <5>2, <4>1 DEF HandOf, C!Converting
          <6>2. Len(queued[u]) \in Nat /\ Len(filled[u]) \in Nat
            BY <4>1, FramesTyped
          <6>3. (IF at' = C!Converting[u] THEN 1 ELSE 0) = 0
            BY <6>1
          <6>4. QED
            BY <2>10, <4>1, <5>2, <6>1, <6>2, <6>3, CountsTwo
        <5>3. QED
          BY <5>1, <5>2
      <4>2. QED
        BY <4>1 DEF C!BuffersKept, C!Converting
    <3>7. QED
      BY <1>3, <2>4, <3>2, <3>3, <3>4, <3>5, <3>6 DEF PairsInv
  <2>13. CASE queued' = [queued EXCEPT ![s] = Append(q, first.index)] /\ UNCHANGED <<at, hand>>
    <3> DEFINE q2 == Append(q, first.index)
    <3>1. first.index \in 1..Buffers
      BY <2>5, <2>7
    <3>2. /\ q2 \in Seq(1..Buffers) /\ Len(q2) = Len(q) + 1
          /\ \A n \in DOMAIN q2 : (n \in DOMAIN q /\ q2[n] = q[n]) \/ (n = Len(q) + 1 /\ q2[n] = first.index)
          /\ DOMAIN q = 1..Len(q) /\ Len(q) \in Nat
      BY <3>1, AppendIs, FramesTyped
    <3>3. queued'[s] = q2 /\ filled'[s] = f2 /\ ~HandOf(s)' /\ queued' \in [C!Sides -> Seq(1..Buffers)]
      BY <1>2, <2>3, <2>13, <3>2 DEF PairsInv, PairsTypeOK, HandOf
    <3> HIDE DEF f2, q, f, q2
    <3>4. OnePlace(s)'
      <4>1. \A m, n \in DOMAIN q2 : m # n => q2[m] # q2[n]
        BY <2>5, <2>7, <3>2
      <4>2. \A m \in DOMAIN q2, n \in DOMAIN f2 : q2[m] # f2[n].index
        BY <2>5, <2>7, <3>2
      <4>3. QED
        BY <2>7, <3>3, <4>1, <4>2 DEF OnePlace
    <3>5. StillThere(s)'
      BY <1>1, <2>5, <2>7, <3>3 DEF StillThere
    <3>6. InOrder(s)'
      <4>1. \A n \in DOMAIN f2 : f2[n].start \in 0..(NextStart(s) - 1) /\ Passed(s, f2[n].start)
        BY <2>6, <2>7
      <4>2. QED
        BY <1>1, <1>2, <2>6, <2>7, <2>11, <3>3, <4>1 DEF InOrder
    <3>7. PairsTypeOK'
      BY <1>1, <1>2, <2>3, <2>13, <3>3 DEF PairsInv, PairsTypeOK
    <3>8. C!BuffersKept'
      <4>1. ASSUME NEW u \in C!Sides
            PROVE  Len(queued'[u]) + Len(filled'[u]) + (IF at' = C!Converting[u] THEN 1 ELSE 0) = Buffers
        <5>1. at' # C!Converting[u]
          BY <1>2, <2>13, <4>1 DEF HandOf
        <5>2. CASE u = s
          <6>1. Len(queued'[u]) = Len(q) + 1 /\ Len(filled'[u]) = Len(f) - 1
            BY <2>8, <3>2, <3>3, <5>2
          <6>2. QED
            BY <2>8, <2>9, <5>1, <6>1
        <5>3. CASE u # s
          <6>1. queued'[u] = queued[u] /\ filled'[u] = filled[u]
            BY <2>3, <5>3, <4>1
          <6>2. Len(queued[u]) \in Nat /\ Len(filled[u]) \in Nat
            BY <4>1, FramesTyped
          <6>3. (IF at' = C!Converting[u] THEN 1 ELSE 0) = 0
            BY <5>1
          <6>4. Len(queued[u]) + Len(filled[u]) = Buffers
            BY <2>10, <4>1, <5>3
          <6>5. Len(queued[u]) + Len(filled[u]) + (IF at' = C!Converting[u] THEN 1 ELSE 0) = Buffers
            BY <6>2, <6>3, <6>4, CountsTwo
          <6>6. QED
            BY <6>1, <6>5
        <5>4. QED
          BY <5>2, <5>3
      <4>2. QED
        BY <4>1 DEF C!BuffersKept, C!Converting
    <3>9. QED
      BY <1>3, <2>4, <3>4, <3>5, <3>6, <3>7, <3>8 DEF PairsInv
  <2>14. QED
    BY <2>2, <2>12, <2>13
<1>7. QED
  BY <1>5, <1>6

LEMMA NextExposuresTyped ==
  ASSUME PairsInv
  PROVE  C!NextExposures \subseteq Int
<1>1. /\ exposing \in Int /\ settings.longest \in Int /\ MaxLines + 1 \in Int
  BY VisionAssumption DEF PairsInv, PairsTypeOK
<1> DEFINE most == C!Min({settings.longest, MaxLines + 1})
<1>2. most \in Int
  BY <1>1, ExtremesOfTwo
<1> HIDE DEF most
<1>3. ASSUME NEW light \in {2 * exposing, exposing \div 2}
      PROVE  C!Max({1, C!Min({light, most})}) \in Int
  <2>1. light \in Int
    BY <1>1
  <2>2. C!Min({light, most}) \in Int
    BY <1>2, <2>1, ExtremesOfTwo
  <2>3. 1 \in Int
    OBVIOUS
  <2>4. QED
    BY ONLY <2>2, <2>3, ExtremesOfTwo
<1>4. QED
  BY <1>1, <1>3 DEF C!NextExposures, most

LEMMA ConvertStep ==
  ASSUME PairsInv, NEW s \in C!Sides, C!Convert(s)
  PROVE  PairsInv'
<1> DEFINE new == [start |-> hand.start, grey |-> content[s][hand.index]]
           both == [newest EXCEPT ![s] = new]
           q == queued[s]
<1>1. /\ HandOf(s) /\ at' = s /\ queued' = [queued EXCEPT ![s] = Append(q, hand.index)]
      /\ C!Push(s, new) /\ hand' = C!Empty
      /\ UNCHANGED <<exposed, filled, content, skew, settings, commands>>
  BY DEF C!Convert, HandOf
<1>2. /\ OnePlace(s) /\ StillThere(s) /\ InOrder(s) /\ PairsTypeOK
  BY DEF PairsInv
<1>3. /\ new \in Frame /\ new.start = hand.start /\ new.grey = hand.start
      /\ hand.start \in 0..(NextStart(s) - 1) /\ Passed(s, hand.start)
      /\ hand.index \in 1..Buffers /\ new # C!NoFrame
  <2>1. hand.index \in 1..Buffers /\ hand.start \in Int
    BY <1>1, FramesTyped
  <2>2. content[s][hand.index] = hand.start
    BY <1>1, <1>2 DEF StillThere
  <2>3. hand.start \in 0..(NextStart(s) - 1) /\ Passed(s, hand.start) /\ NextStart(s) \in Int
    BY <1>1, <1>2, FramesTyped DEF InOrder
  <2>4. QED
    BY <2>1, <2>2, <2>3 DEF Frame, C!NoFrame
<1> HIDE DEF new
<1>4. /\ \A u \in C!Sides : NextStart(u)' = NextStart(u) /\ ~HandOf(u)' /\ (u # s => ~HandOf(u))
      /\ at' \in {"left", "right"}
  BY <1>1, SidesAre DEF HandOf, NextStart
<1>5. /\ \A u \in C!Sides \ {s} : queued'[u] = queued[u] /\ both[u] = newest[u]
      /\ both[s] = new /\ both \in [C!Sides -> Frame]
  BY <1>1, <1>2, <1>3 DEF PairsTypeOK
<1> DEFINE q2 == Append(q, hand.index)
<1>6. /\ q2 \in Seq(1..Buffers) /\ Len(q2) = Len(q) + 1 /\ Len(q) \in Nat
      /\ \A n \in DOMAIN q2 : (n \in DOMAIN q /\ q2[n] = q[n]) \/ (n = Len(q) + 1 /\ q2[n] = hand.index)
      /\ queued'[s] = q2 /\ queued' \in [C!Sides -> Seq(1..Buffers)]
  <2>1. q \in Seq(1..Buffers)
    BY FramesTyped
  <2>2. /\ q2 \in Seq(1..Buffers) /\ Len(q2) = Len(q) + 1 /\ Len(q) \in Nat
        /\ \A n \in DOMAIN q2 : (n \in DOMAIN q /\ q2[n] = q[n]) \/ (n = Len(q) + 1 /\ q2[n] = hand.index)
    BY <1>3, <2>1, AppendIs
  <2>3. QED
    BY <1>1, <1>2, <2>2 DEF PairsTypeOK
<1>7. OnePlace(s)' /\ StillThere(s)'
  <2> HIDE DEF q, q2
  <2>1. /\ \A m, n \in DOMAIN q : m # n => q[m] # q[n]
        /\ \A m \in DOMAIN q, n \in DOMAIN filled[s] : q[m] # filled[s][n].index
        /\ \A m \in DOMAIN q : q[m] # hand.index
        /\ \A n \in DOMAIN filled[s] : filled[s][n].index # hand.index
        /\ \A m, n \in DOMAIN filled[s] : m # n => filled[s][m].index # filled[s][n].index
    BY <1>1, <1>2 DEF OnePlace, q
  <2>2. /\ \A m, n \in DOMAIN q2 : m # n => q2[m] # q2[n]
        /\ \A m \in DOMAIN q2, n \in DOMAIN filled[s] : q2[m] # filled[s][n].index
    BY <1>6, <2>1
  <2>3. OnePlace(s)'
    BY <1>1, <1>4, <1>6, <2>1, <2>2 DEF OnePlace
  <2>4. QED
    BY <1>1, <1>2, <1>4, <2>3 DEF StillThere
<1>8. C!BuffersKept'
  <2>1. at # "stopped"
    BY <1>1, SidesAre DEF HandOf
  <2>2. ASSUME NEW u \in C!Sides
        PROVE  Len(queued'[u]) + Len(filled'[u]) + (IF at' = C!Converting[u] THEN 1 ELSE 0) = Buffers
    <3>1. Len(queued[u]) + Len(filled[u]) + (IF at = C!Converting[u] THEN 1 ELSE 0) = Buffers
      BY <2>1 DEF PairsInv, C!BuffersKept
    <3>2. (IF at' = C!Converting[u] THEN 1 ELSE 0) = 0
      BY <1>4 DEF HandOf
    <3> DEFINE a == Len(queued[u])  b == Len(filled[u])  a2 == Len(queued'[u])
    <3>3. a \in Nat /\ b \in Nat /\ Len(filled'[u]) = b
      BY <1>1, FramesTyped
    <3>4. a2 \in Nat /\ a2 + b = Buffers
      <4>1. CASE u = s
        <5>1. a2 = a + 1 /\ (IF at = C!Converting[u] THEN 1 ELSE 0) = 1
          BY <1>1, <1>6, <4>1 DEF HandOf
        <5>2. a + b + 1 = Buffers
          BY <3>1, <5>1
        <5> HIDE DEF a, b, a2
        <5>3. QED
          BY <3>3, <5>1, <5>2
      <4>2. CASE u # s
        <5>1. a2 = a /\ (IF at = C!Converting[u] THEN 1 ELSE 0) = 0
          BY <1>4, <1>5, <4>2, <2>2 DEF HandOf
        <5> HIDE DEF a2
        <5>2. QED
          BY <3>1, <3>3, <5>1, CountsTwo
      <4>3. QED
        BY <4>1, <4>2
    <3> HIDE DEF a2, b
    <3>5. a2 + b + (IF at' = C!Converting[u] THEN 1 ELSE 0) = Buffers
      BY <3>2, <3>3, <3>4, CountsTwo
    <3>6. QED
      BY <3>3, <3>5 DEF a2
  <2>3. QED
    BY <2>2 DEF C!BuffersKept, C!Converting
<1>9. C!ExposureContinues' /\ exposing' \in Int
  <2>1. CASE UNCHANGED <<exposing, sensors>>
    BY <1>2, <2>1 DEF PairsInv, PairsTypeOK, C!ExposureContinues, C!Lines
  <2>2. CASE exposing' \in C!NextExposures /\ sensors' = C!Lines(exposing')
    BY <2>2, NextExposuresTyped DEF C!ExposureContinues, C!Lines
  <2>3. QED
    BY <2>1, <2>2 DEF C!Convert
<1>10. CASE pairs' = pairs /\ newest' = both
  <2>1. PairsTypeOK'
    BY <1>1, <1>2, <1>4, <1>5, <1>6, <1>9, <1>10 DEF PairsTypeOK
  <2>2. C!PairsAreTrue'
    BY <1>10 DEF PairsInv, C!PairsAreTrue
  <2>3. ASSUME NEW u \in C!Sides \ {s} PROVE OnePlace(u)' /\ StillThere(u)' /\ InOrder(u)'
    <3>1. newest'[u] = newest[u] /\ NextStart(u)' \in Int /\ NextStart(u)' >= NextStart(u)
      BY <1>4, <1>5, <1>10, FramesTyped
    <3>2. QED
      BY <1>1, <1>4, <1>5, <1>10, <3>1, SideKept
  <2>4. InOrder(s)'
    <3>1. newest'[s] = new
      BY <1>5, <1>10
    <3>2. \A i \in DOMAIN pairs : pairs[i][s].start < hand.start /\ pairs[i][s].start \in Int
      BY <1>3, FramesTyped DEF Passed, Frame
    <3>3. ASSUME NEW x \in Int, hand.start < x PROVE Passed(s, x)'
      BY <1>3, <1>10, <3>1, <3>2, <3>3 DEF Passed
    <3>4. NextStart(s) \in Int /\ hand.start < NextStart(s)
      BY <1>3, FramesTyped
    <3>5. \A n \in DOMAIN filled[s] :
            /\ filled[s][n].start \in 0..(NextStart(s) - 1) /\ hand.start < filled[s][n].start
            /\ \A m \in DOMAIN filled[s] : m < n => filled[s][m].start < filled[s][n].start
      BY <1>1, <1>2 DEF InOrder
    <3>6. \A n \in DOMAIN filled[s] : Passed(s, filled[s][n].start)'
      BY <1>1, <3>3, <3>5, FramesTyped
    <3>7. Passed(s, NextStart(s))'
      BY <1>1, <3>3, <3>4 DEF NextStart, Passed
    <3>8. QED
      BY <1>1, <1>3, <1>4, <1>10, <3>1, <3>2, <3>5, <3>6, <3>7 DEF InOrder
  <2>5. QED
    BY <1>7, <1>8, <1>9, <2>1, <2>2, <2>3, <2>4 DEF PairsInv
<1>11. CASE /\ \A u \in C!Sides : both[u] # C!NoFrame
            /\ both["left"].start - both["right"].start \in -PairTolerance..PairTolerance
            /\ pairs' = Append(pairs, both) /\ newest' = [u \in C!Sides |-> C!NoFrame]
  <2> HIDE DEF both
  <2>1. /\ pairs' \in Seq([C!Sides -> Frame]) /\ Len(pairs) \in Nat /\ DOMAIN pairs = 1..Len(pairs)
        /\ \A i \in DOMAIN pairs : pairs'[i] = pairs[i] /\ i < Len(pairs) + 1 /\ i \in Int
        /\ pairs'[Len(pairs) + 1] = both
        /\ \A i \in DOMAIN pairs' : i \in DOMAIN pairs \/ i = Len(pairs) + 1
    BY <1>2, <1>5, <1>11, AppendIs DEF PairsTypeOK
  <2>2. PairsTypeOK'
    <3>1. newest' \in [C!Sides -> Frame]
      BY <1>11 DEF C!NoFrame, Frame
    <3>2. QED
      BY <1>1, <1>2, <1>4, <1>6, <1>9, <2>1, <3>1 DEF PairsTypeOK
  <2>3. ASSUME NEW u \in C!Sides
        PROVE  /\ both[u].grey = both[u].start /\ both[u].start \in Int /\ both[u].start < NextStart(u)
               /\ \A i \in DOMAIN pairs : pairs[i][u].start < both[u].start
               /\ \A n \in DOMAIN filled[u] : both[u].start < filled[u][n].start
    <3>1. CASE u = s
      BY <1>1, <1>2, <1>3, <1>5, <3>1, FramesTyped DEF InOrder, Passed
    <3>2. CASE u # s
      <4>1. both[u] = newest[u] /\ newest[u] # C!NoFrame /\ InOrder(u)
        BY <1>5, <1>11, <2>3, <3>2 DEF PairsInv
      <4>2. QED
        BY <4>1, FramesTyped DEF InOrder, Passed, Frame
    <3>3. QED
      BY <3>1, <3>2
  <2>4. C!PairsAreTrue'
    <3>1. ASSUME NEW i \in DOMAIN pairs'
          PROVE  /\ pairs'[i]["left"].start - pairs'[i]["right"].start \in -PairTolerance..PairTolerance
                 /\ \A u \in C!Sides : pairs'[i][u].grey = pairs'[i][u].start
      BY <1>11, <2>1, <2>3 DEF PairsInv, C!PairsAreTrue
    <3>2. ASSUME NEW i \in DOMAIN pairs', NEW j \in DOMAIN pairs', i < j, NEW u \in C!Sides
          PROVE  pairs'[i][u].start < pairs'[j][u].start
      <4>1. CASE j \in DOMAIN pairs
        <5>1. i \in DOMAIN pairs
          BY <2>1, <3>2, <4>1
        <5>2. QED
          BY <2>1, <3>2, <4>1, <5>1 DEF PairsInv, C!PairsAreTrue
      <4>2. CASE j = Len(pairs) + 1
        <5>1. i \in DOMAIN pairs
          BY <2>1, <3>2, <4>2
        <5>2. QED
          BY <2>1, <2>3, <4>2, <5>1
      <4>3. QED
        BY <2>1, <4>1, <4>2
    <3>3. QED
      BY <3>1, <3>2 DEF C!PairsAreTrue, C!Sides
  <2>5. ASSUME NEW u \in C!Sides PROVE InOrder(u)'
    <3>1. newest'[u] = C!NoFrame /\ C!NoFrame.start = -1 /\ C!NoFrame.grey = -1
      BY <1>11 DEF C!NoFrame
    <3>2. ASSUME NEW x \in Nat, both[u].start < x PROVE Passed(u, x)'
      <4>1. \A i \in DOMAIN pairs' : pairs'[i][u].start < x
        <5>1. \A i \in DOMAIN pairs : pairs[i][u].start \in Int /\ pairs[i][u].start < both[u].start
          BY <2>3, FramesTyped DEF Frame
        <5>2. QED
          BY <2>1, <2>3, <3>2, <5>1
      <4>2. QED
        BY <3>1, <3>2, <4>1 DEF Passed
    <3>3. InOrder(u) /\ NextStart(u) \in Nat
      <4>1. exposed[u] \in Nat /\ FramePeriod \in Nat
        BY <1>2, VisionAssumption DEF PairsTypeOK
      <4>2. QED
        BY <4>1 DEF PairsInv, NextStart
    <3>4. \A n \in DOMAIN filled[u] :
            /\ filled[u][n].start \in 0..(NextStart(u) - 1) /\ both[u].start < filled[u][n].start
            /\ \A m \in DOMAIN filled[u] : m < n => filled[u][m].start < filled[u][n].start
      BY <2>3, <3>3 DEF InOrder
    <3>5. \A n \in DOMAIN filled[u] : Passed(u, filled[u][n].start)'
      BY <1>1, <3>2, <3>3, <3>4
    <3>6. Passed(u, NextStart(u))'
      BY <1>1, <2>3, <3>2, <3>3 DEF NextStart, Passed
    <3>7. QED
      BY <1>1, <1>4, <3>1, <3>4, <3>5, <3>6 DEF InOrder, C!NoFrame
  <2>6. ASSUME NEW u \in C!Sides \ {s} PROVE OnePlace(u)' /\ StillThere(u)'
    <3>1. OnePlace(u) /\ StillThere(u)
      BY DEF PairsInv
    <3>2. /\ queued'[u] = queued[u] /\ filled'[u] = filled[u] /\ content'[u] = content[u]
          /\ ~HandOf(u)'
      BY <1>1, <1>4, <1>5
    <3>3. QED
      BY <3>1, <3>2 DEF OnePlace, StillThere
  <2>7. QED
    BY <1>7, <1>8, <1>9, <2>2, <2>4, <2>5, <2>6 DEF PairsInv
<1>12. QED
  BY <1>1, <1>10, <1>11 DEF C!Push

LEMMA PairsStart ==
  ASSUME C!CaptureInit
  PROVE  PairsInv
<1>1. /\ exposed = [s \in C!Sides |-> 0] /\ queued = [s \in C!Sides |-> [i \in 1..Buffers |-> i]]
      /\ filled = [s \in C!Sides |-> <<>>] /\ content = [s \in C!Sides |-> [i \in 1..Buffers |-> -1]]
      /\ skew \in Skews
      /\ at = "poll" /\ newest = [s \in C!Sides |-> C!NoFrame] /\ pairs = <<>>
      /\ settings = [auto |-> TRUE, exposure |-> 2, longest |-> MaxLines]
      /\ exposing = 2 /\ sensors = C!Lines(2) /\ commands = 0
  BY DEF C!CaptureInit
<1>2. /\ [i \in 1..Buffers |-> i] \in Seq(1..Buffers) /\ Len([i \in 1..Buffers |-> i]) = Buffers
  BY VisionAssumption
<1>3. \A s \in C!Sides : ~HandOf(s)
  BY <1>1, SidesAre DEF HandOf
<1>4. PairsTypeOK
  <2>1. C!NoFrame \in Frame /\ MaxLines \in Int
    BY VisionAssumption DEF C!NoFrame, Frame
  <2>2. queued \in [C!Sides -> Seq(1..Buffers)] /\ newest \in [C!Sides -> Frame]
    BY <1>1, <1>2, <2>1
  <2>3. /\ exposed \in [C!Sides -> Nat] /\ filled \in [C!Sides -> Seq(Filled)]
        /\ content \in [C!Sides -> [1..Buffers -> Int]] /\ pairs \in Seq([C!Sides -> Frame])
        /\ settings \in [auto : BOOLEAN, exposure : Int, longest : Int]
    BY <1>1, <2>1
  <2>4. QED
    BY <1>1, <1>3, <2>2, <2>3 DEF PairsTypeOK
<1>5. ASSUME NEW s \in C!Sides PROVE OnePlace(s) /\ StillThere(s) /\ InOrder(s)
  <2>1. queued[s] = [i \in 1..Buffers |-> i] /\ filled[s] = <<>>
    BY <1>1
  <2>2. newest[s] = C!NoFrame /\ C!NoFrame.start = -1 /\ C!NoFrame.grey = -1
    BY <1>1 DEF C!NoFrame
  <2>3. NextStart(s) \in Nat
    BY <1>1, VisionAssumption DEF NextStart
  <2>4. Passed(s, NextStart(s))
    BY <1>1, <2>2, <2>3 DEF Passed
  <2>5. QED
    BY <1>1, <1>3, <2>1, <2>2, <2>4 DEF OnePlace, StillThere, InOrder
<1>6. C!BuffersKept
  <2>1. ASSUME NEW s \in C!Sides
        PROVE  Len(queued[s]) + Len(filled[s]) + (IF at = C!Converting[s] THEN 1 ELSE 0) = Buffers
    <3>1. Len(queued[s]) = Buffers /\ Len(filled[s]) = 0 /\ Buffers \in Nat
      BY <1>1, <1>2, VisionAssumption
    <3>2. (IF at = C!Converting[s] THEN 1 ELSE 0) = 0
      BY <1>3 DEF HandOf
    <3>3. QED
      BY <3>1, <3>2
  <2>2. QED
    BY <2>1 DEF C!BuffersKept
<1>7. C!PairsAreTrue /\ C!ExposureContinues
  BY <1>1 DEF C!PairsAreTrue, C!ExposureContinues
<1>8. QED
  BY <1>4, <1>5, <1>6, <1>7 DEF PairsInv

LEMMA PairsStep ==
  ASSUME PairsInv, C!CaptureNext
  PROVE  PairsInv'
  BY LoopStep, ExposeStep, DequeueStep, ConvertStep DEF C!CaptureNext

LEMMA PairsIdle ==
  ASSUME PairsInv, UNCHANGED pairsOnly
  PROVE  PairsInv'
<1>1. UNCHANGED <<exposed, queued, filled, content, skew, at, hand, newest, pairs,
                  settings, exposing, sensors, commands>>
  BY DEF pairsOnly
<1>2. PairsTypeOK' /\ C!PairsAreTrue' /\ C!BuffersKept' /\ C!ExposureContinues'
  BY <1>1 DEF PairsInv, PairsTypeOK, HandOf, C!PairsAreTrue, C!BuffersKept, C!ExposureContinues, C!Lines
<1>3. ASSUME NEW s \in C!Sides PROVE OnePlace(s)' /\ StillThere(s)' /\ InOrder(s)'
  <2>1. OnePlace(s) /\ StillThere(s) /\ InOrder(s)
    BY DEF PairsInv
  <2>2. OnePlace(s)' /\ StillThere(s)'
    BY <1>1, <2>1 DEF OnePlace, StillThere, HandOf
  <2>3. InOrder(s)'
    BY <1>1, <2>1 DEF InOrder, Passed, NextStart, HandOf
  <2>4. QED
    BY <2>2, <2>3
<1>4. QED
  BY <1>2, <1>3 DEF PairsInv

-----------------------------------------------------------------------------
(***************************************************************************)
(* libcamera's requests                                                    *)
(***************************************************************************)

Control == [ControlIds -> Nat]
Asked == [request : Requests, controls : Control]
Done == [request : Requests, number : Nat]
Read == [request : Requests, number : Nat, read : BOOLEAN]

LibTypeOK ==
  /\ sent \in Seq(ControlIds \X Nat)
  /\ pendingSet \in Control /\ applied \in Control
  /\ queuedAt \in Seq(Asked)
  /\ completed \in Seq(Done)
  /\ inHand \in Seq(Done \union Read) /\ Len(inHand) <= 1
  /\ lost \subseteq Requests
  /\ frame \in [Requests -> Nat] /\ taken \in Nat

\* A request is in one place.
OneOwner ==
  /\ \A m, n \in DOMAIN queuedAt : m # n => queuedAt[m].request # queuedAt[n].request
  /\ \A m, n \in DOMAIN completed : m # n => completed[m].request # completed[n].request
  /\ \A m \in DOMAIN queuedAt, n \in DOMAIN completed : queuedAt[m].request # completed[n].request
  /\ \A m \in DOMAIN queuedAt : queuedAt[m].request \notin lost
  /\ \A m \in DOMAIN completed : completed[m].request \notin lost
  /\ inHand # <<>> =>
       /\ inHand[1].request \notin lost
       /\ \A m \in DOMAIN queuedAt : queuedAt[m].request # inHand[1].request
       /\ \A m \in DOMAIN completed : completed[m].request # inHand[1].request

\* A request the camera has completed still holds its frame.
HoldsFrame ==
  /\ \A n \in DOMAIN completed : frame[completed[n].request] = completed[n].number
  /\ inHand # <<>> => frame[inHand[1].request] = inHand[1].number

LibInv ==
  /\ LibTypeOK /\ OneOwner /\ HoldsFrame
  /\ B!LastControlWins /\ B!FramesAsTaken /\ B!RequestsKept

LEMMA CountIs == \A S : B!Cardinality(S) = Cardinality(S)
  BY DEF B!Cardinality, Cardinality

\* A greatest member is the Max.
LEMMA MaxIs ==
  ASSUME NEW S \in SUBSET Int, NEW m \in S, \A n \in S : n <= m
  PROVE  B!Max(S) = m
<1>1. ASSUME NEW x \in S, \A n \in S : x >= n PROVE x = m
  BY <1>1
<1>2. \A n \in S : m >= n
  OBVIOUS
<1>3. QED
  BY <1>1, <1>2 DEF B!Max

\* A bounded set of numbers has a greatest one.
LEMMA GreatestExists ==
  ASSUME NEW N \in Nat, NEW S \in SUBSET (1..N), S # {}
  PROVE  \E m \in S : \A n \in S : n <= m
<1> DEFINE T == {N - n : n \in S}
           Less == {pair \in Nat \X Nat : pair[1] < pair[2]}
<1>1. IsWellFoundedOn(Less, Nat)
  BY NatLessThanWellFounded DEF OpToRel
<1>2. T \subseteq Nat /\ T # {}
  <2>1. \A n \in S : N - n \in Nat
    OBVIOUS
  <2>2. T \subseteq Nat
    BY <2>1
  <2>3. PICK n \in S : TRUE
    OBVIOUS
  <2>4. N - n \in T
    BY <2>3
  <2>5. QED
    BY <2>2, <2>4
<1>3. PICK x \in T : \A y \in T : <<y, x>> \notin Less
  BY <1>1, <1>2, WFMin
<1>4. PICK m \in S : x = N - m
  OBVIOUS
<1>5. ASSUME NEW n \in S PROVE n <= m
  <2>1. N - n \in T /\ N - n \in Nat /\ x \in Nat /\ n \in Int /\ m \in Int
    BY <1>2, <1>4
  <2>2. ~(N - n < x)
    BY <1>3, <2>1
  <2>3. QED
    BY <1>4, <2>1, <2>2
<1>6. QED
  BY <1>5

\* The control an id ends up with, as far as is on the way.
Given(id) == {n \in DOMAIN queuedAt : queuedAt[n].controls[id] # 0}
InTheEnd(id) ==
  IF pendingSet[id] # 0 THEN pendingSet[id]
  ELSE IF Given(id) # {} THEN queuedAt[B!Max(Given(id))].controls[id]
  ELSE applied[id]
LastSent(id) == B!Max({0} \union {n \in DOMAIN sent : sent[n][1] = id})

LEMMA LastControlIs ==
  B!LastControlWins <=> (lost = {} => \A id \in ControlIds : InTheEnd(id) = LastSent(id))
  BY DEF B!LastControlWins, InTheEnd, Given, LastSent

LEMMA TakeControlStep ==
  ASSUME LibInv, B!TakeControl
  PROVE  LibInv'
<1>1. PICK control \in ControlIds :
        /\ sent' = Append(sent, <<control, Len(sent) + 1>>)
        /\ pendingSet' = [pendingSet EXCEPT ![control] = Len(sent) + 1]
  BY DEF B!TakeControl
<1>2. UNCHANGED <<queuedAt, completed, inHand, applied, lost, frame, written, taken>>
  BY DEF B!TakeControl
<1> DEFINE new == <<control, Len(sent) + 1>>
<1>3. /\ sent \in Seq(ControlIds \X Nat) /\ Len(sent) \in Nat /\ new \in ControlIds \X Nat
      /\ pendingSet \in Control
  BY DEF LibInv, LibTypeOK
<1>4. /\ sent' \in Seq(ControlIds \X Nat) /\ DOMAIN sent = 1..Len(sent)
      /\ \A n \in DOMAIN sent' : n \in DOMAIN sent \/ n = Len(sent) + 1
      /\ \A n \in DOMAIN sent : n \in DOMAIN sent' /\ sent'[n] = sent[n]
      /\ Len(sent) + 1 \in DOMAIN sent' /\ sent'[Len(sent) + 1][1] = control
  <2>1. sent' = Append(sent, new)
    BY <1>1
  <2>2. new[1] = control
    OBVIOUS
  <2> HIDE DEF new
  <2>3. QED
    BY <1>3, <2>1, <2>2, AppendIs
<1>5. pendingSet' \in Control
  BY <1>1, <1>3 DEF Control
<1>6. LibTypeOK' /\ OneOwner' /\ HoldsFrame' /\ B!FramesAsTaken' /\ B!RequestsKept'
  BY <1>2, <1>4, <1>5 DEF LibInv, LibTypeOK, OneOwner, HoldsFrame, B!FramesAsTaken, B!RequestsKept
<1>7. ASSUME lost' = {}, NEW id \in ControlIds PROVE InTheEnd(id)' = LastSent(id)'
  <2>1. CASE id = control
    <3> DEFINE S == {0} \union {n \in DOMAIN sent' : sent'[n][1] = id}
    <3>1. S \in SUBSET Int /\ Len(sent) + 1 \in S /\ \A n \in S : n <= Len(sent) + 1
      <4>1. \A n \in DOMAIN sent' : n \in Int /\ n <= Len(sent) + 1
        BY <1>3, <1>4
      <4>2. Len(sent) + 1 \in S
        BY <1>4, <2>1
      <4>3. \A n \in S : n = 0 \/ n \in DOMAIN sent'
        OBVIOUS
      <4>4. \A n \in S : n \in Int /\ n <= Len(sent) + 1
        BY <1>3, <4>1, <4>3
      <4>5. QED
        BY <4>2, <4>4
    <3>2. LastSent(id)' = Len(sent) + 1
      <4>1. B!Max(S) = Len(sent) + 1
        <5> HIDE DEF S
        <5>1. QED
          BY <3>1, MaxIs
      <4>2. QED
        BY <4>1 DEF LastSent, B!Max
    <3>3. pendingSet'[id] = Len(sent) + 1 /\ Len(sent) + 1 # 0
      BY <1>1, <1>3, <2>1 DEF Control
    <3>4. QED
      BY <3>2, <3>3 DEF InTheEnd
  <2>2. CASE id # control
    <3>1. {n \in DOMAIN sent' : sent'[n][1] = id} = {n \in DOMAIN sent : sent[n][1] = id}
      BY <1>4, <2>2
    <3>2. LastSent(id)' = LastSent(id)
      BY <3>1 DEF LastSent, B!Max
    <3>3. InTheEnd(id)' = InTheEnd(id)
      BY <1>1, <1>2, <1>3, <2>2 DEF InTheEnd, Given, Control, B!Max
    <3>4. QED
      BY <1>2, <1>7, <3>2, <3>3, LastControlIs DEF LibInv
  <2>3. QED
    BY <2>1, <2>2
<1>8. B!LastControlWins'
  BY <1>7 DEF B!LastControlWins, InTheEnd, Given, LastSent, B!Max
<1>9. QED
  BY <1>6, <1>8 DEF LibInv

LEMMA SameStep ==
  ASSUME LibInv,
         UNCHANGED <<sent, pendingSet, queuedAt, completed, inHand, applied, lost, frame, written, taken>>
  PROVE  LibInv'
<1>1. UNCHANGED <<sent, pendingSet, queuedAt, completed, inHand, applied, lost, frame, written, taken>>
  OBVIOUS
<1>2. LibTypeOK' /\ OneOwner' /\ HoldsFrame' /\ B!FramesAsTaken' /\ B!RequestsKept'
  BY <1>1 DEF LibInv, LibTypeOK, OneOwner, HoldsFrame, B!FramesAsTaken, B!RequestsKept
<1>3. B!LastControlWins'
  <2>1. \A id \in ControlIds : InTheEnd(id)' = InTheEnd(id) /\ LastSent(id)' = LastSent(id)
    BY <1>1 DEF InTheEnd, Given, LastSent, B!Max
  <2>2. lost' = {} => \A id \in ControlIds : InTheEnd(id)' = LastSent(id)'
    BY <1>1, <2>1, LastControlIs DEF LibInv
  <2>3. QED
    BY <2>2 DEF B!LastControlWins, InTheEnd, Given, LastSent, B!Max
<1>4. QED
  BY <1>2, <1>3 DEF LibInv

LEMMA StopStep ==
  ASSUME LibInv, B!StdinCloses \/ B!EndCapture
  PROVE  LibInv'
<1>1. UNCHANGED <<sent, pendingSet, queuedAt, completed, inHand, applied, lost, frame, written, taken>>
  BY DEF B!StdinCloses, B!EndCapture
<1>2. QED
  BY <1>1, SameStep

\* What the oldest request carries is in force before it is forgotten.
LEMMA CompleteKeepsControls ==
  ASSUME LibTypeOK, queuedAt # <<>>, NEW id \in ControlIds,
         pendingSet' = pendingSet, queuedAt' = Tail(queuedAt),
         applied' = B!Onto(applied, Head(queuedAt).controls)
  PROVE  InTheEnd(id)' = InTheEnd(id)
<1>1. /\ queuedAt \in Seq(Asked) /\ Head(queuedAt) = queuedAt[1] /\ queuedAt[1] \in Asked
      /\ Len(queuedAt) \in Nat \ {0} /\ 1 \in DOMAIN queuedAt /\ DOMAIN queuedAt = 1..Len(queuedAt)
      /\ DOMAIN queuedAt' = 1..(Len(queuedAt) - 1)
      /\ \A n \in DOMAIN queuedAt' : n + 1 \in DOMAIN queuedAt /\ queuedAt'[n] = queuedAt[n + 1]
  <2>1. queuedAt \in Seq(Asked)
    BY DEF LibTypeOK
  <2>2. QED
    BY <2>1, TailIs
<1>2. applied \in Control /\ queuedAt[1].controls \in Control
  BY <1>1 DEF LibTypeOK, Asked
<1>3. applied'[id] = IF queuedAt[1].controls[id] # 0 THEN queuedAt[1].controls[id] ELSE applied[id]
  BY <1>1, <1>2 DEF B!Onto, Control
<1>4. CASE pendingSet[id] # 0
  BY <1>4 DEF InTheEnd
<1>5. CASE pendingSet[id] = 0 /\ Given(id)' # {}
  <2>1. Given(id)' \in SUBSET (1..(Len(queuedAt) - 1)) /\ Len(queuedAt) - 1 \in Nat
    BY <1>1 DEF Given
  <2>2. PICK m \in Given(id)' : \A n \in Given(id)' : n <= m
    BY <1>5, <2>1, GreatestExists
  <2>3. m \in Nat /\ m + 1 \in Given(id) /\ queuedAt'[m] = queuedAt[m + 1]
    BY <1>1, <2>1 DEF Given
  <2>4. Given(id) \in SUBSET Int
    BY <1>1 DEF Given
  <2>5. ASSUME NEW n \in Given(id) PROVE n <= m + 1
    <3>1. n \in 1..Len(queuedAt) /\ queuedAt[n].controls[id] # 0
      BY <1>1 DEF Given
    <3>2. CASE n = 1
      BY <2>3, <3>2
    <3>3. CASE n # 1
      <4>1. n - 1 \in DOMAIN queuedAt' /\ (n - 1) + 1 = n
        BY <1>1, <3>1, <3>3
      <4>2. queuedAt'[n - 1] = queuedAt[n]
        BY <1>1, <4>1
      <4>3. n - 1 \in Given(id)'
        BY <3>1, <4>1, <4>2 DEF Given
      <4>4. n - 1 <= m
        BY <2>2, <4>3
      <4>5. QED
        BY <2>3, <3>1, <4>4
    <3>4. QED
      BY <3>2, <3>3
  <2>6. B!Max(Given(id)) = m + 1
    BY <2>3, <2>4, <2>5, MaxIs
  <2>7. Given(id)' \in SUBSET Int
    BY <2>1
  <2>8. B!Max(Given(id)') = m
    BY <2>2, <2>7, MaxIs
  <2>9. B!Max(Given(id))' = m
    BY <2>8 DEF B!Max
  <2>10. InTheEnd(id) = queuedAt[m + 1].controls[id]
    BY <1>5, <2>3, <2>6 DEF InTheEnd
  <2>11. InTheEnd(id)' = queuedAt'[m].controls[id]
    BY <1>5, <2>9 DEF InTheEnd
  <2>12. QED
    BY <2>3, <2>10, <2>11
<1>6. CASE pendingSet[id] = 0 /\ Given(id)' = {}
  <2>1. ASSUME NEW n \in Given(id) PROVE n = 1
    <3>1. n \in 1..Len(queuedAt) /\ queuedAt[n].controls[id] # 0
      BY <1>1 DEF Given
    <3>2. CASE n # 1
      <4>1. n - 1 \in DOMAIN queuedAt' /\ (n - 1) + 1 = n
        BY <1>1, <3>1, <3>2
      <4>2. queuedAt'[n - 1] = queuedAt[n]
        BY <1>1, <4>1
      <4>3. n - 1 \in Given(id)'
        BY <3>1, <4>1, <4>2 DEF Given
      <4>4. QED
        BY <1>6, <4>3
    <3>3. QED
      BY <3>2
  <2>2. InTheEnd(id)' = applied'[id]
    BY <1>6 DEF InTheEnd
  <2>3. CASE queuedAt[1].controls[id] # 0
    <3>1. 1 \in Given(id) /\ Given(id) \in SUBSET Int /\ \A n \in Given(id) : n <= 1
      BY <1>1, <2>1, <2>3 DEF Given
    <3>2. B!Max(Given(id)) = 1
      BY <3>1, MaxIs
    <3>3. InTheEnd(id) = queuedAt[1].controls[id]
      BY <1>6, <3>1, <3>2 DEF InTheEnd
    <3>4. QED
      BY <1>3, <2>2, <2>3, <3>3
  <2>4. CASE queuedAt[1].controls[id] = 0
    <3>1. Given(id) = {}
      BY <1>1, <2>1, <2>4 DEF Given
    <3>2. QED
      BY <1>3, <1>6, <2>2, <2>4, <3>1 DEF InTheEnd
  <2>5. QED
    BY <2>3, <2>4
<1>7. QED
  BY <1>4, <1>5, <1>6

LEMMA CompleteStep ==
  ASSUME LibInv, B!Complete
  PROVE  LibInv'
<1>1. /\ queuedAt # <<>> /\ pendingSet' = pendingSet /\ queuedAt' = Tail(queuedAt)
      /\ applied' = B!Onto(applied, Head(queuedAt).controls)
      /\ taken' = taken + 1
      /\ frame' = [frame EXCEPT ![Head(queuedAt).request] = taken + 1]
      /\ completed' = Append(completed, [request |-> Head(queuedAt).request, number |-> taken + 1])
      /\ UNCHANGED <<sent, pendingSet, inHand, lost, written>>
  BY DEF B!Complete
<1>2. LibTypeOK
  BY DEF LibInv
<1>3. /\ Head(queuedAt) = queuedAt[1] /\ queuedAt[1] \in Asked /\ queuedAt' \in Seq(Asked)
      /\ Len(queuedAt) \in Nat \ {0} /\ 1 \in DOMAIN queuedAt /\ Len(queuedAt') = Len(queuedAt) - 1
      /\ \A n \in DOMAIN queuedAt' :
           n \in Nat /\ n + 1 \in DOMAIN queuedAt /\ n + 1 # 1 /\ queuedAt'[n] = queuedAt[n + 1]
  <2>1. queuedAt \in Seq(Asked)
    BY <1>2 DEF LibTypeOK
  <2>2. QED
    BY <1>1, <2>1, TailIs
<1> DEFINE r == queuedAt[1].request
           done == [request |-> r, number |-> taken + 1]
<1>4. r \in Requests /\ done \in Done /\ taken \in Nat /\ completed' = Append(completed, done)
      /\ done.request = r /\ done.number = taken + 1
  BY <1>1, <1>2, <1>3 DEF LibTypeOK, Asked, Done
<1>5. /\ completed' \in Seq(Done) /\ Len(completed) \in Nat /\ Len(completed') = Len(completed) + 1
      /\ \A n \in DOMAIN completed' :
           \/ n \in DOMAIN completed /\ completed'[n] = completed[n]
           \/ n = Len(completed) + 1 /\ completed'[n] = done
  <2>1. completed \in Seq(Done)
    BY <1>2 DEF LibTypeOK
  <2> HIDE DEF done
  <2>2. QED
    BY <1>4, <2>1, AppendIs
<1> HIDE DEF done
<1>6. applied' \in Control /\ frame' \in [Requests -> Nat] /\ frame'[r] = taken + 1
      /\ \A q \in Requests : q # r => frame'[q] = frame[q]
  <2>1. applied \in Control /\ queuedAt[1].controls \in Control /\ frame \in [Requests -> Nat]
    BY <1>2, <1>3 DEF LibTypeOK, Asked
  <2>2. applied' \in Control
    BY <1>1, <1>3, <2>1 DEF B!Onto, Control
  <2>3. QED
    BY <1>1, <1>3, <1>4, <2>1, <2>2
<1>7. LibTypeOK'
  <2>1. taken' \in Nat
    BY <1>1, <1>4
  <2>2. QED
    BY <1>1, <1>2, <1>3, <1>5, <1>6, <2>1 DEF LibTypeOK
<1>8. OneOwner
  BY DEF LibInv
<1>9. OneOwner'
  <2>1. \A m, n \in DOMAIN queuedAt' : m # n => queuedAt'[m].request # queuedAt'[n].request
    BY <1>3, <1>8 DEF OneOwner
  <2>2. \A m \in DOMAIN queuedAt' : queuedAt'[m].request # r
    BY <1>3, <1>8 DEF OneOwner
  <2>3. \A n \in DOMAIN completed : completed[n].request # r
    BY <1>3, <1>8 DEF OneOwner
  <2>4. r \notin lost
    BY <1>3, <1>8 DEF OneOwner
  <2>5. \A m, n \in DOMAIN completed' : m # n => completed'[m].request # completed'[n].request
    BY <1>4, <1>5, <1>8, <2>3 DEF OneOwner
  <2>6. \A m \in DOMAIN queuedAt', n \in DOMAIN completed' : queuedAt'[m].request # completed'[n].request
    BY <1>3, <1>4, <1>5, <1>8, <2>2 DEF OneOwner
  <2>7. (\A m \in DOMAIN queuedAt' : queuedAt'[m].request \notin lost')
        /\ (\A m \in DOMAIN completed' : completed'[m].request \notin lost')
    BY <1>1, <1>3, <1>4, <1>5, <1>8, <2>4 DEF OneOwner
  <2>8. inHand' # <<>> =>
          /\ inHand'[1].request \notin lost'
          /\ \A m \in DOMAIN queuedAt' : queuedAt'[m].request # inHand'[1].request
          /\ \A m \in DOMAIN completed' : completed'[m].request # inHand'[1].request
    <3>1. SUFFICES ASSUME inHand # <<>>
                   PROVE  /\ inHand[1].request \notin lost
                          /\ \A m \in DOMAIN queuedAt' : queuedAt'[m].request # inHand[1].request
                          /\ \A m \in DOMAIN completed' : completed'[m].request # inHand[1].request
      BY <1>1
    <3>2. r # inHand[1].request
      BY <1>3, <1>8, <3>1 DEF OneOwner
    <3>3. QED
      BY <1>3, <1>4, <1>5, <1>8, <3>1, <3>2 DEF OneOwner
  <2>9. QED
    BY <2>1, <2>5, <2>6, <2>7, <2>8 DEF OneOwner
<1>10. HoldsFrame'
  <2>1. \A n \in DOMAIN completed : completed[n].request \in Requests /\ completed[n].request # r
    <3>1. \A n \in DOMAIN completed : completed[n] \in Done
      <4>1. completed \in Seq(Done)
        BY <1>2 DEF LibTypeOK
      <4>2. QED
        BY <4>1
    <3>2. \A n \in DOMAIN completed : completed[n].request # r
      BY <1>3, <1>8 DEF OneOwner
    <3>3. QED
      BY <3>1, <3>2 DEF Done
  <2>2. \A n \in DOMAIN completed' : frame'[completed'[n].request] = completed'[n].number
    BY <1>4, <1>5, <1>6, <2>1 DEF LibInv, HoldsFrame
  <2>3. ASSUME inHand # <<>> PROVE frame'[inHand[1].request] = inHand[1].number
    <3>1. inHand[1].request # r
      BY <1>3, <1>8, <2>3 DEF OneOwner
    <3>2. inHand[1].request \in Requests
      <4>1. inHand[1] \in Done \union Read
        BY <1>2, <2>3 DEF LibTypeOK
      <4>2. QED
        BY <4>1 DEF Done, Read
    <3>3. QED
      BY <1>6, <2>3, <3>1, <3>2 DEF LibInv, HoldsFrame
  <2>4. QED
    BY <1>1, <2>2, <2>3 DEF HoldsFrame
<1>11. B!FramesAsTaken' /\ B!RequestsKept'
  <2>1. B!FramesAsTaken'
    BY <1>1 DEF LibInv, B!FramesAsTaken
  <2>2. Cardinality(lost) \in Nat /\ Len(inHand) \in Nat
    <3>1. IsFiniteSet(lost)
      BY <1>2, VisionAssumption, FS_Subset DEF LibTypeOK
    <3>2. QED
      BY <1>2, <3>1, FS_CardinalityType DEF LibTypeOK
  <2>3. B!RequestsKept'
    <3>1. /\ lost' = lost /\ inHand' = inHand /\ Len(queuedAt') = Len(queuedAt) - 1
          /\ Len(completed') = Len(completed) + 1
      BY <1>1, <1>3, <1>5
    <3>2. Cardinality(lost) + Len(queuedAt) + Len(completed) + Len(inHand) = Cardinality(Requests)
      BY CountIs DEF LibInv, B!RequestsKept
    <3>3. Cardinality(lost) + (Len(queuedAt) - 1) + (Len(completed) + 1) + Len(inHand)
            = Cardinality(Requests)
      BY <1>3, <1>5, <2>2, <3>2
    <3>4. QED
      BY <3>1, <3>3, CountIs DEF B!RequestsKept
  <2>4. QED
    BY <2>1, <2>3
<1>12. B!LastControlWins'
  <2>1. ASSUME lost' = {}, NEW id \in ControlIds PROVE InTheEnd(id)' = LastSent(id)'
    <3>1. InTheEnd(id)' = InTheEnd(id)
      BY <1>1, <1>2, CompleteKeepsControls
    <3>2. LastSent(id)' = LastSent(id)
      BY <1>1 DEF LastSent, B!Max
    <3>3. QED
      BY <1>1, <2>1, <3>1, <3>2, LastControlIs DEF LibInv
  <2>2. QED
    BY <2>1 DEF B!LastControlWins, InTheEnd, Given, LastSent, B!Max
<1>13. QED
  BY <1>7, <1>9, <1>10, <1>11, <1>12 DEF LibInv


LEMMA OneMoreLost ==
  ASSUME NEW S \in SUBSET Requests, NEW r \in Requests, r \notin S
  PROVE  Cardinality(S \union {r}) = Cardinality(S) + 1 /\ Cardinality(S) \in Nat
  BY VisionAssumption, FS_Subset, FS_AddElement, FS_CardinalityType

LEMMA ReceiveStep ==
  ASSUME LibInv, B!Receive
  PROVE  LibInv'
<1>1. /\ inHand = <<>> /\ completed # <<>> /\ completed' = Tail(completed)
      /\ \/ inHand' = <<Head(completed)>> /\ lost' = lost
         \/ lost' = lost \union {Head(completed).request} /\ inHand' = inHand
      /\ UNCHANGED <<sent, pendingSet, queuedAt, applied, frame, written, taken>>
  BY DEF B!Receive
<1>2. LibTypeOK /\ OneOwner
  BY DEF LibInv
<1>3. /\ Head(completed) = completed[1] /\ completed[1] \in Done /\ completed' \in Seq(Done)
      /\ Len(completed) \in Nat \ {0} /\ 1 \in DOMAIN completed /\ Len(completed') = Len(completed) - 1
      /\ \A n \in DOMAIN completed' :
           n \in Nat /\ n + 1 \in DOMAIN completed /\ n + 1 # 1 /\ completed'[n] = completed[n + 1]
  <2>1. completed \in Seq(Done)
    BY <1>2 DEF LibTypeOK
  <2>2. QED
    BY <1>1, <2>1, TailIs
<1> DEFINE r == completed[1].request
<1>4. r \in Requests /\ r \notin lost /\ frame[r] = completed[1].number
      /\ (\A m \in DOMAIN queuedAt : queuedAt[m].request # r)
      /\ (\A m \in DOMAIN completed' : completed'[m].request # r)
  <2>1. frame[r] = completed[1].number
    BY <1>3 DEF LibInv, HoldsFrame
  <2>2. r \in Requests
    BY <1>3 DEF Done
  <2>3. r \notin lost /\ (\A m \in DOMAIN queuedAt : queuedAt[m].request # r)
    BY <1>2, <1>3 DEF OneOwner
  <2>4. \A m \in DOMAIN completed' : completed'[m].request # r
    BY <1>2, <1>3 DEF OneOwner
  <2>5. QED
    BY <2>1, <2>2, <2>3, <2>4
<1>5. inHand' # <<>> => inHand' = <<completed[1]>> /\ inHand'[1] = completed[1]
  BY <1>1, <1>3
<1>6. lost' \subseteq lost \union {r}
  BY <1>1, <1>3
<1>7. LibTypeOK'
  <2>1. inHand' \in Seq(Done \union Read) /\ Len(inHand') <= 1
    <3>1. <<completed[1]>> \in Seq(Done \union Read) /\ Len(<<completed[1]>>) = 1
      BY <1>3
    <3>2. CASE inHand' = inHand
      BY <1>2, <3>2 DEF LibTypeOK
    <3>3. CASE inHand' = <<completed[1]>>
      BY <3>1, <3>3
    <3>4. QED
      BY <1>1, <1>3, <3>2, <3>3
  <2>2. lost' \subseteq Requests
    BY <1>2, <1>4, <1>6 DEF LibTypeOK
  <2>3. QED
    BY <1>1, <1>2, <1>3, <2>1, <2>2 DEF LibTypeOK
<1>8. OneOwner' /\ HoldsFrame'
  <2>1. \A m, n \in DOMAIN completed' : m # n => completed'[m].request # completed'[n].request
    BY <1>2, <1>3 DEF OneOwner
  <2>2. \A m \in DOMAIN queuedAt', n \in DOMAIN completed' : queuedAt'[m].request # completed'[n].request
    BY <1>1, <1>2, <1>3 DEF OneOwner
  <2>3. (\A m \in DOMAIN queuedAt' : queuedAt'[m].request \notin lost')
        /\ (\A m \in DOMAIN completed' : completed'[m].request \notin lost')
    BY <1>1, <1>2, <1>3, <1>4, <1>6 DEF OneOwner
  <2>4. inHand' # <<>> =>
          /\ inHand'[1].request \notin lost'
          /\ \A m \in DOMAIN queuedAt' : queuedAt'[m].request # inHand'[1].request
          /\ \A m \in DOMAIN completed' : completed'[m].request # inHand'[1].request
          /\ frame'[inHand'[1].request] = inHand'[1].number
    <3>1. inHand' # <<>> => lost' = lost
      BY <1>1
    <3>2. QED
      BY <1>1, <1>4, <1>5, <3>1
  <2>5. \A n \in DOMAIN completed' : frame'[completed'[n].request] = completed'[n].number
    BY <1>1, <1>3 DEF LibInv, HoldsFrame
  <2>6. OneOwner'
    BY <1>1, <1>2, <2>1, <2>2, <2>3, <2>4 DEF OneOwner
  <2>7. QED
    BY <2>4, <2>5, <2>6 DEF HoldsFrame
<1>9. B!FramesAsTaken'
  BY <1>1 DEF LibInv, B!FramesAsTaken
<1>10. B!RequestsKept'
  <2>1. Cardinality(lost \union {r}) = Cardinality(lost) + 1 /\ Cardinality(lost) \in Nat
    BY <1>2, <1>4, OneMoreLost DEF LibTypeOK
  <2>2. Len(queuedAt) \in Nat
    BY <1>2 DEF LibTypeOK
  <2>3. Len(inHand) = 0
    BY <1>1
  <2>4. Cardinality(lost) + Len(queuedAt) + Len(completed) + Len(inHand) = Cardinality(Requests)
    BY CountIs DEF LibInv, B!RequestsKept
  <2>5. Cardinality(lost) + 1 + Len(queuedAt) + (Len(completed) - 1) + 0 = Cardinality(Requests)
        /\ Cardinality(lost) + Len(queuedAt) + (Len(completed) - 1) + 1 = Cardinality(Requests)
    BY <1>3, <2>1, <2>2, <2>3, <2>4
  <2>6. CASE inHand' = <<Head(completed)>> /\ lost' = lost
    <3>1. Len(inHand') = 1
      BY <2>6
    <3>2. QED
      BY <1>1, <1>3, <2>5, <2>6, <3>1, CountIs DEF B!RequestsKept
  <2>7. CASE lost' = lost \union {Head(completed).request} /\ inHand' = inHand
    <3>1. Cardinality(lost') = Cardinality(lost) + 1
      BY <1>3, <2>1, <2>7
    <3>2. Len(inHand') = 0
      BY <2>3, <2>7
    <3>3. QED
      BY <1>1, <1>3, <2>5, <3>1, <3>2, CountIs DEF B!RequestsKept
  <2>8. QED
    BY <1>1, <2>6, <2>7
<1>11. B!LastControlWins'
  <2>1. \A id \in ControlIds : InTheEnd(id)' = InTheEnd(id) /\ LastSent(id)' = LastSent(id)
    BY <1>1 DEF InTheEnd, Given, LastSent, B!Max
  <2>2. lost' = {} => lost = {}
    BY <1>1
  <2>3. lost' = {} => \A id \in ControlIds : InTheEnd(id)' = LastSent(id)'
    BY <2>1, <2>2, LastControlIs DEF LibInv
  <2>4. QED
    BY <2>3 DEF B!LastControlWins, InTheEnd, Given, LastSent, B!Max
<1>12. QED
  BY <1>7, <1>8, <1>9, <1>10, <1>11 DEF LibInv

LEMMA WriteFrameStep ==
  ASSUME LibInv, B!WriteFrame
  PROVE  LibInv'
<1>1. /\ inHand # <<>>
      /\ inHand' = <<[request |-> inHand[1].request, number |-> inHand[1].number, read |-> TRUE]>>
      /\ \/ written' = written \union {<<inHand[1].number, frame[inHand[1].request]>>}
         \/ written' = written
      /\ UNCHANGED <<sent, pendingSet, queuedAt, completed, applied, lost, frame, taken>>
  BY DEF B!WriteFrame
<1>2. LibTypeOK /\ OneOwner /\ HoldsFrame
  BY DEF LibInv
<1>3. inHand[1].request \in Requests /\ inHand[1].number \in Nat
  <2>1. inHand[1] \in Done \union Read
    BY <1>1, <1>2 DEF LibTypeOK
  <2>2. QED
    BY <2>1 DEF Done, Read
<1>4. /\ inHand' \in Seq(Done \union Read) /\ Len(inHand') = 1 /\ inHand' # <<>>
      /\ inHand'[1].request = inHand[1].request /\ inHand'[1].number = inHand[1].number
  <2>1. [request |-> inHand[1].request, number |-> inHand[1].number, read |-> TRUE] \in Done \union Read
    BY <1>3 DEF Read
  <2>2. QED
    BY <1>1, <2>1
<1>5. LibTypeOK'
  BY <1>1, <1>2, <1>4 DEF LibTypeOK
<1>6. OneOwner' /\ HoldsFrame'
  BY <1>1, <1>2, <1>4 DEF OneOwner, HoldsFrame
<1>7. B!FramesAsTaken'
  <2>1. frame[inHand[1].request] = inHand[1].number
    BY <1>1, <1>2 DEF HoldsFrame
  <2>2. QED
    BY <1>1, <2>1 DEF LibInv, B!FramesAsTaken
<1>8. B!RequestsKept'
  <2>1. Len(inHand) = 1
    <3> DEFINE k == Len(inHand)
    <3>1. k \in Nat /\ k # 0 /\ k <= 1
      BY <1>1, <1>2 DEF LibTypeOK
    <3> HIDE DEF k
    <3>2. k = 1
      BY <3>1
    <3>3. QED
      BY <3>2 DEF k
  <2>2. QED
    BY <1>1, <1>4, <2>1 DEF LibInv, B!RequestsKept
<1>9. B!LastControlWins'
  <2>1. \A id \in ControlIds : InTheEnd(id)' = InTheEnd(id) /\ LastSent(id)' = LastSent(id)
    BY <1>1 DEF InTheEnd, Given, LastSent, B!Max
  <2>2. lost' = {} => \A id \in ControlIds : InTheEnd(id)' = LastSent(id)'
    BY <1>1, <2>1, LastControlIs DEF LibInv
  <2>3. QED
    BY <2>2 DEF B!LastControlWins, InTheEnd, Given, LastSent, B!Max
<1>10. QED
  BY <1>5, <1>6, <1>7, <1>8, <1>9 DEF LibInv

\* The controls taken go with the request, which is now the last queued.
LEMMA RequeueKeepsControls ==
  ASSUME LibTypeOK, NEW r \in Requests, NEW id \in ControlIds,
         queuedAt' = Append(queuedAt, [request |-> r, controls |-> pendingSet]),
         pendingSet' = B!Untouched, applied' = applied
  PROVE  InTheEnd(id)' = InTheEnd(id)
<1> DEFINE new == [request |-> r, controls |-> pendingSet]
           last == Len(queuedAt) + 1
<1>1. pendingSet \in Control /\ new \in Asked /\ queuedAt \in Seq(Asked) /\ new.controls = pendingSet
  BY DEF LibTypeOK, Asked
<1>2. /\ Len(queuedAt) \in Nat /\ DOMAIN queuedAt = 1..Len(queuedAt)
      /\ DOMAIN queuedAt' = 1..last /\ queuedAt'[last] = new
      /\ \A n \in DOMAIN queuedAt : n \in DOMAIN queuedAt' /\ queuedAt'[n] = queuedAt[n]
      /\ \A n \in DOMAIN queuedAt' : n \in DOMAIN queuedAt \/ n = last
  <2>1. queuedAt' = Append(queuedAt, new)
    OBVIOUS
  <2> HIDE DEF new
  <2>2. QED
    BY <1>1, <2>1, AppendIs
<1>3. pendingSet'[id] = 0
  BY DEF B!Untouched
<1> HIDE DEF new
<1>4. CASE pendingSet[id] # 0
  <2>1. last \in Given(id)' /\ last \in Int
    BY <1>1, <1>2, <1>4 DEF Given
  <2>2. Given(id)' \in SUBSET Int /\ \A n \in Given(id)' : n <= last
    BY <1>2 DEF Given
  <2>3. B!Max(Given(id)') = last
    BY <2>1, <2>2, MaxIs
  <2>4. B!Max(Given(id))' = last
    BY <2>3 DEF B!Max
  <2>5. InTheEnd(id)' = queuedAt'[last].controls[id]
    BY <1>3, <2>1, <2>4 DEF InTheEnd
  <2>6. QED
    BY <1>1, <1>2, <1>4, <2>5 DEF InTheEnd
<1>5. CASE pendingSet[id] = 0
  <2>1. Given(id)' = Given(id)
    BY <1>1, <1>2, <1>5 DEF Given
  <2>2. B!Max(Given(id))' = B!Max(Given(id))
    BY <2>1 DEF B!Max
  <2>3. CASE Given(id) = {}
    BY <1>3, <1>5, <2>1, <2>3 DEF InTheEnd
  <2>4. CASE Given(id) # {}
    <3> DEFINE N == Len(queuedAt)
    <3>1. N \in Nat /\ Given(id) \in SUBSET (1..N)
      BY <1>2 DEF Given
    <3>2. PICK m \in Given(id) : \A n \in Given(id) : n <= m
      BY <2>4, <3>1, GreatestExists
    <3>3. B!Max(Given(id)) = m
      BY <3>1, <3>2, MaxIs
    <3>4. queuedAt'[m] = queuedAt[m]
      BY <1>2, <3>2 DEF Given
    <3>5. InTheEnd(id) = queuedAt[m].controls[id]
      BY <1>5, <2>4, <3>3 DEF InTheEnd
    <3>6. InTheEnd(id)' = queuedAt'[m].controls[id]
      BY <1>3, <2>1, <2>2, <2>4, <3>3 DEF InTheEnd
    <3>7. QED
      BY <3>4, <3>5, <3>6
  <2>5. QED
    BY <2>3, <2>4
<1>6. QED
  <2>1. pendingSet[id] \in Nat
    BY <1>1 DEF Control
  <2>2. QED
    BY <1>4, <1>5

LEMMA RequeueStep ==
  ASSUME LibInv, B!Requeue
  PROVE  LibInv'
<1> DEFINE r == inHand[1].request
           new == [request |-> r, controls |-> pendingSet]
<1>1. /\ inHand # <<>> /\ pendingSet' = B!Untouched /\ inHand' = <<>>
      /\ \/ queuedAt' = Append(queuedAt, new) /\ lost' = lost
         \/ lost' = lost \union {r} /\ queuedAt' = queuedAt
      /\ UNCHANGED <<sent, completed, applied, frame, written, taken>>
  BY DEF B!Requeue
<1>2. LibTypeOK /\ OneOwner /\ HoldsFrame
  BY DEF LibInv
<1>3. r \in Requests
  <2>1. inHand[1] \in Done \union Read
    BY <1>1, <1>2 DEF LibTypeOK
  <2>2. QED
    BY <2>1 DEF Done, Read
<1>4. pendingSet \in Control /\ new \in Asked /\ queuedAt \in Seq(Asked) /\ new.request = r
  BY <1>2, <1>3 DEF LibTypeOK, Asked
<1> HIDE DEF new
<1>5. /\ queuedAt' \in Seq(Asked) /\ Len(queuedAt) \in Nat
      /\ \A n \in DOMAIN queuedAt' :
           \/ n \in DOMAIN queuedAt /\ queuedAt'[n] = queuedAt[n]
           \/ n = Len(queuedAt) + 1 /\ queuedAt'[n] = new /\ lost' = lost
  <2>1. CASE queuedAt' = Append(queuedAt, new) /\ lost' = lost
    BY <1>4, <2>1, AppendIs
  <2>2. CASE queuedAt' = queuedAt
    BY <1>4, <2>2
  <2>3. QED
    BY <1>1, <2>1, <2>2
<1>6. /\ r \notin lost
      /\ \A m \in DOMAIN queuedAt : queuedAt[m].request # r
      /\ \A m \in DOMAIN completed : completed[m].request # r
  BY <1>1, <1>2 DEF OneOwner
<1>7. lost' \subseteq lost \union {r}
  BY <1>1
<1>8. LibTypeOK'
  <2>1. pendingSet' \in Control
    BY <1>1 DEF B!Untouched, Control
  <2>2. inHand' \in Seq(Done \union Read) /\ Len(inHand') <= 1
    BY <1>1
  <2>3. lost' \subseteq Requests
    BY <1>2, <1>3, <1>7 DEF LibTypeOK
  <2>4. QED
    BY <1>1, <1>2, <1>5, <2>1, <2>2, <2>3 DEF LibTypeOK
<1>9. OneOwner' /\ HoldsFrame'
  <2>1. \A m, n \in DOMAIN queuedAt' : m # n => queuedAt'[m].request # queuedAt'[n].request
    <3>1. ASSUME NEW m \in DOMAIN queuedAt', NEW n \in DOMAIN queuedAt', m # n
          PROVE  queuedAt'[m].request # queuedAt'[n].request
      <4>1. m \in DOMAIN queuedAt \/ n \in DOMAIN queuedAt
        BY <1>5, <3>1
      <4>2. QED
        BY <1>2, <1>4, <1>5, <1>6, <3>1, <4>1 DEF OneOwner
    <3>2. QED
      BY <3>1
  <2>2. \A m \in DOMAIN queuedAt', n \in DOMAIN completed' : queuedAt'[m].request # completed'[n].request
    BY <1>1, <1>2, <1>4, <1>5, <1>6 DEF OneOwner
  <2>3. \A m \in DOMAIN queuedAt' : queuedAt'[m].request \notin lost'
    <3>1. ASSUME NEW m \in DOMAIN queuedAt' PROVE queuedAt'[m].request \notin lost'
      <4>1. CASE m \in DOMAIN queuedAt /\ queuedAt'[m] = queuedAt[m]
        BY <1>2, <1>6, <1>7, <4>1 DEF OneOwner
      <4>2. CASE queuedAt'[m] = new /\ lost' = lost
        BY <1>4, <1>6, <4>2
      <4>3. QED
        BY <1>5, <4>1, <4>2
    <3>2. QED
      BY <3>1
  <2>4. \A m \in DOMAIN completed' : completed'[m].request \notin lost'
    BY <1>1, <1>2, <1>6, <1>7 DEF OneOwner
  <2>5. inHand' = <<>> /\ completed' = completed /\ frame' = frame
    BY <1>1
  <2>6. QED
    BY <1>2, <2>1, <2>2, <2>3, <2>4, <2>5 DEF OneOwner, HoldsFrame
<1>10. B!FramesAsTaken'
  BY <1>1 DEF LibInv, B!FramesAsTaken
<1>11. B!RequestsKept'
  <2>1. Cardinality(lost \union {r}) = Cardinality(lost) + 1 /\ Cardinality(lost) \in Nat
    BY <1>2, <1>3, <1>6, OneMoreLost DEF LibTypeOK
  <2>2. Len(completed) \in Nat /\ Len(inHand) = 1
    <3> DEFINE k == Len(inHand)
    <3>1. k \in Nat /\ k # 0 /\ k <= 1
      BY <1>1, <1>2 DEF LibTypeOK
    <3> HIDE DEF k
    <3>2. k = 1
      BY <3>1
    <3>3. Len(completed) \in Nat
      BY <1>2 DEF LibTypeOK
    <3>4. QED
      BY <3>2, <3>3 DEF k
  <2>3. Cardinality(lost) + Len(queuedAt) + Len(completed) + Len(inHand) = Cardinality(Requests)
    BY CountIs DEF LibInv, B!RequestsKept
  <2>4. Cardinality(lost) + 1 + Len(queuedAt) + Len(completed) + 0 = Cardinality(Requests)
        /\ Cardinality(lost) + (Len(queuedAt) + 1) + Len(completed) + 0 = Cardinality(Requests)
    BY <1>5, <2>1, <2>2, <2>3
  <2>5. Len(inHand') = 0
    BY <1>1
  <2>6. CASE queuedAt' = Append(queuedAt, new) /\ lost' = lost
    <3>1. Len(queuedAt') = Len(queuedAt) + 1
      BY <1>4, <2>6, AppendIs
    <3>2. QED
      BY <1>1, <2>4, <2>5, <2>6, <3>1, CountIs DEF B!RequestsKept
  <2>7. CASE lost' = lost \union {r} /\ queuedAt' = queuedAt
    <3>1. Cardinality(lost') = Cardinality(lost) + 1
      BY <2>1, <2>7
    <3>2. QED
      BY <1>1, <2>4, <2>5, <2>7, <3>1, CountIs DEF B!RequestsKept
  <2>8. QED
    BY <1>1, <2>6, <2>7
<1>12. B!LastControlWins'
  <2>1. ASSUME lost' = {}, NEW id \in ControlIds PROVE InTheEnd(id)' = LastSent(id)'
    <3>1. queuedAt' = Append(queuedAt, new) /\ lost = {}
      BY <1>1, <2>1
    <3>2. InTheEnd(id)' = InTheEnd(id)
      BY <1>1, <1>2, <1>3, <3>1, RequeueKeepsControls DEF new
    <3>3. LastSent(id)' = LastSent(id)
      BY <1>1 DEF LastSent, B!Max
    <3>4. QED
      BY <3>1, <3>2, <3>3, LastControlIs DEF LibInv
  <2>2. QED
    BY <2>1 DEF B!LastControlWins, InTheEnd, Given, LastSent, B!Max
<1>13. QED
  BY <1>8, <1>9, <1>10, <1>11, <1>12 DEF LibInv

\* A request is queued once.
LEMMA RequestsInOrder ==
  /\ Cardinality(Requests) \in Nat
  /\ \A n \in 1..Cardinality(Requests) : B!SetToSeq(Requests)[n] \in Requests
  /\ \A m, n \in 1..Cardinality(Requests) :
       m # n => B!SetToSeq(Requests)[m] # B!SetToSeq(Requests)[n]
<1> DEFINE N == Cardinality(Requests)
<1>1. N \in Nat /\ ExistsBijection(1..N, Requests)
  BY VisionAssumption, FS_CardinalityType
<1>2. PICK order \in Bijection(1..N, Requests) : TRUE
  BY <1>1 DEF ExistsBijection
<1>3. order \in [1..N -> Requests] /\ \A m, n \in 1..N : order[m] = order[n] => m = n
  BY <1>2 DEF Bijection, Injection, Surjection, IsInjective
<1>4. B!IsInjective(order)
  BY <1>3 DEF B!IsInjective
<1>5. B!SetToSeq(Requests) \in [1..N -> Requests] /\ B!IsInjective(B!SetToSeq(Requests))
  BY <1>3, <1>4, CountIs DEF B!SetToSeq
<1>6. QED
  BY <1>1, <1>5 DEF B!IsInjective

LEMMA LibStart == ASSUME B!LibInit PROVE LibInv
<1> DEFINE N == Cardinality(Requests)
<1>1. /\ sent = <<>> /\ pendingSet = B!Untouched /\ applied = B!Untouched
      /\ queuedAt = [i \in 1..N |-> [request |-> B!SetToSeq(Requests)[i], controls |-> B!Untouched]]
      /\ completed = <<>> /\ inHand = <<>> /\ lost = {}
      /\ frame = [r \in Requests |-> 0] /\ written = {} /\ taken = 0
  BY CountIs DEF B!LibInit
<1>2. B!Untouched \in Control /\ \A id \in ControlIds : B!Untouched[id] = 0
  BY DEF B!Untouched, Control
<1>3. \A n \in 1..N : queuedAt[n] \in Asked
  BY <1>1, <1>2, RequestsInOrder DEF Asked
<1>4. queuedAt \in Seq(Asked) /\ Len(queuedAt) = N /\ DOMAIN queuedAt = 1..N
  BY <1>1, <1>3, RequestsInOrder
<1>5. LibTypeOK
  BY <1>1, <1>2, <1>4 DEF LibTypeOK
<1>6. OneOwner /\ HoldsFrame
  <2>1. \A m, n \in DOMAIN queuedAt : m # n => queuedAt[m].request # queuedAt[n].request
    BY <1>1, <1>4, RequestsInOrder
  <2>2. DOMAIN completed = {}
    BY <1>1
  <2>3. QED
    BY <1>1, <2>1, <2>2 DEF OneOwner, HoldsFrame
<1>7. B!FramesAsTaken
  BY <1>1 DEF B!FramesAsTaken
<1>8. B!RequestsKept
  <2>1. Cardinality({}) = 0
    BY FS_EmptySet
  <2>2. QED
    BY <1>1, <1>4, <2>1, RequestsInOrder, CountIs DEF B!RequestsKept
<1>9. B!LastControlWins
  <2>1. ASSUME NEW id \in ControlIds PROVE InTheEnd(id) = LastSent(id)
    <3>1. Given(id) = {}
      BY <1>1, <1>2, <1>4 DEF Given
    <3>2. InTheEnd(id) = 0
      BY <1>1, <1>2, <3>1 DEF InTheEnd
    <3>3. {0} \union {n \in DOMAIN sent : sent[n][1] = id} = {0}
      BY <1>1
    <3>4. B!Max({0}) = 0
      BY MaxIs
    <3>5. QED
      BY <3>2, <3>3, <3>4 DEF LastSent
  <2>2. QED
    BY <2>1, LastControlIs
<1>10. QED
  BY <1>5, <1>6, <1>7, <1>8, <1>9 DEF LibInv

LEMMA LibStep ==
  ASSUME LibInv, B!LibNext
  PROVE  LibInv'
<1>1. \/ B!TakeControl \/ B!StdinCloses \/ B!Complete
      \/ B!Receive \/ B!WriteFrame \/ B!Requeue \/ B!EndCapture
  BY DEF B!LibNext
<1>2. QED
  BY <1>1, TakeControlStep, StopStep, CompleteStep, ReceiveStep, WriteFrameStep, RequeueStep

LEMMA LibIdle ==
  ASSUME LibInv, UNCHANGED libOnly
  PROVE  LibInv'
<1>1. UNCHANGED <<sent, pendingSet, queuedAt, completed, inHand, applied, lost, frame, written, taken>>
  BY DEF libOnly
<1>2. QED
  BY <1>1, SameStep

-----------------------------------------------------------------------------
(***************************************************************************)
(* The stereo matcher's process and its server                             *)
(***************************************************************************)

PortRequest == [kind : {"configure", "run", "failed", "release"}, segment : Segments, version : Nat, run : Nat]
OutputsReply == [port : Nat, kind : {"outputs"}, segment : Segments, run : Nat, version : Nat, carried : SUBSET (Nat \ {0})]
Message == [port : Nat, kind : {"exit", "configured", "refused"}] \union OutputsReply
Errors == {"exited", "timeout", "configuration_refused", "bad_request", "down", "no_matcher"}
RunAnswer ==
  [kind : Errors \union {"waiting"}, version : Nat]
    \union [kind : Errors \union {"ok"}, version : Nat, from : OutputsReply]

PortTypeOK ==
  /\ version \in [Segments -> Nat \ {0}] /\ configured \in [Segments -> Nat]
  /\ queue \in [Segments -> Seq([run : Nat, version : Nat \ {0}])]
  /\ answers \in [Segments -> Seq(RunAnswer)]
  /\ port \in Nat /\ opened \in Nat /\ up \in Nat
  /\ pending \in Seq(PortRequest) /\ input \in Seq(PortRequest) /\ parsed \in Seq(PortRequest)
  /\ inbox \in Seq(Message) /\ computed \in Seq(Message)
  /\ held \in [Segments -> [version : Nat, carried : SUBSET (Nat \ {0})]]

\* Which Port is which.
OnePort ==
  /\ port <= opened
  /\ up # 0 => up = port
  /\ port = 0 => pending = <<>> /\ configured = [s \in Segments |-> 0]
  /\ up = 0 => input = <<>> /\ parsed = <<>> /\ computed = <<>> /\ held = [s \in Segments |-> P!NotHeld]
  /\ \A n \in DOMAIN inbox : inbox[n].port # 0 /\ inbox[n].port <= opened
  /\ \A n \in DOMAIN computed : computed[n].port = up /\ computed[n].kind # "exit"

\* The run n of s, sent with the version v.
Sent(s, n, v) == n \in DOMAIN answers[s] /\ answers[s][n].version = v

\* Runs sent stay sent, at their versions.
AnswersKept ==
  \A s \in Segments : \A n \in DOMAIN answers[s] :
    n \in DOMAIN answers'[s] /\ answers'[s][n].version = answers[s][n].version

\* Runs are given up, and no others are answered.
GivenUp(as) ==
  /\ as \in [Segments -> Seq(RunAnswer)]
  /\ \A s \in Segments :
       /\ DOMAIN as[s] = DOMAIN answers[s]
       /\ \A n \in DOMAIN answers[s] :
            /\ as[s][n].version = answers[s][n].version
            /\ as[s][n].kind = "ok" => as[s][n] = answers[s][n]

\* Runs are queued in the order sent.
QueueInOrder ==
  \A s \in Segments :
    /\ \A q \in DOMAIN queue[s] : Sent(s, queue[s][q].run, queue[s][q].version)
    /\ \A p, q \in DOMAIN queue[s] : p < q => queue[s][p].run < queue[s][q].run

PendingSent ==
  /\ \A i \in DOMAIN pending :
       /\ pending[i].kind \in {"run", "failed"} => Sent(pending[i].segment, pending[i].run, pending[i].version)
       /\ pending[i].kind = "configure" => i + 1 \in DOMAIN pending /\ pending[i + 1].kind = "run"
       /\ pending[i].kind # "release"

Replies == inbox \o computed
Work == parsed \o input

\* The reply is one the process may give to the request.
Match(reply, request) ==
  /\ reply.kind # "exit"
  /\ request.kind = "configure" => reply.kind \in {"configured", "refused"}
  /\ request.kind = "run" /\ reply.kind = "outputs" =>
       /\ reply.segment = request.segment /\ reply.run = request.run /\ reply.version = request.version
       /\ \A m \in reply.carried : m < request.run /\ Sent(request.segment, m, request.version)

Same(asked, request) ==
  /\ asked.segment = request.segment /\ asked.version = request.version /\ asked.run = request.run
  /\ asked.kind = request.kind \/ (asked.kind = "run" /\ request.kind = "failed")

\* The first messages are of earlier Ports, the others answer the requests
\* that have waited longest.
RepliesMatch(old) ==
  /\ old \in 0..Len(inbox)
  /\ \A n \in 1..old : inbox[n].port # port
  /\ \A n \in (old + 1)..Len(inbox) : inbox[n].port = port
  /\ \A n \in (old + 1)..Len(inbox) : inbox[n].kind = "exit" => up = 0
  /\ \A n \in (old + 1)..Len(Replies) :
       Replies[n].kind # "exit" => n - old <= Len(pending) /\ Match(Replies[n], pending[n - old])

\* Of the requests the process has not computed, the j-th is the slot[j]-th
\* that waits for a reply.  A release waits for none.
WorkMatches(old, slot) ==
  /\ slot \in [0..Len(Work) -> 0..Len(pending)]
  /\ slot[0] = Len(Replies) - old /\ slot[Len(Work)] = Len(pending)
  /\ \A i, j \in 0..Len(Work) : i <= j => slot[i] <= slot[j]
  /\ \A j \in 1..Len(Work) :
       /\ slot[j] = slot[j - 1] + (IF Work[j].kind = "release" THEN 0 ELSE 1)
       /\ Work[j].kind # "release" => Same(Work[j], pending[slot[j]])
       /\ Work[j].kind # "failed"

\* The runs not computed are later ones than those carried over, and
\* earlier ones than those queued.
WorkInOrder ==
  /\ \A s \in Segments : \A m \in held[s].carried :
       /\ Sent(s, m, held[s].version)
       /\ \A j \in DOMAIN Work : Work[j].kind = "run" /\ Work[j].segment = s => m < Work[j].run
       /\ \A q \in DOMAIN queue[s] : m < queue[s][q].run
  /\ \A j \in DOMAIN Work : Work[j].kind = "run" =>
       /\ \A k \in DOMAIN Work :
            j < k /\ Work[k].kind = "run" /\ Work[k].segment = Work[j].segment => Work[j].run < Work[k].run
       /\ \A q \in DOMAIN queue[Work[j].segment] : Work[j].run < queue[Work[j].segment][q].run

\* Nothing of [i, j) configures or releases s.
OnlyRuns(s, i, j) == \A k \in DOMAIN Work : i <= k /\ k < j /\ Work[k].segment = s => Work[k].kind = "run"
\* The last of [1, j) to configure or release s configures it at v.
LastIs(s, j, v) ==
  \E i \in DOMAIN Work :
    /\ i < j /\ Work[i].kind = "configure" /\ Work[i].segment = s /\ Work[i].version = v
    /\ OnlyRuns(s, i + 1, j)

\* A run comes after the configuration it was sent with.
RunsConfigured ==
  \A j \in DOMAIN Work : Work[j].kind = "run" =>
    \/ LastIs(Work[j].segment, j, Work[j].version)
    \/ OnlyRuns(Work[j].segment, 1, j) /\ held[Work[j].segment].version \in {0, Work[j].version}

RefusalComes(s, old) ==
  \E n \in (old + 1)..Len(Replies) :
    /\ n - old \in DOMAIN pending
    /\ pending[n - old].kind = "configure" /\ pending[n - old].segment = s /\ Replies[n].kind = "refused"

\* What the server thinks configured is, or will be told refused.
ServerKnows(old) ==
  \A s \in Segments : configured[s] # 0 =>
    \/ LastIs(s, Len(Work) + 1, configured[s])
    \/ /\ OnlyRuns(s, 1, Len(Work) + 1)
       /\ held[s].version = configured[s] \/ (held[s].version = 0 /\ RefusalComes(s, old))

PortKnown == PortTypeOK /\ OnePort /\ QueueInOrder /\ PendingSent /\ P!AnswersOwnRun
WorkKnown(old, slot) ==
  up # 0 => WorkMatches(old, slot) /\ WorkInOrder /\ RunsConfigured /\ ServerKnows(old)
PortInv ==
  /\ PortKnown
  /\ \E old \in Nat : RepliesMatch(old) /\ \E slot : WorkKnown(old, slot)

\* The run n of s was answered with its own outputs.
OwnRun(s, n) ==
  LET from == answers[s][n].from
  IN  /\ from.segment = s /\ from.run = n /\ from.version = answers[s][n].version
      /\ \A m \in from.carried : m < n /\ answers[s][m].version = from.version

\* An answer given before stays true.
LEMMA OwnRunKept ==
  ASSUME PortTypeOK, P!AnswersOwnRun, AnswersKept,
         \A s \in Segments : \A n \in DOMAIN answers'[s] : answers'[s][n].kind = "ok" =>
           n \in DOMAIN answers[s] /\ (answers'[s][n] = answers[s][n] \/ OwnRun(s, n)')
  PROVE  P!AnswersOwnRun'
<1> SUFFICES ASSUME NEW s \in Segments, NEW n \in DOMAIN answers'[s], answers'[s][n].kind = "ok"
             PROVE  OwnRun(s, n)'
  BY DEF P!AnswersOwnRun, OwnRun
<1> DEFINE from == answers[s][n].from
<1>1. CASE n \in DOMAIN answers[s] /\ answers'[s][n] = answers[s][n]
  <2>1. answers[s][n].kind = "ok"
    BY <1>1
  <2>2. /\ from.segment = s /\ from.run = n /\ from.version = answers[s][n].version
        /\ \A m \in from.carried : m < n /\ answers[s][m].version = from.version
    BY <1>1, <2>1 DEF P!AnswersOwnRun
  <2>3. ASSUME NEW m \in from.carried PROVE answers'[s][m].version = from.version
    <3>1. answers[s] \in Seq(RunAnswer) /\ answers[s][n] \in RunAnswer
      BY <1>1 DEF PortTypeOK
    <3>2. from \in OutputsReply
      BY <2>1, <3>1 DEF RunAnswer, Errors
    <3>3. m \in Nat \ {0} /\ m < n
      BY <2>2, <3>2 DEF OutputsReply
    <3>4. m \in DOMAIN answers[s]
      BY <1>1, <3>1, <3>3
    <3>5. QED
      BY <2>2, <3>4 DEF AnswersKept
  <2>4. QED
    BY <1>1, <2>2, <2>3 DEF OwnRun
<1>2. QED
  BY <1>1

LEMMA GivenUpKeeps ==
  ASSUME PortTypeOK, P!AnswersOwnRun, GivenUp(answers')
  PROVE  AnswersKept /\ P!AnswersOwnRun'
<1>1. AnswersKept
  BY DEF GivenUp, AnswersKept
<1>2. \A s \in Segments : \A n \in DOMAIN answers'[s] : answers'[s][n].kind = "ok" =>
        n \in DOMAIN answers[s] /\ answers'[s][n] = answers[s][n]
  BY DEF GivenUp
<1>3. QED
  BY <1>1, <1>2, OwnRunKept

\* Failing the runs among some requests gives them up.
LEMMA FailingGivesUp ==
  ASSUME PortTypeOK, NEW entries, NEW reason \in {"exited", "timeout"}
  PROVE  GivenUp(P!Answered(entries, LAMBDA entry : P!Fail(entry, reason)))
<1> DEFINE Hit(s, n) ==
             \E i \in DOMAIN entries : entries[i].kind # "configure" /\ entries[i].segment = s /\ entries[i].run = n
           hit(s, n) ==
             CHOOSE i \in DOMAIN entries :
               entries[i].kind # "configure" /\ entries[i].segment = s /\ entries[i].run = n
           error(s, n) == IF entries[hit(s, n)].kind = "failed" THEN "configuration_refused" ELSE reason
           as == P!Answered(entries, LAMBDA entry : P!Fail(entry, reason))
<1>1. as = [s \in Segments |-> [n \in DOMAIN answers[s] |->
              IF Hit(s, n) THEN [kind |-> error(s, n), version |-> answers[s][n].version]
              ELSE answers[s][n]]]
  <2>1. as = [s \in Segments |-> [n \in DOMAIN answers[s] |->
              IF Hit(s, n) THEN [P!Fail(entries[hit(s, n)], reason) EXCEPT !.version = answers[s][n].version]
              ELSE answers[s][n]]]
    BY DEF P!Answered
  <2> HIDE DEF hit, Hit, as
  <2>2. \A e, v : [P!Fail(e, reason) EXCEPT !.version = v]
                  = [kind |-> IF e.kind = "failed" THEN "configuration_refused" ELSE reason, version |-> v]
    BY DEF P!Fail, P!Failure
  <2>3. QED
    BY <2>1, <2>2
<1> HIDE DEF hit
<1>2. \A s, n : error(s, n) \in Errors /\ error(s, n) # "ok"
  BY DEF Errors
<1> HIDE DEF error, Hit
<1>3. ASSUME NEW s \in Segments
      PROVE  /\ as[s] \in Seq(RunAnswer) /\ DOMAIN as[s] = DOMAIN answers[s]
             /\ \A n \in DOMAIN answers[s] :
                  /\ as[s][n].version = answers[s][n].version
                  /\ as[s][n].kind = "ok" => as[s][n] = answers[s][n]
  <2>1. answers[s] \in Seq(RunAnswer)
    BY DEF PortTypeOK
  <2>2. as[s] = [n \in DOMAIN answers[s] |->
              IF Hit(s, n) THEN [kind |-> error(s, n), version |-> answers[s][n].version]
              ELSE answers[s][n]]
    BY <1>1
  <2>3. \A n \in DOMAIN answers[s] :
          /\ as[s][n].version = answers[s][n].version
          /\ as[s][n].kind = "ok" => as[s][n] = answers[s][n]
    BY <1>2, <2>2
  <2>4. \A n \in DOMAIN answers[s] : answers[s][n] \in RunAnswer /\ answers[s][n].version \in Nat
    <3>1. \A n \in DOMAIN answers[s] : answers[s][n] \in RunAnswer
      BY <2>1
    <3>2. QED
      BY <3>1 DEF RunAnswer
  <2>5. \A n \in DOMAIN answers[s] : as[s][n] \in RunAnswer
    BY <1>2, <2>2, <2>4 DEF RunAnswer, Errors
  <2>6. as[s] \in Seq(RunAnswer)
    <3>1. Len(answers[s]) \in Nat /\ DOMAIN answers[s] = 1..Len(answers[s])
      BY <2>1
    <3>2. as[s] = [n \in 1..Len(answers[s]) |-> as[s][n]]
      BY <2>2, <3>1
    <3> HIDE DEF as
    <3>3. QED
      BY <2>5, <3>1, <3>2, SequenceIs
  <2>7. QED
    BY <2>2, <2>3, <2>6
<1>4. as \in [Segments -> Seq(RunAnswer)]
  <2>1. as = [s \in Segments |-> as[s]]
    BY <1>1
  <2> HIDE DEF as
  <2>2. QED
    BY <1>3, <2>1
<1>5. QED
  BY <1>3, <1>4 DEF GivenUp

\* A Port is no longer open: nothing is known of it any more.
LEMMA PortShut ==
  ASSUME PortInv, GivenUp(answers'), QueueInOrder',
         queue' \in [Segments -> Seq([run : Nat, version : Nat \ {0}])],
         port' = 0, up' = 0, pending' = <<>>, input' = <<>>, parsed' = <<>>, computed' = <<>>,
         configured' = [s \in Segments |-> 0],
         held' = [s \in Segments |-> P!NotHeld],
         inbox' \in Seq(Message), \A n \in DOMAIN inbox' : inbox'[n].port # 0 /\ inbox'[n].port <= opened',
         opened' \in Nat, version' = version
  PROVE  PortInv'
<1>1. PortTypeOK /\ OnePort
  BY DEF PortInv, PortKnown
<1>2. AnswersKept /\ P!AnswersOwnRun'
  BY GivenUpKeeps DEF PortInv, PortKnown
<1>3. PortTypeOK' /\ OnePort' /\ PendingSent'
  <2>1. answers' \in [Segments -> Seq(RunAnswer)]
    BY DEF GivenUp
  <2>2. PortTypeOK'
    BY <1>1, <2>1 DEF PortTypeOK, P!NotHeld
  <2>3. OnePort'
    BY DEF OnePort
  <2>4. PendingSent'
    BY DEF PendingSent
  <2>5. QED
    BY <2>2, <2>3, <2>4
<1>4. Len(inbox') \in Nat /\ DOMAIN inbox' = 1..Len(inbox')
  OBVIOUS
<1>5. Replies' = inbox' /\ Len(Replies') = Len(inbox')
  BY DEF Replies
<1>6. RepliesMatch(Len(inbox))'
  <2>1. \A n \in 1..Len(inbox') : inbox'[n].port # port'
    BY <1>4
  <2>2. ~ \E n \in (Len(inbox') + 1)..Len(inbox') : TRUE
    BY <1>4
  <2>3. Len(inbox') \in 0..Len(inbox')
    BY <1>4
  <2>4. QED
    BY <1>5, <2>1, <2>2, <2>3 DEF RepliesMatch
<1>7. (\E slot : WorkKnown(Len(inbox), slot))'
  BY DEF WorkKnown
<1>8. (\E old \in Nat : RepliesMatch(old) /\ \E slot : WorkKnown(old, slot))'
  BY <1>4, <1>6, <1>7
<1>9. QED
  BY <1>2, <1>3, <1>8 DEF PortInv, PortKnown

LEMMA ClosedGivesUp ==
  ASSUME PortTypeOK, NEW reason \in {"exited", "timeout"}, P!Closed(reason)
  PROVE  GivenUp(answers')
  BY FailingGivesUp DEF P!Closed

LEMMA CrashGivesUp ==
  ASSUME PortTypeOK,
         answers' = [s \in Segments |-> [n \in DOMAIN answers[s] |->
           IF n \in P!Waiting(s) THEN [answers[s][n] EXCEPT !.kind = "down"] ELSE answers[s][n]]]
  PROVE  GivenUp(answers')
<1>1. ASSUME NEW s \in Segments
      PROVE  /\ answers'[s] \in Seq(RunAnswer) /\ DOMAIN answers'[s] = DOMAIN answers[s]
             /\ \A n \in DOMAIN answers[s] :
                  /\ answers'[s][n].version = answers[s][n].version
                  /\ answers'[s][n].kind = "ok" => answers'[s][n] = answers[s][n]
  <2>1. answers[s] \in Seq(RunAnswer)
    BY DEF PortTypeOK
  <2>2. \A n \in DOMAIN answers[s] : answers[s][n] \in RunAnswer
    BY <2>1
  <2>3. answers'[s] = [n \in DOMAIN answers[s] |->
           IF n \in P!Waiting(s) THEN [answers[s][n] EXCEPT !.kind = "down"] ELSE answers[s][n]]
    OBVIOUS
  <2>4. \A a \in RunAnswer :
          LET b == [a EXCEPT !.kind = "down"]
          IN  b \in RunAnswer /\ b.version = a.version /\ b.kind = "down"
    BY DEF RunAnswer, Errors
  <2>5. \A n \in DOMAIN answers[s] :
          /\ answers'[s][n] \in RunAnswer
          /\ answers'[s][n].version = answers[s][n].version
          /\ answers'[s][n].kind = "ok" => answers'[s][n] = answers[s][n]
    <3>1. ASSUME NEW n \in DOMAIN answers[s]
          PROVE  /\ answers'[s][n] \in RunAnswer
                 /\ answers'[s][n].version = answers[s][n].version
                 /\ answers'[s][n].kind = "ok" => answers'[s][n] = answers[s][n]
      <4>1. CASE n \in P!Waiting(s)
        <5>1. answers'[s][n] = [answers[s][n] EXCEPT !.kind = "down"]
          BY <2>3, <4>1
        <5>2. QED
          BY <2>2, <2>4, <5>1
      <4>2. CASE n \notin P!Waiting(s)
        BY <2>2, <2>3, <4>2
      <4>3. QED
        BY <4>1, <4>2
    <3>2. QED
      BY <3>1
  <2>6. Len(answers[s]) \in Nat /\ DOMAIN answers[s] = 1..Len(answers[s])
    BY <2>1
  <2>7. answers'[s] = [n \in 1..Len(answers[s]) |-> answers'[s][n]]
    BY <2>3, <2>6
  <2>8. answers'[s] \in Seq(RunAnswer)
    BY <2>5, <2>6, <2>7, SequenceIs
  <2>9. QED
    BY <2>3, <2>5, <2>8
<1>2. answers' \in [Segments -> Seq(RunAnswer)]
  <2>1. answers' = [s \in Segments |-> answers'[s]]
    OBVIOUS
  <2>2. QED
    BY <1>1, <2>1
<1>3. QED
  BY <1>1, <1>2 DEF GivenUp

LEMMA CrashStep ==
  ASSUME PortInv, P!Crash
  PROVE  PortInv'
<1>1. /\ port' = 0 /\ pending' = <<>> /\ configured' = [s \in Segments |-> 0]
      /\ queue' = [s \in Segments |-> <<>>] /\ inbox' = <<>>
      /\ up' = 0 /\ input' = <<>> /\ parsed' = <<>> /\ computed' = <<>>
      /\ held' = [s \in Segments |-> P!NotHeld]
      /\ version' = version /\ opened' = opened
  BY DEF P!Crash, P!Ended
<1>2. GivenUp(answers')
  BY CrashGivesUp DEF P!Crash, PortInv, PortKnown
<1>3. QueueInOrder' /\ queue' \in [Segments -> Seq([run : Nat, version : Nat \ {0}])]
  <2>1. \A s \in Segments : queue'[s] = <<>> /\ DOMAIN queue'[s] = {}
    BY <1>1
  <2>2. QED
    BY <1>1, <2>1 DEF QueueInOrder
<1>5. opened' \in Nat /\ inbox' \in Seq(Message) /\ DOMAIN inbox' = {}
  BY <1>1 DEF PortInv, PortKnown, PortTypeOK
<1>6. QED
  BY <1>1, <1>2, <1>3, <1>5, PortShut

\* The first of a segment's queue is taken.
LEMMA QueueTaken ==
  ASSUME PortTypeOK, QueueInOrder, AnswersKept, NEW s \in Segments, queue[s] # <<>>,
         queue' = [queue EXCEPT ![s] = Tail(@)]
  PROVE  /\ QueueInOrder' /\ queue' \in [Segments -> Seq([run : Nat, version : Nat \ {0}])]
         /\ Head(queue[s]) = queue[s][1] /\ 1 \in DOMAIN queue[s]
         /\ queue[s][1] \in [run : Nat, version : Nat \ {0}]
         /\ Sent(s, queue[s][1].run, queue[s][1].version)
         /\ \A q \in DOMAIN queue'[s] : queue[s][1].run < queue'[s][q].run
         /\ \A x \in Segments : \A q \in DOMAIN queue'[x] :
              \E p \in DOMAIN queue[x] : queue'[x][q] = queue[x][p]
<1> DEFINE QueuedRun == [run : Nat, version : Nat \ {0}]
<1>1. queue \in [Segments -> Seq(QueuedRun)] /\ queue[s] \in Seq(QueuedRun)
  BY DEF PortTypeOK
<1> HIDE DEF QueuedRun
<1>2. /\ Head(queue[s]) = queue[s][1] /\ 1 \in DOMAIN queue[s] /\ queue[s][1] \in QueuedRun
      /\ Tail(queue[s]) \in Seq(QueuedRun) /\ DOMAIN queue[s] = 1..Len(queue[s]) /\ Len(queue[s]) \in Nat
      /\ \A q \in DOMAIN Tail(queue[s]) :
           q \in Nat \ {0} /\ q + 1 \in DOMAIN queue[s] /\ Tail(queue[s])[q] = queue[s][q + 1]
  BY <1>1, TailIs
<1>3. /\ queue'[s] = Tail(queue[s])
      /\ \A x \in Segments : x # s => queue'[x] = queue[x]
  BY <1>1
<1>4. queue' \in [Segments -> Seq(QueuedRun)]
  BY <1>1, <1>2
<1>5. QueueInOrder'
  <2>1. ASSUME NEW x \in Segments, NEW q \in DOMAIN queue'[x]
        PROVE  /\ queue'[x][q].run \in DOMAIN answers'[x]
               /\ answers'[x][queue'[x][q].run].version = queue'[x][q].version
    <3>1. PICK p \in DOMAIN queue[x] : queue'[x][q] = queue[x][p]
      BY <1>2, <1>3
    <3>2. QED
      BY <3>1 DEF QueueInOrder, Sent, AnswersKept
  <2>2. ASSUME NEW x \in Segments, NEW p \in DOMAIN queue'[x], NEW q \in DOMAIN queue'[x], p < q
        PROVE  queue'[x][p].run < queue'[x][q].run
    <3>1. CASE x = s
      <4>1. p + 1 < q + 1
        BY <1>2, <1>3, <2>2, <3>1
      <4>2. QED
        BY <1>2, <1>3, <3>1, <4>1 DEF QueueInOrder
    <3>2. CASE x # s
      BY <1>3, <2>2, <3>2 DEF QueueInOrder
    <3>3. QED
      BY <3>1, <3>2
  <2>3. QED
    BY <2>1, <2>2 DEF QueueInOrder, Sent
<1>6. Sent(s, queue[s][1].run, queue[s][1].version)
  BY <1>2 DEF QueueInOrder
<1>7. \A q \in DOMAIN queue'[s] : queue[s][1].run < queue'[s][q].run
  <2>1. \A q \in DOMAIN queue'[s] : 1 < q + 1
    BY <1>2, <1>3
  <2>2. QED
    BY <1>2, <1>3, <2>1 DEF QueueInOrder
<1>8. \A x \in Segments : \A q \in DOMAIN queue'[x] :
        \E p \in DOMAIN queue[x] : queue'[x][q] = queue[x][p]
  BY <1>2, <1>3
<1>9. QED
  BY <1>2, <1>4, <1>5, <1>6, <1>7, <1>8 DEF QueuedRun

LEMMA NoMatcherStep ==
  ASSUME PortInv, NEW s \in Segments, P!NoMatcher(s)
  PROVE  PortInv'
<1> DEFINE as == P!Answered(pending, LAMBDA entry : P!Fail(entry, "exited"))
           run == Head(queue[s]).run
<1>1. /\ queue[s] # <<>> /\ queue' = [queue EXCEPT ![s] = Tail(@)]
      /\ up = 0 /\ up' = up /\ input' = input /\ parsed' = parsed /\ computed' = computed /\ held' = held
      /\ port' = 0 /\ pending' = <<>> /\ configured' = [x \in Segments |-> 0]
      /\ answers' = [as EXCEPT ![s][run].kind = "no_matcher"]
      /\ version' = version /\ opened' = opened /\ inbox' = inbox
  BY DEF P!NoMatcher, P!Taken, P!processVars
<1>2. PortTypeOK /\ QueueInOrder /\ OnePort
  BY DEF PortInv, PortKnown
<1>3. GivenUp(as)
  BY <1>2, FailingGivesUp
<1>4. run \in DOMAIN answers[s]
  <2>1. queue[s] \in Seq([run : Nat, version : Nat \ {0}])
    BY <1>2 DEF PortTypeOK
  <2>2. Head(queue[s]) = queue[s][1] /\ 1 \in DOMAIN queue[s]
    BY <1>1, <2>1
  <2>3. QED
    BY <1>2, <2>2 DEF QueueInOrder, Sent
<1> HIDE DEF as, run
<1>5. GivenUp(answers')
  <2>1. /\ as \in [Segments -> Seq(RunAnswer)] /\ as[s] \in Seq(RunAnswer)
        /\ run \in DOMAIN as[s] /\ as[s][run] \in RunAnswer
    <3>1. as \in [Segments -> Seq(RunAnswer)] /\ as[s] \in Seq(RunAnswer) /\ run \in DOMAIN as[s]
      BY <1>3, <1>4 DEF GivenUp
    <3>2. as[s][run] \in RunAnswer
      BY <3>1, ElementIs
    <3>3. QED
      BY <3>1, <3>2
  <2> DEFINE b == [as[s][run] EXCEPT !.kind = "no_matcher"]
  <2>2. b \in RunAnswer /\ b.version = as[s][run].version /\ b.kind = "no_matcher"
    BY <2>1 DEF RunAnswer, Errors
  <2>3. answers' = [as EXCEPT ![s] = [as[s] EXCEPT ![run] = b]]
    BY <1>1, <2>1
  <2> HIDE DEF b
  <2>4. /\ [as[s] EXCEPT ![run] = b] \in Seq(RunAnswer)
        /\ DOMAIN [as[s] EXCEPT ![run] = b] = DOMAIN as[s]
        /\ \A n \in DOMAIN as[s] : [as[s] EXCEPT ![run] = b][n] = IF n = run THEN b ELSE as[s][n]
    BY <2>1, <2>2, ReplaceIs
  <2>5. /\ answers' \in [Segments -> Seq(RunAnswer)]
        /\ \A x \in Segments : DOMAIN answers'[x] = DOMAIN as[x]
        /\ \A x \in Segments : \A n \in DOMAIN as[x] :
             answers'[x][n] = IF x = s /\ n = run THEN b ELSE as[x][n]
    BY <2>1, <2>3, <2>4
  <2>6. ASSUME NEW x \in Segments, NEW n \in DOMAIN answers[x]
        PROVE  /\ answers'[x][n].version = answers[x][n].version
               /\ answers'[x][n].kind = "ok" => answers'[x][n] = answers[x][n]
    <3>1. /\ n \in DOMAIN as[x] /\ as[x][n].version = answers[x][n].version
          /\ as[x][n].kind = "ok" => as[x][n] = answers[x][n]
      BY <1>3 DEF GivenUp
    <3>2. CASE x = s /\ n = run
      <4>1. answers'[x][n] = b
        BY <2>5, <3>1, <3>2
      <4>2. QED
        BY <2>2, <3>1, <3>2, <4>1
    <3>3. CASE ~(x = s /\ n = run)
      <4>1. answers'[x][n] = as[x][n]
        BY <2>5, <3>1, <3>3
      <4>2. QED
        BY <3>1, <4>1
    <3>4. QED
      BY <3>2, <3>3
  <2>7. \A x \in Segments : DOMAIN answers'[x] = DOMAIN answers[x]
    BY <1>3, <2>5 DEF GivenUp
  <2>8. QED
    BY <2>5, <2>6, <2>7 DEF GivenUp
<1>6. AnswersKept
  BY <1>2, <1>5, GivenUpKeeps DEF PortInv, PortKnown
<1>7. QueueInOrder' /\ queue' \in [Segments -> Seq([run : Nat, version : Nat \ {0}])]
  BY <1>1, <1>2, <1>6, QueueTaken
<1>8. /\ up' = 0 /\ input' = <<>> /\ parsed' = <<>> /\ computed' = <<>>
      /\ held' = [x \in Segments |-> P!NotHeld]
      /\ inbox' \in Seq(Message) /\ opened' \in Nat
      /\ \A n \in DOMAIN inbox' : inbox'[n].port # 0 /\ inbox'[n].port <= opened'
  BY <1>1, <1>2 DEF OnePort, PortTypeOK
<1>9. QED
  BY <1>1, <1>5, <1>7, <1>8, PortShut

LEMMA HandleExitStep ==
  ASSUME PortInv, P!HandleExit
  PROVE  PortInv'
<1>1. /\ inbox # <<>> /\ inbox[1].kind = "exit" /\ inbox[1].port = port
      /\ inbox' = Tail(inbox) /\ P!Closed("exited")
      /\ queue' = queue /\ version' = version /\ opened' = opened
      /\ up' = up /\ input' = input /\ parsed' = parsed /\ computed' = computed /\ held' = held
  <2>1. inbox \in Seq(Message)
    BY DEF PortInv, PortKnown, PortTypeOK
  <2>2. inbox # <<>> => Head(inbox) = inbox[1]
    BY <2>1
  <2>3. QED
    BY <2>2 DEF P!HandleExit, P!FromPort, P!processVars
<1>2. PortTypeOK /\ OnePort /\ QueueInOrder
  BY DEF PortInv, PortKnown
<1>3. /\ inbox' \in Seq(Message) /\ 1 \in DOMAIN inbox
      /\ \A n \in DOMAIN inbox' : n + 1 \in DOMAIN inbox /\ inbox'[n] = inbox[n + 1]
  <2>1. inbox \in Seq(Message)
    BY <1>2 DEF PortTypeOK
  <2>2. QED
    BY <1>1, <2>1, TailIs
<1>4. GivenUp(answers')
  BY <1>1, <1>2, ClosedGivesUp
<1>5. AnswersKept
  BY <1>2, <1>4, GivenUpKeeps DEF PortInv, PortKnown
<1>6. QueueInOrder'
  BY <1>1, <1>2, <1>5 DEF QueueInOrder, Sent, AnswersKept
<1>7. up = 0
  <2>1. PICK old \in Nat : RepliesMatch(old)
    BY DEF PortInv
  <2>2. Len(inbox) \in Nat /\ DOMAIN inbox = 1..Len(inbox)
    BY <1>2 DEF PortTypeOK
  <2>3. ~(1 \in 1..old)
    BY <1>1, <2>1 DEF RepliesMatch
  <2>4. 1 \in (old + 1)..Len(inbox)
    BY <1>3, <2>2, <2>3
  <2>5. QED
    BY <1>1, <2>1, <2>4 DEF RepliesMatch
<1>8. /\ port' = 0 /\ pending' = <<>> /\ configured' = [s \in Segments |-> 0]
  BY <1>1 DEF P!Closed
<1>9. /\ up' = 0 /\ input' = <<>> /\ parsed' = <<>> /\ computed' = <<>>
      /\ held' = [x \in Segments |-> P!NotHeld]
      /\ queue' \in [Segments -> Seq([run : Nat, version : Nat \ {0}])]
      /\ opened' \in Nat
      /\ \A n \in DOMAIN inbox' : inbox'[n].port # 0 /\ inbox'[n].port <= opened'
  BY <1>1, <1>2, <1>3, <1>7 DEF OnePort, PortTypeOK
<1>10. QED
  BY <1>1, <1>3, <1>4, <1>6, <1>8, <1>9, PortShut

LEMMA DeadlineStep ==
  ASSUME PortInv, P!Deadline
  PROVE  PortInv'
<1>1. CASE up = port
  <2>1. /\ P!Closed("timeout") /\ up' = 0 /\ P!Ended
        /\ version' = version /\ queue' = queue /\ opened' = opened /\ inbox' = inbox
    BY <1>1 DEF P!Deadline
  <2>2. PortTypeOK /\ OnePort /\ QueueInOrder
    BY DEF PortInv, PortKnown
  <2>3. GivenUp(answers')
    BY <2>1, <2>2, ClosedGivesUp
  <2>4. AnswersKept
    BY <2>2, <2>3, GivenUpKeeps DEF PortInv, PortKnown
  <2>5. QueueInOrder'
    BY <2>1, <2>2, <2>4 DEF QueueInOrder, Sent, AnswersKept
  <2>6. /\ port' = 0 /\ pending' = <<>> /\ configured' = [s \in Segments |-> 0]
    BY <2>1 DEF P!Closed
  <2>7. /\ input' = <<>> /\ parsed' = <<>> /\ computed' = <<>>
        /\ held' = [x \in Segments |-> P!NotHeld]
    BY <2>1 DEF P!Ended
  <2>8. /\ queue' \in [Segments -> Seq([run : Nat, version : Nat \ {0}])]
        /\ inbox' \in Seq(Message) /\ opened' \in Nat
        /\ \A n \in DOMAIN inbox' : inbox'[n].port # 0 /\ inbox'[n].port <= opened'
    BY <2>1, <2>2 DEF OnePort, PortTypeOK
  <2>9. QED
    BY <2>1, <2>3, <2>5, <2>6, <2>7, <2>8, PortShut
<1>2. CASE up # port
  <2>1. P!Crash
    BY <1>2 DEF P!Deadline
  <2>2. QED
    BY <2>1, CrashStep
<1>3. QED
  BY <1>1, <1>2

LEMMA WorkIs ==
  ASSUME PortTypeOK
  PROVE  /\ Work \in Seq(PortRequest) /\ Len(Work) \in Nat /\ DOMAIN Work = 1..Len(Work)
         /\ Replies \in Seq(Message) /\ Len(Replies) = Len(inbox) + Len(computed)
         /\ DOMAIN Replies = 1..Len(Replies)
         /\ Len(inbox) \in Nat /\ DOMAIN inbox = 1..Len(inbox)
         /\ Len(computed) \in Nat /\ DOMAIN computed = 1..Len(computed)
         /\ Len(pending) \in Nat /\ DOMAIN pending = 1..Len(pending)
         /\ \A n \in DOMAIN inbox : Replies[n] = inbox[n]
         /\ \A n \in DOMAIN Replies : n \notin DOMAIN inbox => n - Len(inbox) \in DOMAIN computed /\ Replies[n] = computed[n - Len(inbox)]
         /\ \A s \in Segments : Len(answers[s]) \in Nat /\ DOMAIN answers[s] = 1..Len(answers[s])
         /\ \A s \in Segments : Len(queue[s]) \in Nat /\ DOMAIN queue[s] = 1..Len(queue[s])
<1>1. /\ pending \in Seq(PortRequest) /\ input \in Seq(PortRequest) /\ parsed \in Seq(PortRequest)
      /\ inbox \in Seq(Message) /\ computed \in Seq(Message)
  BY DEF PortTypeOK
<1>2. /\ Work \in Seq(PortRequest) /\ Len(Work) \in Nat /\ DOMAIN Work = 1..Len(Work)
  <2>1. Work \in Seq(PortRequest)
    BY <1>1, ConcatIs DEF Work
  <2>2. QED
    BY <2>1
<1>3. /\ Replies \in Seq(Message) /\ Len(Replies) = Len(inbox) + Len(computed)
      /\ DOMAIN Replies = 1..Len(Replies)
      /\ Len(inbox) \in Nat /\ DOMAIN inbox = 1..Len(inbox)
      /\ Len(computed) \in Nat /\ DOMAIN computed = 1..Len(computed)
      /\ \A n \in DOMAIN inbox : Replies[n] = inbox[n]
      /\ \A n \in DOMAIN Replies : n \notin DOMAIN inbox => n - Len(inbox) \in DOMAIN computed /\ Replies[n] = computed[n - Len(inbox)]
  <2>1. DOMAIN inbox = 1..Len(inbox) /\ DOMAIN computed = 1..Len(computed)
    BY <1>1
  <2>2. QED
    BY <1>1, <2>1, ConcatIs DEF Replies
<1>4. ASSUME NEW s \in Segments
      PROVE  /\ Len(answers[s]) \in Nat /\ DOMAIN answers[s] = 1..Len(answers[s])
             /\ Len(queue[s]) \in Nat /\ DOMAIN queue[s] = 1..Len(queue[s])
  <2>1. answers[s] \in Seq(RunAnswer) /\ queue[s] \in Seq([run : Nat, version : Nat \ {0}])
    BY DEF PortTypeOK
  <2>2. QED
    BY <2>1
<1>5. QED
  BY <1>1, <1>2, <1>3, <1>4

LEMMA ElementsAre ==
  ASSUME PortTypeOK
  PROVE  /\ \A i \in DOMAIN pending : pending[i] \in PortRequest /\ pending[i].segment \in Segments
         /\ \A j \in DOMAIN Work : Work[j] \in PortRequest /\ Work[j].segment \in Segments
         /\ \A n \in DOMAIN inbox : inbox[n] \in Message
         /\ \A n \in DOMAIN Replies : Replies[n] \in Message
<1>1. pending \in Seq(PortRequest) /\ inbox \in Seq(Message)
  BY DEF PortTypeOK
<1>2. \A r \in PortRequest : r.segment \in Segments
  BY DEF PortRequest
<1>3. (\A i \in DOMAIN pending : pending[i] \in PortRequest) /\ \A n \in DOMAIN inbox : inbox[n] \in Message
  BY <1>1, ElementIs
<1>4. \A j \in DOMAIN Work : Work[j] \in PortRequest
  BY WorkIs, ElementIs
<1>5. \A n \in DOMAIN Replies : Replies[n] \in Message
  BY WorkIs, ElementIs
<1>6. QED
  BY <1>2, <1>3, <1>4, <1>5

\* A run not computed was sent.
LEMMA WorkSent ==
  ASSUME PortTypeOK, PendingSent, NEW old, NEW slot, WorkMatches(old, slot),
         NEW j \in DOMAIN Work, Work[j].kind = "run"
  PROVE  /\ slot[j] \in DOMAIN pending /\ Same(Work[j], pending[slot[j]])
         /\ Work[j].segment \in Segments
         /\ Sent(Work[j].segment, Work[j].run, Work[j].version)
<1>1. j \in 1..Len(Work) /\ Len(Work) \in Nat /\ DOMAIN pending = 1..Len(pending) /\ Len(pending) \in Nat
      /\ Work[j] \in PortRequest
  BY WorkIs, ElementIs
<1>2. slot[j] \in 0..Len(pending) /\ slot[j - 1] \in 0..Len(pending) /\ slot[j] = slot[j - 1] + 1
  <2>1. j \in 0..Len(Work) /\ j - 1 \in 0..Len(Work) /\ Work[j].kind # "release"
    BY <1>1
  <2>2. QED
    BY <1>1, <2>1 DEF WorkMatches
<1>3. slot[j] \in DOMAIN pending /\ Same(Work[j], pending[slot[j]])
  <2>1. slot[j] \in 1..Len(pending)
    BY <1>1, <1>2
  <2>2. Work[j].kind # "release" => Same(Work[j], pending[slot[j]])
    BY <1>1 DEF WorkMatches
  <2>3. QED
    BY <1>1, <2>1, <2>2
<1>4. pending[slot[j]].kind \in {"run", "failed"}
  BY <1>3 DEF Same
<1>5. QED
  BY <1>1, <1>3, <1>4 DEF PendingSent, Same, Sent, PortRequest

\* Nothing happens to what is under way but that a reply moves on.
LEMMA QuietStep ==
  ASSUME PortInv, UNCHANGED <<port, configured, pending, opened, up, held, Work, Replies>>,
         AnswersKept, PortTypeOK', OnePort', QueueInOrder', P!AnswersOwnRun',
         \A s \in Segments : \A q \in DOMAIN queue'[s] :
           \/ \E p \in DOMAIN queue[s] : queue'[s][q] = queue[s][p]
           \/ queue'[s][q].run = Len(answers[s]) + 1,
         Len(inbox') >= Len(inbox),
         \A n \in DOMAIN inbox : inbox'[n] = inbox[n],
         \A n \in DOMAIN inbox' : n \notin DOMAIN inbox => inbox'[n].port = port /\ inbox'[n].kind # "exit"
  PROVE  PortInv'
<1>1. PortTypeOK /\ OnePort /\ QueueInOrder /\ PendingSent
  BY DEF PortInv, PortKnown
<1>2. PICK old \in Nat : RepliesMatch(old) /\ \E slot : WorkKnown(old, slot)
  BY DEF PortInv
<1>3. PICK slot : WorkKnown(old, slot)
  BY <1>2
<1>4. Work' = Work /\ Replies' = Replies
  OBVIOUS
<1>6. PendingSent'
  <2>1. \A i \in DOMAIN pending : pending[i].segment \in Segments
    BY <1>1, ElementsAre
  <2>2. QED
    BY <1>1, <2>1 DEF PendingSent, Sent, AnswersKept
<1>7. RepliesMatch(old)'
  <2>1. \A n \in (old + 1)..Len(Replies) :
          Replies[n].kind # "exit" => n - old <= Len(pending) /\ Match(Replies[n], pending[n - old])'
    <3>1. ASSUME NEW n \in (old + 1)..Len(Replies), Replies[n].kind # "exit"
          PROVE  n - old <= Len(pending) /\ Match(Replies[n], pending[n - old])'
      <4>1. n - old <= Len(pending) /\ Match(Replies[n], pending[n - old])
        BY <1>2, <3>1 DEF RepliesMatch
      <4>2. n - old \in DOMAIN pending
        BY <1>1, <4>1, WorkIs
      <4>3. pending[n - old].segment \in Segments
        BY <1>1, <4>2, ElementsAre
      <4>4. QED
        BY <1>4, <4>1, <4>3 DEF Match, Sent, AnswersKept
    <3>2. QED
      BY <3>1
  <2>2. /\ Len(inbox) \in Nat /\ DOMAIN inbox = 1..Len(inbox)
        /\ Len(inbox') \in Nat /\ DOMAIN inbox' = 1..Len(inbox')
    <3>1. inbox \in Seq(Message) /\ inbox' \in Seq(Message)
      BY <1>1 DEF PortTypeOK
    <3>2. QED
      BY <3>1
  <2>3. old \in 0..Len(inbox') /\ \A n \in 1..old : inbox'[n].port # port
    BY <1>2, <2>2 DEF RepliesMatch
  <2>4. ASSUME NEW n \in (old + 1)..Len(inbox')
        PROVE  inbox'[n].port = port /\ (inbox'[n].kind = "exit" => up = 0)
    <3>1. CASE n \in DOMAIN inbox
      BY <1>2, <2>2, <3>1 DEF RepliesMatch
    <3>2. CASE n \notin DOMAIN inbox
      BY <2>2, <3>2
    <3>3. QED
      BY <3>1, <3>2
  <2>5. QED
    BY <1>4, <2>1, <2>3, <2>4 DEF RepliesMatch
<1>8. ASSUME up # 0
      PROVE  WorkMatches(old, slot)' /\ WorkInOrder' /\ RunsConfigured' /\ ServerKnows(old)'
  <2>1. WorkMatches(old, slot) /\ WorkInOrder /\ RunsConfigured /\ ServerKnows(old)
    BY <1>3, <1>8 DEF WorkKnown
  <2>2. WorkMatches(old, slot)'
    BY <1>4, <2>1 DEF WorkMatches, Same
  <2>3. RunsConfigured'
    BY <1>4, <2>1 DEF RunsConfigured, LastIs, OnlyRuns
  <2>4. ServerKnows(old)'
    BY <1>4, <2>1 DEF ServerKnows, LastIs, OnlyRuns, RefusalComes
  <2>5. ASSUME NEW s \in Segments, NEW n, n \in DOMAIN answers[s], NEW q \in DOMAIN queue'[s],
               \A p \in DOMAIN queue[s] : n < queue[s][p].run
        PROVE  n < queue'[s][q].run
    <3>1. n \in Nat /\ n <= Len(answers[s]) /\ Len(answers[s]) \in Nat
      BY <1>1, <2>5, WorkIs
    <3>2. QED
      BY <2>5, <3>1
  <2>6. ASSUME NEW s \in Segments, NEW m \in held[s].carried
        PROVE  /\ Sent(s, m, held[s].version)'
               /\ \A q \in DOMAIN queue'[s] : m < queue'[s][q].run
    <3>1. Sent(s, m, held[s].version) /\ \A q \in DOMAIN queue[s] : m < queue[s][q].run
      BY <2>1 DEF WorkInOrder
    <3>2. m \in DOMAIN answers[s]
      BY <3>1 DEF Sent
    <3>3. \A q \in DOMAIN queue'[s] : m < queue'[s][q].run
      BY <2>5, <3>1, <3>2
    <3>4. QED
      BY <3>1, <3>3 DEF Sent, AnswersKept
  <2>7. ASSUME NEW j \in DOMAIN Work, Work[j].kind = "run"
        PROVE  \A q \in DOMAIN queue'[Work[j].segment] : Work[j].run < queue'[Work[j].segment][q].run
    <3>1. Sent(Work[j].segment, Work[j].run, Work[j].version) /\ Work[j].segment \in Segments
      BY <1>1, <2>1, <2>7, WorkSent
    <3>2. \A q \in DOMAIN queue[Work[j].segment] : Work[j].run < queue[Work[j].segment][q].run
      BY <2>1, <2>7 DEF WorkInOrder
    <3>3. Work[j].run \in DOMAIN answers[Work[j].segment]
      BY <3>1 DEF Sent
    <3>4. QED
      BY <2>5, <3>1, <3>2, <3>3
  <2>8. WorkInOrder'
    BY <1>4, <2>1, <2>6, <2>7 DEF WorkInOrder
  <2>9. QED
    BY <2>2, <2>3, <2>4, <2>8
<1>9. WorkKnown(old, slot)'
  BY <1>8 DEF WorkKnown
<1>10. QED
  BY <1>6, <1>7, <1>9 DEF PortInv, PortKnown

\* The pipelines send, and nothing else happens.
LEMMA PipelineStep ==
  ASSUME PortInv, UNCHANGED <<port, configured, pending, opened, inbox, up, input, parsed, computed, held>>,
         AnswersKept, PortTypeOK', QueueInOrder', P!AnswersOwnRun',
         \A s \in Segments : \A q \in DOMAIN queue'[s] :
           \/ \E p \in DOMAIN queue[s] : queue'[s][q] = queue[s][p]
           \/ queue'[s][q].run = Len(answers[s]) + 1
  PROVE  PortInv'
<1>1. OnePort' /\ Work' = Work /\ Replies' = Replies
  BY DEF PortInv, PortKnown, OnePort, Work, Replies
<1>2. Len(inbox) \in Nat
  BY WorkIs DEF PortInv, PortKnown
<1>3. QED
  BY <1>1, <1>2, QuietStep

LEMMA SendRunStep ==
  ASSUME PortInv, NEW s \in Segments, P!SendRun(s)
  PROVE  PortInv'
<1> DEFINE sent1 == [run |-> Len(answers[s]) + 1, version |-> version[s]]
           waits == [kind |-> "waiting", version |-> version[s]]
<1>1. /\ queue' = [queue EXCEPT ![s] = Append(@, sent1)]
      /\ answers' = [answers EXCEPT ![s] = Append(@, waits)]
      /\ UNCHANGED <<version, port, configured, pending, opened, inbox, up, input, parsed, computed, held>>
  BY DEF P!SendRun, P!serverVars, P!processVars
<1>2. PortTypeOK /\ QueueInOrder /\ P!AnswersOwnRun
  BY DEF PortInv, PortKnown
<1>3. /\ queue \in [Segments -> Seq([run : Nat, version : Nat \ {0}])]
      /\ answers \in [Segments -> Seq(RunAnswer)]
      /\ answers[s] \in Seq(RunAnswer) /\ queue[s] \in Seq([run : Nat, version : Nat \ {0}])
      /\ version[s] \in Nat \ {0} /\ Len(answers[s]) \in Nat /\ Len(queue[s]) \in Nat
      /\ DOMAIN answers[s] = 1..Len(answers[s])
  BY <1>2, WorkIs DEF PortTypeOK
<1>4. /\ sent1 \in [run : Nat, version : Nat \ {0}] /\ sent1.run = Len(answers[s]) + 1 /\ sent1.version = version[s]
      /\ waits \in RunAnswer /\ waits.kind = "waiting" /\ waits.version = version[s]
  BY <1>3 DEF RunAnswer, Errors
<1> HIDE DEF sent1, waits
<1>5. /\ answers' \in [Segments -> Seq(RunAnswer)]
      /\ \A x \in Segments : x # s => answers'[x] = answers[x]
      /\ DOMAIN answers'[s] = 1..(Len(answers[s]) + 1)
      /\ answers'[s][Len(answers[s]) + 1] = waits
      /\ \A n \in DOMAIN answers[s] : answers'[s][n] = answers[s][n]
  <2>1. answers'[s] = Append(answers[s], waits) /\ answers' \in [Segments -> Seq(RunAnswer)]
    BY <1>1, <1>3, <1>4, AppendIs
  <2>2. QED
    BY <1>1, <1>3, <1>4, <2>1, AppendIs
<1>6. /\ queue' \in [Segments -> Seq([run : Nat, version : Nat \ {0}])]
      /\ \A x \in Segments : x # s => queue'[x] = queue[x]
      /\ DOMAIN queue[s] = 1..Len(queue[s])
      /\ \A q \in DOMAIN queue'[s] :
           \/ q \in DOMAIN queue[s] /\ queue'[s][q] = queue[s][q]
           \/ q = Len(queue[s]) + 1 /\ queue'[s][q] = sent1
  <2>1. queue'[s] = Append(queue[s], sent1) /\ queue' \in [Segments -> Seq([run : Nat, version : Nat \ {0}])]
    BY <1>1, <1>3, <1>4, AppendIs
  <2>2. QED
    BY <1>1, <1>3, <1>4, <2>1, AppendIs
<1>7. AnswersKept
  <2>1. ASSUME NEW x \in Segments, NEW n \in DOMAIN answers[x]
        PROVE  n \in DOMAIN answers'[x] /\ answers'[x][n] = answers[x][n]
    <3>1. CASE x = s
      <4>1. n \in 1..Len(answers[s])
        BY <1>3, <3>1
      <4>2. n \in 1..(Len(answers[s]) + 1)
        BY <1>3, <4>1
      <4>3. QED
        BY <1>5, <3>1, <4>2
    <3>2. CASE x # s
      BY <1>5, <3>2
    <3>3. QED
      BY <3>1, <3>2
  <2>2. QED
    BY <2>1 DEF AnswersKept
<1>8. PortTypeOK'
  BY <1>1, <1>2, <1>5, <1>6 DEF PortTypeOK
<1>9. QueueInOrder'
  <2>1. ASSUME NEW q \in DOMAIN queue'[s]
        PROVE  /\ queue'[s][q].run \in DOMAIN answers'[s]
               /\ answers'[s][queue'[s][q].run].version = queue'[s][q].version
    <3>1. CASE q \in DOMAIN queue[s] /\ queue'[s][q] = queue[s][q]
      BY <1>2, <1>7, <3>1 DEF QueueInOrder, Sent, AnswersKept
    <3>2. CASE queue'[s][q] = sent1
      BY <1>3, <1>4, <1>5, <3>2
    <3>3. QED
      BY <1>6, <3>1, <3>2
  <2>2. ASSUME NEW p \in DOMAIN queue'[s], NEW q \in DOMAIN queue'[s], p < q
        PROVE  queue'[s][p].run < queue'[s][q].run
    <3>1. p \in DOMAIN queue[s] /\ queue'[s][p] = queue[s][p]
      <4>1. q <= Len(queue[s]) + 1 /\ q \in Nat /\ p \in Nat
        BY <1>3, <1>6
      <4>2. p # Len(queue[s]) + 1
        BY <1>3, <2>2, <4>1
      <4>3. QED
        BY <1>6, <4>2
    <3>2. CASE q \in DOMAIN queue[s] /\ queue'[s][q] = queue[s][q]
      BY <1>2, <2>2, <3>1, <3>2 DEF QueueInOrder
    <3>3. CASE queue'[s][q] = sent1
      <4>1. queue[s][p].run \in DOMAIN answers[s]
        BY <1>2, <3>1 DEF QueueInOrder, Sent
      <4>2. QED
        BY <1>3, <1>4, <3>1, <3>3, <4>1
    <3>4. QED
      BY <1>6, <3>2, <3>3
  <2>3. ASSUME NEW x \in Segments, x # s
        PROVE  /\ \A q \in DOMAIN queue'[x] :
                    /\ queue'[x][q].run \in DOMAIN answers'[x]
                    /\ answers'[x][queue'[x][q].run].version = queue'[x][q].version
               /\ \A p, q \in DOMAIN queue'[x] : p < q => queue'[x][p].run < queue'[x][q].run
    <3>1. queue'[x] = queue[x] /\ answers'[x] = answers[x]
      BY <1>5, <1>6, <2>3
    <3>2. QED
      BY <1>2, <3>1 DEF QueueInOrder, Sent
  <2>4. QED
    BY <2>1, <2>2, <2>3 DEF QueueInOrder, Sent
<1>10. P!AnswersOwnRun'
  <2>1. ASSUME NEW x \in Segments, NEW n \in DOMAIN answers'[x], answers'[x][n].kind = "ok"
        PROVE  n \in DOMAIN answers[x] /\ answers'[x][n] = answers[x][n]
    <3>1. CASE x = s
      <4>1. n # Len(answers[s]) + 1
        BY <1>4, <1>5, <2>1, <3>1
      <4>2. QED
        BY <1>3, <1>5, <3>1, <4>1
    <3>2. CASE x # s
      BY <1>5, <3>2
    <3>3. QED
      BY <3>1, <3>2
  <2>2. QED
    BY <1>2, <1>7, <2>1, OwnRunKept
<1>11. \A x \in Segments : \A q \in DOMAIN queue'[x] :
         \/ \E p \in DOMAIN queue[x] : queue'[x][q] = queue[x][p]
         \/ queue'[x][q].run = Len(answers[x]) + 1
  BY <1>4, <1>6
<1>12. QED
  BY <1>1, <1>7, <1>8, <1>9, <1>10, <1>11, PipelineStep

LEMMA ReloadStep ==
  ASSUME PortInv, NEW s \in Segments, P!Reload(s) \/ P!Exit(s)
  PROVE  PortInv'
<1>1. /\ version' = version \/ version' = [version EXCEPT ![s] = @ + 1]
      /\ UNCHANGED <<queue, answers, port, configured, pending, opened, inbox, up, input, parsed, computed, held>>
  BY DEF P!Reload, P!Exit, P!serverVars, P!processVars
<1>2. PortTypeOK /\ QueueInOrder /\ P!AnswersOwnRun
  BY DEF PortInv, PortKnown
<1>3. version' \in [Segments -> Nat \ {0}]
  <2>1. version \in [Segments -> Nat \ {0}] /\ version[s] + 1 \in Nat \ {0}
    BY <1>2 DEF PortTypeOK
  <2>2. QED
    BY <1>1, <2>1
<1>4. PortTypeOK'
  BY <1>1, <1>2, <1>3 DEF PortTypeOK
<1>5. AnswersKept /\ QueueInOrder' /\ P!AnswersOwnRun'
  BY <1>1, <1>2 DEF AnswersKept, QueueInOrder, Sent, P!AnswersOwnRun
<1>6. QED
  BY <1>1, <1>4, <1>5, PipelineStep

LEMMA ReadRequestStep ==
  ASSUME PortInv, P!ReadRequest
  PROVE  PortInv'
<1>1. /\ up # 0 /\ input # <<>>
      /\ parsed' = Append(parsed, Head(input)) /\ input' = Tail(input)
      /\ UNCHANGED <<version, queue, answers, port, configured, pending, opened, inbox, up, computed, held>>
  BY DEF P!ReadRequest, P!pipelineVars, P!serverVars
<1>2. PortTypeOK /\ OnePort /\ QueueInOrder /\ P!AnswersOwnRun
  BY DEF PortInv, PortKnown
<1>3. input \in Seq(PortRequest) /\ parsed \in Seq(PortRequest)
  BY <1>2 DEF PortTypeOK
<1>4. Work' = Work /\ Replies' = Replies
  BY <1>1, <1>3, MoveIs DEF Work, Replies
<1>5. parsed' \in Seq(PortRequest) /\ input' \in Seq(PortRequest)
  <2>1. Head(input) \in PortRequest /\ Tail(input) \in Seq(PortRequest)
    BY <1>1, <1>3
  <2>2. QED
    BY <1>1, <1>3, <2>1, AppendIs
<1>6. PortTypeOK'
  BY <1>1, <1>2, <1>5 DEF PortTypeOK
<1>7. OnePort' /\ AnswersKept /\ QueueInOrder' /\ P!AnswersOwnRun'
  BY <1>1, <1>2 DEF OnePort, AnswersKept, QueueInOrder, Sent, P!AnswersOwnRun
<1>8. Len(inbox) \in Nat
  BY <1>2, WorkIs
<1>9. QED
  BY <1>1, <1>4, <1>6, <1>7, <1>8, QuietStep

LEMMA WriteStep ==
  ASSUME PortInv, P!Write
  PROVE  PortInv'
<1>1. /\ up # 0 /\ computed # <<>>
      /\ inbox' = Append(inbox, Head(computed)) /\ computed' = Tail(computed)
      /\ UNCHANGED <<version, queue, answers, port, configured, pending, opened, up, input, parsed, held>>
  BY DEF P!Write, P!pipelineVars, P!serverVars
<1>2. PortTypeOK /\ OnePort /\ QueueInOrder /\ P!AnswersOwnRun
  BY DEF PortInv, PortKnown
<1>3. inbox \in Seq(Message) /\ computed \in Seq(Message)
  BY <1>2 DEF PortTypeOK
<1>4. Work' = Work /\ Replies' = Replies
  BY <1>1, <1>3, MoveIs DEF Work, Replies
<1>5. /\ Head(computed) \in Message /\ Head(computed) = computed[1] /\ 1 \in DOMAIN computed
      /\ computed' \in Seq(Message)
      /\ \A n \in DOMAIN computed' : n + 1 \in DOMAIN computed /\ computed'[n] = computed[n + 1]
  BY <1>1, <1>3, TailIs
<1>6. /\ inbox' \in Seq(Message) /\ Len(inbox) \in Nat /\ Len(inbox') = Len(inbox) + 1
      /\ \A n \in DOMAIN inbox : inbox'[n] = inbox[n]
      /\ \A n \in DOMAIN inbox' : n \notin DOMAIN inbox => inbox'[n] = computed[1]
  BY <1>1, <1>3, <1>5, AppendIs
<1>7. PortTypeOK'
  BY <1>1, <1>2, <1>5, <1>6 DEF PortTypeOK
<1>8. computed[1].port = port /\ computed[1].kind # "exit" /\ port # 0
  BY <1>1, <1>2, <1>5 DEF OnePort
<1>9. OnePort'
  <2>1. \A n \in DOMAIN inbox' : inbox'[n].port # 0 /\ inbox'[n].port <= opened
    BY <1>2, <1>6, <1>8 DEF OnePort
  <2>2. \A n \in DOMAIN computed' : computed'[n].port = up /\ computed'[n].kind # "exit"
    BY <1>2, <1>5 DEF OnePort
  <2>3. QED
    BY <1>1, <1>2, <2>1, <2>2 DEF OnePort
<1>10. AnswersKept /\ QueueInOrder' /\ P!AnswersOwnRun'
  BY <1>1, <1>2 DEF AnswersKept, QueueInOrder, Sent, P!AnswersOwnRun
<1>11. QED
  BY <1>1, <1>4, <1>6, <1>7, <1>8, <1>9, <1>10, QuietStep

LEMMA PortExitsStep ==
  ASSUME PortInv, P!PortExits
  PROVE  PortInv'
<1> DEFINE exit == [port |-> up, kind |-> "exit"]
<1>1. /\ up # 0 /\ up' = 0 /\ input' = <<>> /\ parsed' = <<>> /\ computed' = <<>>
      /\ held' = [s \in Segments |-> P!NotHeld]
      /\ inbox' = Append(inbox, exit)
      /\ UNCHANGED <<version, queue, answers, port, configured, pending, opened>>
  BY DEF P!PortExits, P!Ended, P!pipelineVars, P!serverVars
<1>2. PortTypeOK /\ OnePort /\ QueueInOrder /\ P!AnswersOwnRun /\ PendingSent
  BY DEF PortInv, PortKnown
<1>3. up = port /\ port # 0 /\ port <= opened /\ exit \in Message /\ exit.port = up /\ exit.kind = "exit"
  BY <1>1, <1>2 DEF OnePort, PortTypeOK, Message
<1> HIDE DEF exit
<1>4. /\ inbox' \in Seq(Message) /\ Len(inbox) \in Nat /\ Len(inbox') = Len(inbox) + 1
      /\ DOMAIN inbox = 1..Len(inbox) /\ DOMAIN inbox' = 1..(Len(inbox) + 1)
      /\ \A n \in DOMAIN inbox : inbox'[n] = inbox[n]
      /\ inbox'[Len(inbox) + 1] = exit
  <2>1. inbox \in Seq(Message)
    BY <1>2 DEF PortTypeOK
  <2>2. QED
    BY <1>1, <1>3, <2>1, AppendIs
<1>5. \A n \in DOMAIN inbox' : n \notin DOMAIN inbox => n = Len(inbox) + 1
  BY <1>4
<1>6. PortTypeOK'
  <2>1. held' \in [Segments -> [version : Nat, carried : SUBSET (Nat \ {0})]]
    BY <1>1 DEF P!NotHeld
  <2>2. QED
    BY <1>1, <1>2, <1>4, <2>1 DEF PortTypeOK
<1>7. OnePort'
  <2>1. \A n \in DOMAIN inbox' : inbox'[n].port # 0 /\ inbox'[n].port <= opened
    BY <1>2, <1>3, <1>4, <1>5 DEF OnePort
  <2>2. QED
    BY <1>1, <1>2, <2>1 DEF OnePort
<1>8. QueueInOrder' /\ P!AnswersOwnRun' /\ PendingSent'
  BY <1>1, <1>2 DEF QueueInOrder, Sent, P!AnswersOwnRun, PendingSent
<1>9. PICK old \in Nat : RepliesMatch(old)
  BY DEF PortInv
<1>10. Replies' = inbox'
  BY <1>1, <1>4 DEF Replies
<1>11. RepliesMatch(old)'
  <2>1. /\ old \in 0..Len(inbox') /\ \A n \in 1..old : inbox'[n].port # port
    BY <1>4, <1>9 DEF RepliesMatch
  <2>2. ASSUME NEW n \in (old + 1)..Len(inbox')
        PROVE  /\ inbox'[n].port = port
               /\ inbox'[n].kind # "exit" =>
                    n - old <= Len(pending) /\ Match(inbox[n], pending[n - old])'
    <3>1. CASE n \in DOMAIN inbox
      <4>1. n \in (old + 1)..Len(inbox) /\ n \in (old + 1)..Len(Replies) /\ Replies[n] = inbox[n]
        BY <1>2, <1>4, <3>1, WorkIs
      <4>2. inbox'[n].port = port
        BY <1>4, <1>9, <3>1, <4>1 DEF RepliesMatch
      <4>3. inbox[n].kind # "exit" => n - old <= Len(pending) /\ Match(inbox[n], pending[n - old])
        BY <1>9, <4>1 DEF RepliesMatch
      <4>4. inbox'[n] = inbox[n]
        BY <1>4, <3>1
      <4>5. QED
        BY <1>1, <4>2, <4>3, <4>4 DEF Match, Sent
    <3>2. CASE n = Len(inbox) + 1
      BY <1>3, <1>4, <3>2
    <3>3. QED
      BY <1>4, <3>1, <3>2
  <2>3. QED
    BY <1>1, <1>10, <2>1, <2>2 DEF RepliesMatch
<1>12. (\E slot : WorkKnown(old, slot))'
  BY <1>1 DEF WorkKnown
<1>13. QED
  BY <1>6, <1>7, <1>8, <1>11, <1>12 DEF PortInv, PortKnown

\* The server takes the first message.
LEMMA MessageTaken ==
  ASSUME PortTypeOK, inbox # <<>>, inbox' = Tail(inbox), computed' = computed
  PROVE  /\ Head(inbox) = inbox[1] /\ 1 \in DOMAIN inbox /\ 1 \in DOMAIN Replies /\ Replies[1] = inbox[1]
         /\ inbox' \in Seq(Message) /\ Len(inbox) \in Nat \ {0}
         /\ Len(inbox') = Len(inbox) - 1 /\ DOMAIN inbox' = 1..(Len(inbox) - 1)
         /\ \A n \in DOMAIN inbox' : n + 1 \in DOMAIN inbox /\ inbox'[n] = inbox[n + 1]
         /\ Len(Replies') = Len(Replies) - 1 /\ Len(Replies) \in Nat \ {0}
         /\ \A n \in 1..(Len(Replies) - 1) : Replies'[n] = Replies[n + 1]
<1>1. inbox \in Seq(Message) /\ computed \in Seq(Message)
  BY DEF PortTypeOK
<1>2. /\ Head(inbox) = inbox[1] /\ 1 \in DOMAIN inbox
      /\ inbox' \in Seq(Message) /\ Len(inbox) \in Nat \ {0}
      /\ Len(inbox') = Len(inbox) - 1 /\ DOMAIN inbox' = 1..(Len(inbox) - 1)
      /\ \A n \in DOMAIN inbox' : n + 1 \in DOMAIN inbox /\ inbox'[n] = inbox[n + 1]
  BY <1>1, TailIs
<1>3. /\ Replies' = inbox' \o computed /\ Replies = inbox \o computed
      /\ Len(Replies') = Len(inbox) - 1 + Len(computed) /\ Len(Replies) = Len(inbox) + Len(computed)
      /\ Len(computed) \in Nat
  <2>1. Replies' = inbox' \o computed /\ Replies = inbox \o computed
    BY DEF Replies
  <2>2. Len(inbox' \o computed) = Len(inbox') + Len(computed)
    BY <1>1, <1>2, ConcatIs
  <2>3. Len(inbox \o computed) = Len(inbox) + Len(computed) /\ Len(computed) \in Nat
    BY <1>1, ConcatIs
  <2>4. QED
    BY <1>2, <2>1, <2>2, <2>3
<1>4. ASSUME NEW n \in 1..(Len(Replies) - 1) PROVE Replies'[n] = Replies[n + 1]
  <2>1. CASE n \in 1..(Len(inbox) - 1)
    <3>1. Replies'[n] = inbox'[n]
      BY <1>1, <1>2, <1>3, <2>1, ConcatIs
    <3>2. n + 1 \in 1..Len(inbox)
      BY <1>2, <2>1
    <3>3. Replies[n + 1] = inbox[n + 1]
      BY <1>1, <1>3, <3>2, ConcatIs
    <3>4. QED
      BY <1>2, <2>1, <3>1, <3>3
  <2>2. CASE n \notin 1..(Len(inbox) - 1)
    <3> DEFINE m == n - (Len(inbox) - 1)
    <3>1. m \in 1..Len(computed) /\ n = Len(inbox') + m /\ n + 1 = Len(inbox) + m
      BY <1>2, <1>3, <2>2
    <3> HIDE DEF m
    <3>2. (inbox' \o computed)[Len(inbox') + m] = computed[m]
      BY <1>1, <1>2, <3>1, ConcatIs
    <3>3. (inbox \o computed)[Len(inbox) + m] = computed[m]
      BY <1>1, <3>1, ConcatIs
    <3>4. QED
      BY <1>3, <3>1, <3>2, <3>3
  <2>3. QED
    BY <2>1, <2>2
<1>5. 1 \in DOMAIN Replies /\ Replies[1] = inbox[1]
  BY <1>2, WorkIs
<1>6. QED
  BY <1>2, <1>3, <1>4, <1>5

LEMMA IgnoreStep ==
  ASSUME PortInv, P!Ignore
  PROVE  PortInv'
<1>1. /\ inbox # <<>> /\ Head(inbox).port # port /\ inbox' = Tail(inbox)
      /\ UNCHANGED <<version, queue, answers, port, configured, pending, opened, up, input, parsed, computed, held>>
  BY DEF P!Ignore, P!FromPort, P!pipelineVars, P!serverVars, P!processVars
<1>2. PortTypeOK /\ OnePort /\ QueueInOrder /\ P!AnswersOwnRun /\ PendingSent
  BY DEF PortInv, PortKnown
<1>3. /\ Head(inbox) = inbox[1] /\ 1 \in DOMAIN inbox /\ inbox' \in Seq(Message) /\ Len(inbox) \in Nat \ {0}
      /\ Len(inbox') = Len(inbox) - 1 /\ DOMAIN inbox' = 1..(Len(inbox) - 1)
      /\ \A n \in DOMAIN inbox' : n + 1 \in DOMAIN inbox /\ inbox'[n] = inbox[n + 1]
      /\ Len(Replies') = Len(Replies) - 1 /\ Len(Replies) \in Nat \ {0}
      /\ \A n \in 1..(Len(Replies) - 1) : Replies'[n] = Replies[n + 1]
  BY <1>1, <1>2, MessageTaken
<1>4. PortTypeOK'
  BY <1>1, <1>2, <1>3 DEF PortTypeOK
<1>5. OnePort'
  BY <1>1, <1>2, <1>3 DEF OnePort
<1>6. QueueInOrder' /\ P!AnswersOwnRun' /\ PendingSent'
  BY <1>1, <1>2 DEF QueueInOrder, Sent, P!AnswersOwnRun, PendingSent
<1>7. PICK old \in Nat : RepliesMatch(old) /\ \E slot : WorkKnown(old, slot)
  BY DEF PortInv
<1>8. PICK slot : WorkKnown(old, slot)
  BY <1>7
<1>9. old # 0 /\ old - 1 \in Nat /\ old <= Len(inbox)
  <2>1. Len(inbox) \in Nat /\ DOMAIN inbox = 1..Len(inbox)
    BY <1>2, WorkIs
  <2>2. 1 \notin (old + 1)..Len(inbox)
    BY <1>1, <1>3, <1>7 DEF RepliesMatch
  <2>3. old <= Len(inbox)
    BY <1>7 DEF RepliesMatch
  <2>4. QED
    BY <1>3, <2>1, <2>2, <2>3
<1>10. Work' = Work
  BY <1>1 DEF Work
<1>11. RepliesMatch(old - 1)'
  <2>1. old - 1 \in 0..Len(inbox')
    BY <1>3, <1>9
  <2>2. \A n \in 1..(old - 1) : inbox'[n].port # port
    <3>1. ASSUME NEW n \in 1..(old - 1) PROVE inbox'[n].port # port
      <4>1. n + 1 \in 1..old /\ inbox'[n] = inbox[n + 1]
        BY <1>3, <1>9
      <4>2. QED
        BY <1>7, <4>1 DEF RepliesMatch
    <3>2. QED
      BY <3>1
  <2>3. \A n \in old..(Len(inbox) - 1) : inbox'[n].port = port /\ (inbox'[n].kind = "exit" => up = 0)
    <3>1. ASSUME NEW n \in old..(Len(inbox) - 1)
          PROVE inbox'[n].port = port /\ (inbox'[n].kind = "exit" => up = 0)
      <4>1. n + 1 \in (old + 1)..Len(inbox) /\ inbox'[n] = inbox[n + 1]
        BY <1>3, <1>9
      <4>2. QED
        BY <1>7, <4>1 DEF RepliesMatch
    <3>2. QED
      BY <3>1
  <2>4. \A n \in old..(Len(Replies) - 1) :
          Replies'[n].kind # "exit" => n - (old - 1) <= Len(pending) /\ Match(Replies[n], pending[n - (old - 1)])'
    <3>1. ASSUME NEW n \in old..(Len(Replies) - 1), Replies'[n].kind # "exit"
          PROVE n - (old - 1) <= Len(pending) /\ Match(Replies[n], pending[n - (old - 1)])'
      <4>1. n + 1 \in (old + 1)..Len(Replies) /\ Replies'[n] = Replies[n + 1] /\ n - (old - 1) = (n + 1) - old
        BY <1>3, <1>9
      <4>2. n + 1 - old <= Len(pending) /\ Match(Replies[n + 1], pending[n + 1 - old])
        BY <1>7, <3>1, <4>1 DEF RepliesMatch
      <4>3. QED
        BY <1>1, <4>1, <4>2 DEF Match, Sent
    <3>2. QED
      BY <3>1
  <2>5. (old - 1) + 1 = old
    BY <1>9
  <2>6. QED
    BY <1>1, <1>3, <2>1, <2>2, <2>3, <2>4, <2>5 DEF RepliesMatch
<1>12. ASSUME up # 0
       PROVE  WorkMatches(old - 1, slot)' /\ WorkInOrder' /\ RunsConfigured' /\ ServerKnows(old - 1)'
  <2>1. WorkMatches(old, slot) /\ WorkInOrder /\ RunsConfigured /\ ServerKnows(old)
    BY <1>8, <1>12 DEF WorkKnown
  <2>2. Len(Replies') - (old - 1) = Len(Replies) - old
    BY <1>3, <1>9
  <2>3. WorkMatches(old - 1, slot)'
    BY <1>1, <1>10, <2>1, <2>2 DEF WorkMatches, Same
  <2>4. WorkInOrder' /\ RunsConfigured'
    BY <1>1, <1>10, <2>1 DEF WorkInOrder, Sent, RunsConfigured, LastIs, OnlyRuns
  <2>5. ASSUME NEW s \in Segments, RefusalComes(s, old) PROVE RefusalComes(s, old - 1)'
    <3>1. PICK n \in (old + 1)..Len(Replies) :
            /\ n - old \in DOMAIN pending
            /\ pending[n - old].kind = "configure" /\ pending[n - old].segment = s /\ Replies[n].kind = "refused"
      BY <2>5 DEF RefusalComes
    <3>2. n - 1 \in ((old - 1) + 1)..Len(Replies') /\ (n - 1) - (old - 1) = n - old
          /\ Replies'[n - 1] = Replies[n]
      <4>1. n - 1 \in 1..(Len(Replies) - 1) /\ (n - 1) + 1 = n
        BY <1>3, <1>9
      <4>2. Replies'[n - 1] = Replies[n]
        BY <1>3, <4>1
      <4>3. n - 1 \in ((old - 1) + 1)..Len(Replies') /\ (n - 1) - (old - 1) = n - old
        BY <1>3, <1>9
      <4>4. QED
        BY <4>2, <4>3
    <3>3. QED
      BY <1>1, <3>1, <3>2 DEF RefusalComes
  <2>6. ServerKnows(old - 1)'
    BY <1>1, <1>10, <2>1, <2>5 DEF ServerKnows, LastIs, OnlyRuns
  <2>7. QED
    BY <2>3, <2>4, <2>6
<1>13. (\E any : WorkKnown(old - 1, any))'
  BY <1>1, <1>12 DEF WorkKnown
<1>14. QED
  BY <1>4, <1>5, <1>6, <1>9, <1>11, <1>13 DEF PortInv, PortKnown

LEMMA RunsConfiguredIf ==
  ASSUME \A j \in DOMAIN Work' : \A x, v :
           Work'[j].kind = "run" /\ Work'[j].segment = x /\ Work'[j].version = v =>
             LastIs(x, j, v)' \/ (OnlyRuns(x, 1, j)' /\ held'[x].version \in {0, v})
  PROVE  RunsConfigured'
  BY DEF RunsConfigured, LastIs, OnlyRuns

\* What is asked later does not change what is asked before.
LEMMA PrefixIs ==
  ASSUME PortTypeOK, PortTypeOK', Len(Work') >= Len(Work), \A k \in DOMAIN Work : Work'[k] = Work[k]
  PROVE  \A s, v : \A j \in Nat : j <= Len(Work) + 1 =>
           /\ \A i \in Nat : OnlyRuns(s, i, j) => OnlyRuns(s, i, j)'
           /\ LastIs(s, j, v) => LastIs(s, j, v)'
<1>1. /\ Len(Work) \in Nat /\ DOMAIN Work = 1..Len(Work)
      /\ Len(Work') \in Nat /\ DOMAIN Work' = 1..Len(Work')
  <2>1. Work \in Seq(PortRequest)
    BY WorkIs
  <2>2. Work' \in Seq(PortRequest)
    BY ConcatIs DEF PortTypeOK, Work
  <2>3. QED
    BY <2>1, <2>2
<1>2. ASSUME NEW s, NEW i \in Nat, NEW j \in Nat, j <= Len(Work) + 1, OnlyRuns(s, i, j)
      PROVE  OnlyRuns(s, i, j)'
  <2>1. \A k \in DOMAIN Work' : k < j => k \in DOMAIN Work
    BY <1>1, <1>2
  <2>2. QED
    BY <1>2, <2>1 DEF OnlyRuns
<1>3. ASSUME NEW s, NEW v, NEW j \in Nat, j <= Len(Work) + 1, LastIs(s, j, v)
      PROVE  LastIs(s, j, v)'
  <2>1. PICK i \in DOMAIN Work :
          /\ i < j /\ Work[i].kind = "configure" /\ Work[i].segment = s /\ Work[i].version = v
          /\ OnlyRuns(s, i + 1, j)
    BY <1>3 DEF LastIs
  <2>2. i + 1 \in Nat /\ i \in DOMAIN Work'
    BY <1>1
  <2>3. OnlyRuns(s, i + 1, j)'
    BY <1>2, <1>3, <2>1, <2>2
  <2>4. QED
    BY <2>1, <2>2, <2>3 DEF LastIs
<1>4. QED
  BY <1>2, <1>3

\* Nor does it configure another segment.
LEMMA OthersKept ==
  ASSUME PortTypeOK, PortTypeOK', Len(Work') >= Len(Work), \A k \in DOMAIN Work : Work'[k] = Work[k],
         NEW s, \A k \in DOMAIN Work' : k \notin DOMAIN Work => Work'[k].segment # s \/ Work'[k].kind = "run"
  PROVE  \A v :
           /\ OnlyRuns(s, 1, Len(Work) + 1) => OnlyRuns(s, 1, Len(Work) + 1)'
           /\ LastIs(s, Len(Work) + 1, v) => LastIs(s, Len(Work) + 1, v)'
<1>1. /\ Len(Work) \in Nat /\ DOMAIN Work = 1..Len(Work)
      /\ Len(Work') \in Nat /\ DOMAIN Work' = 1..Len(Work')
  <2>1. Work \in Seq(PortRequest)
    BY WorkIs
  <2>2. Work' \in Seq(PortRequest)
    BY ConcatIs DEF PortTypeOK, Work
  <2>3. QED
    BY <2>1, <2>2
<1> DEFINE M == Len(Work) + 1
           N == Len(Work') + 1
<1>2. ASSUME NEW i \in Nat, OnlyRuns(s, i, Len(Work) + 1)
      PROVE  OnlyRuns(s, i, Len(Work) + 1)'
  <2>1. \A k \in DOMAIN Work : i <= k /\ Work[k].segment = s => Work[k].kind = "run"
    BY <1>1, <1>2 DEF OnlyRuns
  <2>2. \A k \in DOMAIN Work' : i <= k /\ Work'[k].segment = s => Work'[k].kind = "run"
    BY <2>1
  <2>3. QED
    BY <2>2 DEF OnlyRuns
<1>3. ASSUME NEW v, LastIs(s, Len(Work) + 1, v)
      PROVE  LastIs(s, Len(Work) + 1, v)'
  <2>1. PICK i \in DOMAIN Work :
          /\ Work[i].kind = "configure" /\ Work[i].segment = s /\ Work[i].version = v
          /\ OnlyRuns(s, i + 1, Len(Work) + 1)
    BY <1>3 DEF LastIs
  <2>2. i + 1 \in Nat /\ i \in DOMAIN Work' /\ i < Len(Work') + 1
    BY <1>1
  <2>3. OnlyRuns(s, i + 1, Len(Work) + 1)'
    BY <1>2, <2>1, <2>2
  <2>4. QED
    BY <2>1, <2>2, <2>3 DEF LastIs
<1>4. QED
  BY <1>1, <1>2, <1>3

LEMMA OwnerDownStep ==
  ASSUME PortInv, NEW s \in Segments, P!OwnerDown(s)
  PROVE  PortInv'
<1> DEFINE release == [kind |-> "release", segment |-> s, version |-> 0, run |-> 0]
<1>1. /\ configured' = [configured EXCEPT ![s] = 0]
      /\ input' = IF configured[s] # 0 /\ up = port THEN Append(input, release) ELSE input
      /\ UNCHANGED <<version, queue, answers, port, pending, opened, inbox, up, parsed, computed, held>>
  BY DEF P!OwnerDown, P!pipelineVars
<1>2. PortTypeOK /\ OnePort /\ QueueInOrder /\ P!AnswersOwnRun /\ PendingSent
  BY DEF PortInv, PortKnown
<1>3. PICK old \in Nat : RepliesMatch(old) /\ \E slot : WorkKnown(old, slot)
  BY DEF PortInv
<1>4. PICK slot : WorkKnown(old, slot)
  BY <1>3
<1>5. release \in PortRequest /\ release.kind = "release" /\ release.segment = s
  BY DEF PortRequest
<1> HIDE DEF release
<1>6. input \in Seq(PortRequest) /\ parsed \in Seq(PortRequest) /\ input' \in Seq(PortRequest)
  BY <1>1, <1>2, <1>5, AppendIs DEF PortTypeOK
<1>7. configured' \in [Segments -> Nat] /\ configured'[s] = 0
      /\ \A x \in Segments : configured'[x] # 0 => x # s /\ configured'[x] = configured[x]
  BY <1>1, <1>2 DEF PortTypeOK
<1>8. PortTypeOK'
  BY <1>1, <1>2, <1>6, <1>7 DEF PortTypeOK
<1>9. OnePort'
  <2>1. up = 0 /\ configured[s] # 0 => up # port
    BY <1>2 DEF OnePort
  <2>2. up = 0 => input' = input
    BY <1>1, <2>1
  <2>3. port = 0 => configured' = configured
    BY <1>1, <1>2 DEF OnePort
  <2>4. QED
    BY <1>1, <1>2, <2>2, <2>3 DEF OnePort
<1>10. QueueInOrder' /\ P!AnswersOwnRun' /\ PendingSent'
  BY <1>1, <1>2 DEF QueueInOrder, Sent, P!AnswersOwnRun, PendingSent
<1>11. RepliesMatch(old)'
  BY <1>1, <1>3 DEF RepliesMatch, Replies, Match, Sent
<1>12. CASE input' = input
  <2>1. Work' = Work /\ Replies' = Replies
    BY <1>1, <1>12 DEF Work, Replies
  <2>2. WorkKnown(old, slot)'
    <3>1. ASSUME up # 0
          PROVE  WorkMatches(old, slot)' /\ WorkInOrder' /\ RunsConfigured' /\ ServerKnows(old)'
      <4>1. WorkMatches(old, slot) /\ WorkInOrder /\ RunsConfigured /\ ServerKnows(old)
        BY <1>4, <3>1 DEF WorkKnown
      <4>2. WorkMatches(old, slot)' /\ WorkInOrder' /\ RunsConfigured'
        BY <1>1, <2>1, <4>1 DEF WorkMatches, Same, WorkInOrder, Sent, RunsConfigured, LastIs, OnlyRuns
      <4>3. ServerKnows(old)'
        BY <1>1, <1>7, <2>1, <4>1 DEF ServerKnows, LastIs, OnlyRuns, RefusalComes
      <4>4. QED
        BY <4>2, <4>3
    <3>2. QED
      BY <1>1, <3>1 DEF WorkKnown
  <2>3. QED
    BY <1>3, <1>8, <1>9, <1>10, <1>11, <2>2 DEF PortInv, PortKnown
<1>13. CASE input' = Append(input, release)
  <2> DEFINE W == Len(Work)
  <2>0. PICK longer : longer = [j \in 0..(W + 1) |-> IF j <= W THEN slot[j] ELSE slot[W]]
    OBVIOUS
  <2>1. Work' = Append(Work, release) /\ Replies' = Replies
    BY <1>1, <1>5, <1>6, <1>13, AppendLast DEF Work, Replies
  <2>2. /\ Work \in Seq(PortRequest) /\ W \in Nat /\ DOMAIN Work = 1..W /\ Len(pending) \in Nat
        /\ Len(Work') = W + 1 /\ DOMAIN Work' = 1..(W + 1)
        /\ \A k \in DOMAIN Work : Work'[k] = Work[k]
        /\ Work'[W + 1] = release
    BY <1>2, <1>5, <2>1, WorkIs, AppendIs
  <2>3. WorkKnown(old, longer)'
    <3>1. ASSUME up # 0
          PROVE  WorkMatches(old, longer)' /\ WorkInOrder' /\ RunsConfigured' /\ ServerKnows(old)'
      <4>1. WorkMatches(old, slot) /\ WorkInOrder /\ RunsConfigured /\ ServerKnows(old)
        BY <1>4, <3>1 DEF WorkKnown
      <4>2. WorkMatches(old, longer)'
        <5>1. /\ slot \in [0..W -> 0..Len(pending)]
              /\ slot[0] = Len(Replies) - old /\ slot[W] = Len(pending)
              /\ \A i, j \in 0..W : i <= j => slot[i] <= slot[j]
              /\ \A j \in 1..W :
                   /\ slot[j] = slot[j - 1] + (IF Work[j].kind = "release" THEN 0 ELSE 1)
                   /\ Work[j].kind # "release" => Same(Work[j], pending[slot[j]])
                   /\ Work[j].kind # "failed"
          BY <4>1 DEF WorkMatches
        <5>2. /\ \A j \in 0..W : longer[j] = slot[j]
              /\ longer[W + 1] = slot[W] /\ W + 1 \in 0..(W + 1)
          BY <2>0, <2>2
        <5>3. longer \in [0..(W + 1) -> 0..Len(pending)]
          BY <2>0, <2>2, <5>1
        <5>4. ASSUME NEW i \in 0..(W + 1), NEW j \in 0..(W + 1), i <= j PROVE longer[i] <= longer[j]
          <6>1. W \in 0..W /\ slot[W] \in Int
            BY <2>2, <5>1
          <6>2. CASE j \in 0..W
            <7>1. i \in 0..W
              BY <2>2, <5>4, <6>2
            <7>2. QED
              BY <5>1, <5>2, <5>4, <6>2, <7>1
          <6>3. CASE i \in 0..W /\ j = W + 1
            <7>1. i <= W
              BY <6>3
            <7>2. QED
              BY <5>1, <5>2, <6>1, <6>3, <7>1
          <6>4. CASE i = W + 1 /\ j = W + 1
            BY <5>2, <6>1, <6>4
          <6>5. QED
            BY <2>2, <5>4, <6>2, <6>3, <6>4
        <5>5. ASSUME NEW j \in 1..(W + 1)
              PROVE  /\ longer[j] = longer[j - 1] + (IF Work'[j].kind = "release" THEN 0 ELSE 1)
                     /\ Work'[j].kind # "release" => Same(Work'[j], pending[longer[j]])
                     /\ Work'[j].kind # "failed"
          <6>1. CASE j \in 1..W
            <7>1. j \in 0..W /\ j - 1 \in 0..W /\ j \in DOMAIN Work
              BY <2>2, <6>1
            <7>2. Work'[j] = Work[j] /\ longer[j] = slot[j] /\ longer[j - 1] = slot[j - 1]
              BY <2>2, <5>2, <7>1
            <7>3. QED
              BY <5>1, <6>1, <7>2
          <6>2. CASE j = W + 1
            <7>1. j - 1 = W /\ W \in 0..W /\ slot[W] \in Int
              BY <2>2, <5>1, <6>2
            <7>2. Work'[j].kind = "release" /\ longer[j] = slot[W] /\ longer[j - 1] = slot[W]
              BY <1>5, <2>2, <5>2, <6>2, <7>1
            <7>3. QED
              BY <7>1, <7>2
          <6>3. QED
            BY <2>2, <6>1, <6>2
        <5>6. 0 \in 0..W /\ longer[0] = Len(Replies) - old /\ longer[W + 1] = Len(pending)
          BY <2>2, <5>1, <5>2
        <5>7. QED
          BY <1>1, <2>1, <2>2, <5>3, <5>4, <5>5, <5>6 DEF WorkMatches, Same
      <4>3. WorkInOrder'
        <5>1. \A j \in DOMAIN Work' : Work'[j].kind = "run" => j \in DOMAIN Work /\ Work'[j] = Work[j]
          <6>1. \A j \in DOMAIN Work' : j \in DOMAIN Work \/ j = W + 1
            BY <2>2
          <6>2. Work'[W + 1].kind # "run"
            BY <1>5, <2>2
          <6>3. QED
            BY <2>2, <6>1, <6>2
        <5>2. QED
          BY <1>1, <4>1, <5>1 DEF WorkInOrder, Sent
      <4>4. RunsConfigured'
        <5>1. ASSUME NEW j \in DOMAIN Work', NEW x, NEW v,
                     Work'[j].kind = "run", Work'[j].segment = x, Work'[j].version = v
              PROVE  LastIs(x, j, v)' \/ (OnlyRuns(x, 1, j)' /\ held'[x].version \in {0, v})
          <6>1. j # W + 1
            BY <1>5, <2>2, <5>1
          <6>2. j \in DOMAIN Work /\ j <= W + 1 /\ j \in Nat /\ Work'[j] = Work[j]
            BY <2>2, <6>1
          <6>3. LastIs(x, j, v) \/ (OnlyRuns(x, 1, j) /\ held[x].version \in {0, v})
            BY <4>1, <5>1, <6>2 DEF RunsConfigured
          <6>4. Len(Work') >= Len(Work)
            BY <2>2
          <6>5. QED
            BY <1>1, <1>2, <1>8, <2>2, <6>2, <6>3, <6>4, PrefixIs
        <5>2. QED
          BY <5>1, RunsConfiguredIf
      <4>5. ServerKnows(old)'
        <5>1. ASSUME NEW x \in Segments, configured'[x] # 0
              PROVE  \/ LastIs(x, Len(Work) + 1, configured[x])'
                     \/ /\ OnlyRuns(x, 1, Len(Work) + 1)'
                        /\ held'[x].version = configured'[x] \/ (held'[x].version = 0 /\ RefusalComes(x, old)')
          <6>1. x # s /\ configured'[x] = configured[x] /\ configured[x] # 0
            BY <1>7, <5>1
          <6>2. \A k \in DOMAIN Work' : k \notin DOMAIN Work => Work'[k].segment # x
            <7>1. \A k \in DOMAIN Work' : k \notin DOMAIN Work => k = W + 1
              BY <2>2
            <7>2. QED
              BY <1>5, <2>2, <6>1, <7>1
          <6>3. Len(Work') >= Len(Work)
            BY <2>2
          <6> DEFINE v == configured[x]
          <6>4. /\ OnlyRuns(x, 1, Len(Work) + 1) => OnlyRuns(x, 1, Len(Work) + 1)'
                /\ LastIs(x, Len(Work) + 1, v) => LastIs(x, Len(Work) + 1, v)'
            BY <1>2, <1>8, <2>2, <6>1, <6>2, <6>3, OthersKept
          <6>5. RefusalComes(x, old) => RefusalComes(x, old)'
            BY <1>1, <2>1 DEF RefusalComes
          <6>6. \/ LastIs(x, Len(Work) + 1, v)
                \/ /\ OnlyRuns(x, 1, Len(Work) + 1)
                   /\ held[x].version = v \/ (held[x].version = 0 /\ RefusalComes(x, old))
            BY <4>1, <6>1 DEF ServerKnows
          <6>7. QED
            BY <1>1, <6>1, <6>4, <6>5, <6>6
        <5>2. QED
          BY <5>1 DEF ServerKnows
      <4>6. QED
        BY <4>2, <4>3, <4>4, <4>5
    <3>2. QED
      BY <1>1, <3>1 DEF WorkKnown
  <2>4. QED
    BY <1>3, <1>8, <1>9, <1>10, <1>11, <2>3 DEF PortInv, PortKnown
<1>14. QED
  BY <1>1, <1>12, <1>13

QueuedRun == [run : Nat, version : Nat \ {0}]

\* The requests for a run: it comes last, after its configuration or none.
AskFor(q, s, run) ==
  /\ q \in Seq(PortRequest) /\ Len(q) \in {1, 2} /\ DOMAIN q = 1..Len(q)
  /\ q[Len(q)].kind = "run" /\ q[Len(q)].run = run.run
  /\ \A i \in 1..Len(q) : q[i].segment = s /\ q[i].version = run.version
  /\ Len(q) = 2 => q[1].kind = "configure"

LEMMA RequestsAre ==
  ASSUME NEW s \in Segments, NEW run \in QueuedRun
  PROVE  /\ AskFor(<<P!RunOn(s, run)>>, s, run) /\ Len(<<P!RunOn(s, run)>>) = 1
         /\ AskFor(<<P!Configure(s, run), P!RunOn(s, run)>>, s, run)
         /\ Len(<<P!Configure(s, run), P!RunOn(s, run)>>) = 2
<1> DEFINE r == P!RunOn(s, run)
           c == P!Configure(s, run)
<1>1. /\ r \in PortRequest /\ r.kind = "run" /\ r.run = run.run /\ r.segment = s /\ r.version = run.version
      /\ c \in PortRequest /\ c.kind = "configure" /\ c.segment = s /\ c.version = run.version
  BY DEF QueuedRun, PortRequest, P!RunOn, P!Configure
<1> HIDE DEF r, c
<1>2. AskFor(<<r>>, s, run) /\ Len(<<r>>) = 1
  BY <1>1 DEF AskFor
<1>3. AskFor(<<c, r>>, s, run) /\ Len(<<c, r>>) = 2
  BY <1>1 DEF AskFor
<1>4. QED
  BY <1>2, <1>3 DEF r, c

\* The requests for the run join those under way.
LEMMA RunAsked ==
  ASSUME PortInv, up # 0, NEW s \in Segments, queue[s] # <<>>, NEW q,
         AskFor(q, s, Head(queue[s])),
         Len(q) = 1 => configured[s] = Head(queue[s]).version,
         queue' = [queue EXCEPT ![s] = Tail(@)],
         Work' = Work \o q, pending' = pending \o q, input' \in Seq(PortRequest),
         configured' = [configured EXCEPT ![s] = Head(queue[s]).version],
         UNCHANGED <<version, answers, port, opened, inbox, up, parsed, computed, held>>
  PROVE  PortInv'
<1>1. PortTypeOK /\ OnePort /\ QueueInOrder /\ P!AnswersOwnRun /\ PendingSent
  BY DEF PortInv, PortKnown
<1>2. PICK old \in Nat : RepliesMatch(old) /\ \E slot : WorkKnown(old, slot)
  BY DEF PortInv
<1>3. PICK slot : WorkKnown(old, slot)
  BY <1>2
<1>4. AnswersKept
  BY DEF AnswersKept
<1> DEFINE run == queue[s][1]
           W == Len(Work)
           M == Len(pending)
           k == Len(q)
<1>5. /\ QueueInOrder' /\ queue' \in [Segments -> Seq([run : Nat, version : Nat \ {0}])]
      /\ Head(queue[s]) = run /\ 1 \in DOMAIN queue[s]
      /\ run \in [run : Nat, version : Nat \ {0}]
      /\ Sent(s, run.run, run.version)
      /\ \A n \in DOMAIN queue'[s] : run.run < queue'[s][n].run
      /\ \A x \in Segments : \A n \in DOMAIN queue'[x] :
           \E p \in DOMAIN queue[x] : queue'[x][n] = queue[x][p]
  BY <1>1, <1>4, QueueTaken
<1>6. /\ q \in Seq(PortRequest) /\ k \in {1, 2} /\ DOMAIN q = 1..k
      /\ q[k].kind = "run" /\ q[k].run = run.run
      /\ \A i \in 1..k : q[i].segment = s /\ q[i].version = run.version
      /\ k = 2 => q[1].kind = "configure"
  BY <1>5 DEF AskFor
<1>7. \A i \in 1..k : (q[i].kind = "run" /\ i = k) \/ (q[i].kind = "configure" /\ i = 1 /\ k = 2)
  <2>1. CASE k = 1
    BY <1>6, <2>1
  <2>2. CASE k = 2
    <3>1. \A i \in 1..k : i = 1 \/ i = 2
      BY <2>2
    <3>2. QED
      BY <1>6, <2>2, <3>1
  <2>3. QED
    BY <1>6, <2>1, <2>2
<1>8. /\ W \in Nat /\ DOMAIN Work = 1..W /\ M \in Nat /\ DOMAIN pending = 1..M
      /\ Len(Work') = W + k /\ DOMAIN Work' = 1..(W + k)
      /\ \A j \in 1..W : Work'[j] = Work[j]
      /\ \A i \in 1..k : Work'[W + i] = q[i]
      /\ Len(pending') = M + k /\ DOMAIN pending' = 1..(M + k)
      /\ \A j \in 1..M : pending'[j] = pending[j]
      /\ \A i \in 1..k : pending'[M + i] = q[i]
      /\ pending' \in Seq(PortRequest)
  <2>1. Work \in Seq(PortRequest) /\ W \in Nat /\ DOMAIN Work = 1..W /\ M \in Nat /\ DOMAIN pending = 1..M
    BY <1>1, WorkIs
  <2>2. pending \in Seq(PortRequest)
    BY <1>1 DEF PortTypeOK
  <2>3. QED
    BY <1>6, <2>1, <2>2, ConcatIs
<1>9. Replies' = Replies
  BY DEF Replies
<1>10. port # 0 /\ up = port
  BY <1>1 DEF OnePort
<1>11. /\ configured' \in [Segments -> Nat] /\ configured'[s] = run.version /\ run.version \in Nat \ {0}
       /\ \A x \in Segments : x # s => configured'[x] = configured[x]
  BY <1>1, <1>5 DEF PortTypeOK
<1>12. PortTypeOK'
  BY <1>1, <1>5, <1>8, <1>11 DEF PortTypeOK
<1>13. OnePort'
  BY <1>1, <1>10 DEF OnePort
<1>14. PendingSent'
  <2>1. ASSUME NEW i \in 1..(M + k)
        PROVE  /\ pending'[i].kind \in {"run", "failed"} =>
                    Sent(pending[i].segment, pending[i].run, pending[i].version)'
               /\ pending'[i].kind = "configure" => i + 1 \in 1..(M + k) /\ pending'[i + 1].kind = "run"
               /\ pending'[i].kind # "release"
    <3>1. CASE i \in 1..M
      <4>1. pending'[i] = pending[i] /\ i \in DOMAIN pending
        BY <1>8, <3>1
      <4>2. pending[i].kind = "configure" => i + 1 \in 1..M /\ pending'[i + 1] = pending[i + 1]
        BY <1>1, <1>8, <4>1 DEF PendingSent
      <4>3. QED
        BY <1>1, <1>6, <1>8, <4>1, <4>2 DEF PendingSent, Sent
    <3>2. CASE i \notin 1..M
      <4>1. PICK n \in 1..k : i = M + n
        <5>1. i - M \in 1..k /\ i = M + (i - M)
          BY <1>6, <1>8, <3>2
        <5>2. QED
          BY <5>1
      <4>2. pending'[i] = q[n]
        BY <1>8, <4>1
      <4>3. CASE q[n].kind = "run" /\ n = k
        BY <1>5, <1>6, <4>2, <4>3 DEF Sent
      <4>4. CASE q[n].kind = "configure" /\ n = 1 /\ k = 2
        <5>1. i + 1 = M + 2 /\ 2 \in 1..k
          BY <1>8, <4>1, <4>4
        <5>2. pending'[i + 1] = q[2]
          BY <1>8, <5>1
        <5>3. QED
          BY <1>6, <1>8, <4>2, <4>4, <5>1, <5>2
      <4>5. QED
        BY <1>7, <4>3, <4>4
    <3>3. QED
      BY <3>1, <3>2
  <2>2. QED
    BY <1>8, <2>1 DEF PendingSent
<1>15. P!AnswersOwnRun'
  BY <1>1 DEF P!AnswersOwnRun
<1>16. RepliesMatch(old)'
  <2>1. ASSUME NEW n \in (old + 1)..Len(Replies), Replies[n].kind # "exit"
        PROVE  n - old <= Len(pending') /\ Match(Replies[n], pending[n - old])'
    <3>1. n - old <= M /\ Match(Replies[n], pending[n - old]) /\ n - old \in 1..M
      BY <1>1, <1>2, <1>8, <2>1, WorkIs DEF RepliesMatch
    <3>2. pending'[n - old] = pending[n - old] /\ n - old <= M + k
      BY <1>6, <1>8, <3>1
    <3>3. QED
      BY <1>8, <1>9, <3>1, <3>2 DEF Match, Sent
  <2>2. QED
    BY <1>2, <1>9, <2>1 DEF RepliesMatch
<1>17. WorkMatches(old, slot) /\ WorkInOrder /\ RunsConfigured /\ ServerKnows(old)
  BY <1>3 DEF WorkKnown
<1>18. PICK longer : longer = [j \in 0..(W + k) |-> IF j <= W THEN slot[j] ELSE M + (j - W)]
  OBVIOUS
<1>19. WorkMatches(old, longer)'
  <2>1. /\ slot \in [0..W -> 0..M]
        /\ slot[0] = Len(Replies) - old /\ slot[W] = M
        /\ \A i, j \in 0..W : i <= j => slot[i] <= slot[j]
        /\ \A j \in 1..W :
             /\ slot[j] = slot[j - 1] + (IF Work[j].kind = "release" THEN 0 ELSE 1)
             /\ Work[j].kind # "release" => Same(Work[j], pending[slot[j]])
             /\ Work[j].kind # "failed"
    BY <1>17 DEF WorkMatches
  <2>2. /\ \A j \in 0..W : longer[j] = slot[j]
        /\ \A i \in 0..k : longer[W + i] = M + i
    <3>1. \A j \in 0..W : longer[j] = slot[j]
      BY <1>6, <1>8, <1>18
    <3>2. \A i \in 1..k : longer[W + i] = M + i
      BY <1>6, <1>8, <1>18
    <3>3. longer[W + 0] = M + 0
      <4>1. W + 0 = W /\ M + 0 = M /\ W \in 0..W
        BY <1>8
      <4>2. QED
        BY <2>1, <3>1, <4>1
    <3>4. QED
      <4>1. \A i \in 0..k : i = 0 \/ i \in 1..k
        BY <1>6
      <4>2. QED
        BY <3>1, <3>2, <3>3, <4>1
  <2>3. \A j \in 0..(W + k) : j \in 0..W \/ (j - W \in 1..k /\ j = W + (j - W) /\ j = (W + 1) + (j - W - 1))
    BY <1>6, <1>8
  <2>4. DOMAIN longer = 0..(W + k) /\ longer = [j \in 0..(W + k) |-> longer[j]]
    BY <1>18
  <2>5. ASSUME NEW j \in 0..(W + k)
        PROVE  /\ longer[j] \in 0..(M + k)
               /\ \A i \in 0..(W + k) : i <= j => longer[i] <= longer[j]
    <3>1. CASE j \in 0..W
      <4>1. longer[j] = slot[j] /\ slot[j] \in 0..M
        BY <2>1, <2>2, <3>1
      <4>2. ASSUME NEW i \in 0..(W + k), i <= j PROVE longer[i] <= longer[j]
        <5>1. i \in 0..W
          BY <1>8, <3>1, <4>2
        <5>2. QED
          BY <2>1, <2>2, <3>1, <4>1, <4>2, <5>1
      <4>3. QED
        BY <1>6, <1>8, <4>1, <4>2
    <3>2. CASE j \notin 0..W
      <4>1. PICK p \in 1..k : j = W + p
        BY <2>3, <3>2
      <4>2. longer[j] = M + p /\ M + p \in 0..(M + k)
        BY <1>6, <1>8, <2>2, <4>1
      <4>3. ASSUME NEW i \in 0..(W + k), i <= j PROVE longer[i] <= longer[j]
        <5>1. CASE i \in 0..W
          <6>1. longer[i] = slot[i] /\ slot[i] \in 0..M
            BY <2>1, <2>2, <5>1
          <6>2. QED
            BY <1>6, <1>8, <4>2, <6>1
        <5>2. CASE i \notin 0..W
          <6>1. PICK q0 \in 1..k : i = W + q0
            BY <2>3, <5>2
          <6>2. longer[i] = M + q0 /\ q0 <= p
            BY <1>6, <1>8, <2>2, <4>1, <4>3, <6>1
          <6>3. QED
            BY <1>6, <1>8, <4>2, <6>2
        <5>3. QED
          BY <5>1, <5>2
      <4>4. QED
        BY <4>2, <4>3
    <3>3. QED
      BY <3>1, <3>2
  <2>6. longer \in [0..(W + k) -> 0..(M + k)]
    BY <2>4, <2>5
  <2>7. ASSUME NEW j \in 1..(W + k)
        PROVE  /\ longer[j] = longer[j - 1] + (IF Work'[j].kind = "release" THEN 0 ELSE 1)
               /\ Work'[j].kind # "release" => Same(Work'[j], pending'[longer[j]])
               /\ Work'[j].kind # "failed"
    <3>1. CASE j \in 1..W
      <4>1. j \in 0..W /\ j - 1 \in 0..W
        BY <1>8, <3>1
      <4>2. Work'[j] = Work[j] /\ longer[j] = slot[j] /\ longer[j - 1] = slot[j - 1]
        BY <1>8, <2>2, <3>1, <4>1
      <4>3. Work[j].kind # "release" => pending'[slot[j]] = pending[slot[j]]
        <5>1. ASSUME Work[j].kind # "release" PROVE slot[j] \in 1..M
          <6>1. slot[j - 1] \in 0..M /\ slot[j] \in 0..M /\ slot[j] = slot[j - 1] + 1
            BY <2>1, <3>1, <4>1, <5>1
          <6>2. QED
            BY <1>8, <6>1
        <5>2. QED
          BY <1>8, <5>1
      <4>4. QED
        BY <2>1, <3>1, <4>2, <4>3
    <3>2. CASE j \notin 1..W
      <4>1. PICK i \in 1..k : j = W + i
        <5>1. j - W \in 1..k /\ j = W + (j - W)
          BY <1>6, <1>8, <3>2
        <5>2. QED
          BY <5>1
      <4>2. i - 1 \in 0..k /\ i \in 0..k /\ j - 1 = W + (i - 1)
        BY <1>6, <1>8, <4>1
      <4>3. longer[j] = M + i /\ longer[j - 1] = M + (i - 1)
        BY <2>2, <4>1, <4>2
      <4>4. Work'[j] = q[i] /\ pending'[longer[j]] = q[i]
        BY <1>8, <4>1, <4>3
      <4>5. q[i].kind # "release" /\ q[i].kind # "failed"
        BY <1>7
      <4>6. longer[j] = longer[j - 1] + 1
        BY <1>6, <1>8, <4>1, <4>3
      <4>7. QED
        BY <4>4, <4>5, <4>6 DEF Same
    <3>3. QED
      BY <3>1, <3>2
  <2>8. 0 \in 0..W /\ longer[0] = Len(Replies) - old /\ k \in 0..k /\ longer[W + k] = M + k
    BY <1>6, <1>8, <2>1, <2>2
  <2>9. QED
    BY <1>8, <1>9, <2>5, <2>6, <2>7, <2>8 DEF WorkMatches, Same
\* What is asked is of s and a run, but for a configuration before a run.
<1>20. /\ \A j \in DOMAIN Work' : j \in DOMAIN Work \/ (Work'[j].segment = s /\ j > W)
       /\ \A j \in DOMAIN Work' : j \notin DOMAIN Work /\ Work'[j].kind = "run" =>
            j = W + k /\ Work'[j].run = run.run /\ Work'[j].version = run.version
       /\ \A j \in DOMAIN Work : Work'[j] = Work[j]
       /\ W + k \in DOMAIN Work' /\ Work'[W + k].kind = "run"
  <2>1. \A j \in DOMAIN Work' : j \notin DOMAIN Work => j - W \in 1..k /\ j = W + (j - W)
    BY <1>6, <1>8
  <2>2. ASSUME NEW j \in DOMAIN Work', j \notin DOMAIN Work
        PROVE  /\ Work'[j].segment = s /\ j > W
               /\ Work'[j].kind = "run" => j = W + k /\ Work'[j].run = run.run /\ Work'[j].version = run.version
    <3>1. PICK i \in 1..k : j = W + i
      BY <2>1, <2>2
    <3>2. Work'[j] = q[i]
      BY <1>8, <3>1
    <3>3. q[i].kind = "run" => i = k
      BY <1>7
    <3>4. Work'[j].segment = s /\ Work'[j].version = run.version
      BY <1>6, <3>1, <3>2
    <3>5. j > W
      BY <1>6, <1>8, <3>1
    <3>6. Work'[j].kind = "run" => i = k
      BY <3>2, <3>3
    <3>7. i = k => j = W + k /\ Work'[j].run = run.run
      BY <1>6, <3>1, <3>2
    <3>8. QED
      BY <3>4, <3>5, <3>6, <3>7
  <2>3. k \in 1..k /\ W + k \in 1..(W + k)
    BY <1>6, <1>8
  <2>4. QED
    BY <1>6, <1>8, <2>2, <2>3
<1>21. WorkInOrder'
  <2>1. ASSUME NEW x \in Segments, NEW m \in held[x].carried
        PROVE  /\ Sent(x, m, held[x].version)'
               /\ \A j \in DOMAIN Work' : Work'[j].kind = "run" /\ Work'[j].segment = x => m < Work'[j].run
               /\ \A n \in DOMAIN queue'[x] : m < queue'[x][n].run
    <3>1. /\ Sent(x, m, held[x].version)
          /\ \A j \in DOMAIN Work : Work[j].kind = "run" /\ Work[j].segment = x => m < Work[j].run
          /\ \A n \in DOMAIN queue[x] : m < queue[x][n].run
      BY <1>17 DEF WorkInOrder
    <3>2. \A n \in DOMAIN queue'[x] : m < queue'[x][n].run
      BY <1>5, <3>1
    <3>3. ASSUME NEW j \in DOMAIN Work', Work'[j].kind = "run", Work'[j].segment = x PROVE m < Work'[j].run
      <4>1. CASE j \in DOMAIN Work
        BY <1>20, <3>1, <3>3, <4>1
      <4>2. CASE j \notin DOMAIN Work
        BY <1>5, <1>20, <3>1, <3>3, <4>2
      <4>3. QED
        BY <4>1, <4>2
    <3>4. QED
      BY <3>1, <3>2, <3>3 DEF Sent
  <2>2. ASSUME NEW j \in DOMAIN Work', Work'[j].kind = "run", NEW x, x = Work'[j].segment
        PROVE  /\ \A i \in DOMAIN Work' :
                    j < i /\ Work'[i].kind = "run" /\ Work'[i].segment = x => Work'[j].run < Work'[i].run
               /\ \A n \in DOMAIN queue'[x] : Work'[j].run < queue'[x][n].run
    <3>1. CASE j \in DOMAIN Work
      <4>1. Work'[j] = Work[j] /\ x \in Segments
        BY <1>1, <1>20, <2>2, <3>1, ElementsAre
      <4>2. /\ \A i \in DOMAIN Work :
                 j < i /\ Work[i].kind = "run" /\ Work[i].segment = x => Work[j].run < Work[i].run
            /\ \A n \in DOMAIN queue[x] : Work[j].run < queue[x][n].run
        BY <1>17, <2>2, <3>1, <4>1 DEF WorkInOrder
      <4>3. \A n \in DOMAIN queue'[x] : Work'[j].run < queue'[x][n].run
        BY <1>5, <4>1, <4>2
      <4>4. ASSUME NEW i \in DOMAIN Work', j < i, Work'[i].kind = "run", Work'[i].segment = x
            PROVE  Work'[j].run < Work'[i].run
        <5>1. CASE i \in DOMAIN Work
          BY <1>20, <4>1, <4>2, <4>4, <5>1
        <5>2. CASE i \notin DOMAIN Work
          <6>1. x = s /\ Work'[i].run = run.run
            BY <1>20, <4>4, <5>2
          <6>2. QED
            BY <1>5, <4>1, <4>2, <6>1
        <5>3. QED
          BY <5>1, <5>2
      <4>5. QED
        BY <4>3, <4>4
    <3>2. CASE j \notin DOMAIN Work
      <4>1. x = s /\ j = W + k /\ Work'[j].run = run.run
        BY <1>20, <2>2, <3>2
      <4>2. \A i \in DOMAIN Work' : ~(j < i)
        BY <1>6, <1>8, <4>1
      <4>3. QED
        BY <1>5, <4>1, <4>2
    <3>3. QED
      BY <3>1, <3>2
  <2>3. QED
    BY <2>1, <2>2 DEF WorkInOrder, Sent
<1>22. Len(Work') >= Len(Work)
  BY <1>6, <1>8
<1>23. configured[s] = run.version => LastIs(s, W + 1, run.version) \/ (OnlyRuns(s, 1, W + 1) /\
          (held[s].version = run.version \/ (held[s].version = 0 /\ RefusalComes(s, old))))
  BY <1>11, <1>17 DEF ServerKnows
<1>24. RunsConfigured'
  <2>1. ASSUME NEW j \in DOMAIN Work', NEW x, NEW v,
               Work'[j].kind = "run", Work'[j].segment = x, Work'[j].version = v
        PROVE  LastIs(x, j, v)' \/ (OnlyRuns(x, 1, j)' /\ held'[x].version \in {0, v})
    <3>1. CASE j \in DOMAIN Work
      <4>1. LastIs(x, j, v) \/ (OnlyRuns(x, 1, j) /\ held[x].version \in {0, v})
        BY <1>17, <1>20, <2>1, <3>1 DEF RunsConfigured
      <4>2. j \in Nat /\ j <= Len(Work) + 1
        BY <1>8, <3>1
      <4>3. QED
        BY <1>1, <1>12, <1>20, <1>22, <4>1, <4>2, PrefixIs
    <3>2. CASE j \notin DOMAIN Work /\ k = 1
      <4>1. x = s /\ v = run.version /\ j = W + 1
        BY <1>20, <2>1, <3>2
      <4>2. LastIs(x, j, v) \/ (OnlyRuns(x, 1, j) /\ held[x].version \in {0, v})
        BY <1>5, <1>23, <3>2, <4>1
      <4>3. j \in Nat /\ j <= Len(Work) + 1
        BY <1>8, <4>1
      <4>4. QED
        BY <1>1, <1>12, <1>20, <1>22, <4>2, <4>3, PrefixIs
    <3>3. CASE j \notin DOMAIN Work /\ k = 2
      <4>1. x = s /\ v = run.version /\ j = W + 2
        BY <1>20, <2>1, <3>3
      <4>2. /\ W + 1 \in DOMAIN Work' /\ W + 1 < j /\ Work'[W + 1] = q[1]
        BY <1>8, <3>3, <4>1
      <4>3. Work'[W + 1].kind = "configure" /\ Work'[W + 1].segment = x /\ Work'[W + 1].version = v
        BY <1>6, <3>3, <4>1, <4>2
      <4>4. \A i \in DOMAIN Work' : ~(W + 1 + 1 <= i /\ i < j)
        BY <1>8, <4>1
      <4>5. LastIs(x, j, v)'
        BY <4>2, <4>3, <4>4 DEF LastIs, OnlyRuns
      <4>6. QED
        BY <4>5
    <3>4. QED
      BY <1>6, <3>1, <3>2, <3>3
  <2>2. QED
    BY <2>1, RunsConfiguredIf
<1>25. \A x : RefusalComes(x, old) => RefusalComes(x, old)'
  <2>1. ASSUME NEW x, RefusalComes(x, old) PROVE RefusalComes(x, old)'
    <3>1. PICK n \in (old + 1)..Len(Replies) :
            /\ n - old \in DOMAIN pending
            /\ pending[n - old].kind = "configure" /\ pending[n - old].segment = x /\ Replies[n].kind = "refused"
      BY <2>1 DEF RefusalComes
    <3>2. n - old \in DOMAIN pending' /\ pending'[n - old] = pending[n - old]
      BY <1>6, <1>8, <3>1
    <3>3. QED
      BY <1>9, <3>1, <3>2 DEF RefusalComes
  <2>2. QED
    BY <2>1
<1>26. ServerKnows(old)'
  <2>1. ASSUME NEW x \in Segments, NEW v, configured'[x] = v, v # 0
        PROVE  \/ LastIs(x, Len(Work) + 1, v)'
               \/ /\ OnlyRuns(x, 1, Len(Work) + 1)'
                  /\ held'[x].version = v \/ (held'[x].version = 0 /\ RefusalComes(x, old)')
    <3>1. CASE x # s \/ k = 1
      <4>1. configured[x] = v
        BY <1>5, <1>11, <2>1, <3>1
      <4>2. \A j \in DOMAIN Work' : j \notin DOMAIN Work => Work'[j].segment # x \/ Work'[j].kind = "run"
        <5>1. CASE x # s
          BY <1>20, <5>1
        <5>2. CASE k = 1
          <6>1. \A j \in DOMAIN Work' : j \notin DOMAIN Work => j = W + k
            BY <1>8, <5>2
          <6>2. QED
            BY <1>20, <6>1
        <5>3. QED
          BY <3>1, <5>1, <5>2
      <4>3. /\ OnlyRuns(x, 1, Len(Work) + 1) => OnlyRuns(x, 1, Len(Work) + 1)'
            /\ LastIs(x, Len(Work) + 1, v) => LastIs(x, Len(Work) + 1, v)'
        BY <1>1, <1>12, <1>20, <1>22, <4>2, OthersKept
      <4>4. \/ LastIs(x, Len(Work) + 1, v)
            \/ /\ OnlyRuns(x, 1, Len(Work) + 1)
               /\ held[x].version = v \/ (held[x].version = 0 /\ RefusalComes(x, old))
        BY <1>17, <2>1, <4>1 DEF ServerKnows
      <4>5. QED
        BY <1>25, <4>3, <4>4
    <3>2. CASE x = s /\ k = 2
      <4>1. v = run.version
        BY <1>11, <2>1, <3>2
      <4>2. W + 1 \in DOMAIN Work' /\ W + 1 < Len(Work') + 1 /\ Work'[W + 1] = q[1]
        BY <1>8, <3>2
      <4>3. Work'[W + 1].kind = "configure" /\ Work'[W + 1].segment = x /\ Work'[W + 1].version = v
        BY <1>6, <3>2, <4>1, <4>2
      <4>4. \A i \in DOMAIN Work' : W + 1 + 1 <= i => i = W + k
        BY <1>8, <3>2
      <4>5. \A i \in DOMAIN Work' : W + 1 + 1 <= i => Work'[i].kind = "run"
        BY <1>20, <4>4
      <4>6. LastIs(x, Len(Work) + 1, v)'
        BY <4>2, <4>3, <4>5 DEF LastIs, OnlyRuns
      <4>7. QED
        BY <4>6
    <3>3. QED
      BY <1>6, <3>1, <3>2
  <2>2. QED
    BY <2>1 DEF ServerKnows
<1>27. (\E any : WorkKnown(old, any))'
  BY <1>19, <1>21, <1>24, <1>26 DEF WorkKnown
<1>28. QED
  BY <1>2, <1>5, <1>12, <1>13, <1>14, <1>15, <1>16, <1>27 DEF PortInv, PortKnown

LEMMA HandleRunStep ==
  ASSUME PortInv, NEW s \in Segments, P!HandleRun(s)
  PROVE  PortInv'
<1> DEFINE run == Head(queue[s])
<1>0. PICK q : q = P!RequestsOf(s, run)
  OBVIOUS
<1>1. /\ queue[s] # <<>> /\ queue' = [queue EXCEPT ![s] = Tail(@)]
      /\ port # 0 /\ up = port /\ input' = input \o q /\ pending' = pending \o q
      /\ configured' = [configured EXCEPT ![s] = run.version]
      /\ UNCHANGED <<version, answers, port, opened, inbox, up, parsed, computed, held>>
  BY <1>0 DEF P!HandleRun, P!Taken
<1>2. PortTypeOK
  BY DEF PortInv, PortKnown
<1>3. run \in QueuedRun
  <2>1. queue[s] \in Seq(QueuedRun)
    BY <1>2 DEF PortTypeOK, QueuedRun
  <2> HIDE DEF run
  <2>2. QED
    BY <1>1, <2>1, TailIs DEF run
<1>4. AskFor(q, s, run) /\ (Len(q) = 1 => configured[s] = run.version)
  <2> HIDE DEF run
  <2>1. CASE configured[s] = run.version
    BY <1>0, <1>3, <2>1, RequestsAre DEF P!RequestsOf
  <2>2. CASE configured[s] # run.version
    <3>1. q = <<P!Configure(s, run), P!RunOn(s, run)>>
      BY <1>0, <2>2 DEF P!RequestsOf
    <3>2. AskFor(q, s, run) /\ Len(q) = 2
      BY <1>3, <3>1, RequestsAre
    <3>3. QED
      BY <3>2
  <2>3. QED
    BY <2>1, <2>2
<1>5. q \in Seq(PortRequest)
  BY <1>4 DEF AskFor
<1>6. input' \in Seq(PortRequest) /\ Work' = Work \o q
  <2>1. input \in Seq(PortRequest) /\ parsed \in Seq(PortRequest)
    BY <1>2 DEF PortTypeOK
  <2>2. QED
    BY <1>1, <1>5, <2>1, ConcatIs, ConcatThree DEF Work
<1>7. up # 0
  BY <1>1
<1>8. QED
  BY <1>1, <1>4, <1>6, <1>7, RunAsked

LEMMA ReopenAndRunStep ==
  ASSUME PortInv, NEW s \in Segments, P!ReopenAndRun(s)
  PROVE  PortInv'
<1>00. PICK run : run = Head(queue[s])
  OBVIOUS
<1>0. PICK q : q = <<P!Configure(s, run), P!RunOn(s, run)>>
  OBVIOUS
<1>1. /\ queue[s] # <<>> /\ queue' = [queue EXCEPT ![s] = Tail(@)]
      /\ up = 0 /\ opened' = opened + 1 /\ port' = opened + 1 /\ up' = opened + 1
      /\ pending' = q /\ input' = q
      /\ configured' = [x \in Segments |-> IF x = s THEN run.version ELSE 0]
      /\ answers' = P!Answered(pending, LAMBDA entry : P!Fail(entry, "exited"))
      /\ UNCHANGED <<version, inbox, parsed, computed, held>>
  BY <1>00, <1>0 DEF P!ReopenAndRun, P!Taken
<1>2. PortTypeOK /\ OnePort /\ QueueInOrder /\ P!AnswersOwnRun
  BY DEF PortInv, PortKnown
<1>3. run \in QueuedRun
  <2>1. queue[s] \in Seq(QueuedRun)
    BY <1>2 DEF PortTypeOK, QueuedRun
  <2>2. QED
    BY <1>00, <1>1, <2>1, TailIs
<1>4. AskFor(q, s, run) /\ Len(q) = 2
  BY <1>0, <1>3, RequestsAre
<1>5. GivenUp(answers')
  BY <1>1, <1>2, FailingGivesUp
<1>6. AnswersKept /\ P!AnswersOwnRun'
  BY <1>2, <1>5, GivenUpKeeps
<1>7. /\ QueueInOrder' /\ queue' \in [Segments -> Seq([run : Nat, version : Nat \ {0}])]
      /\ Sent(s, run.run, run.version)
      /\ \A n \in DOMAIN queue'[s] : run.run < queue'[s][n].run
  BY <1>00, <1>1, <1>2, <1>6, QueueTaken
<1>8. Sent(s, run.run, run.version)'
  BY <1>1, <1>6, <1>7 DEF Sent, AnswersKept
<1>9. /\ q \in Seq(PortRequest) /\ Len(q) = 2 /\ DOMAIN q = {1, 2}
      /\ q[1].kind = "configure" /\ q[1].segment = s /\ q[1].version = run.version
      /\ q[2].kind = "run" /\ q[2].segment = s /\ q[2].version = run.version /\ q[2].run = run.run
  BY <1>4 DEF AskFor
<1>10. /\ opened \in Nat /\ run.version \in Nat \ {0} /\ run.run \in Nat
  BY <1>2, <1>3 DEF PortTypeOK, QueuedRun
<1>11. PortTypeOK'
  <2>1. configured' \in [Segments -> Nat]
    BY <1>1, <1>10
  <2>2. answers' \in [Segments -> Seq(RunAnswer)]
    BY <1>5 DEF GivenUp
  <2>3. port' \in Nat /\ opened' \in Nat /\ up' \in Nat
    BY <1>1, <1>10
  <2>4. /\ version' \in [Segments -> Nat \ {0}] /\ parsed' \in Seq(PortRequest)
        /\ inbox' \in Seq(Message) /\ computed' \in Seq(Message)
        /\ held' \in [Segments -> [version : Nat, carried : SUBSET (Nat \ {0})]]
    BY <1>1, <1>2 DEF PortTypeOK
  <2>5. pending' \in Seq(PortRequest) /\ input' \in Seq(PortRequest)
    BY <1>1, <1>9
  <2>6. QED
    BY <1>7, <2>1, <2>2, <2>3, <2>4, <2>5 DEF PortTypeOK
<1>12. parsed = <<>> /\ computed = <<>> /\ held = [x \in Segments |-> P!NotHeld]
  BY <1>1, <1>2 DEF OnePort
<1>13. OnePort'
  <2>1. \A n \in DOMAIN inbox' : inbox'[n].port # 0 /\ inbox'[n].port <= opened'
    <3>1. \A n \in DOMAIN inbox : inbox[n].port \in Nat
      BY <1>2, ElementsAre DEF Message, OutputsReply
    <3>2. QED
      BY <1>1, <1>2, <1>10, <3>1 DEF OnePort
  <2>2. DOMAIN computed' = {}
    BY <1>1, <1>12
  <2>3. QED
    BY <1>1, <1>10, <2>1, <2>2 DEF OnePort
<1>14. PendingSent'
  <2>1. pending' = q /\ DOMAIN pending' = {1, 2}
    BY <1>1, <1>9
  <2>2. ASSUME NEW i \in {1, 2}
        PROVE  /\ q[i].kind \in {"run", "failed"} => Sent(q[i].segment, q[i].run, q[i].version)'
               /\ q[i].kind = "configure" => i + 1 \in {1, 2} /\ q[i + 1].kind = "run"
               /\ q[i].kind # "release"
    <3>1. CASE i = 1
      BY <1>9, <3>1
    <3>2. CASE i = 2
      BY <1>8, <1>9, <3>2 DEF Sent
    <3>3. QED
      BY <3>1, <3>2
  <2>3. QED
    BY <2>1, <2>2 DEF PendingSent, Sent
<1>15. /\ Work' = q /\ Len(Work') = 2 /\ DOMAIN Work' = {1, 2} /\ DOMAIN Work' = 1..2
       /\ Replies' = inbox' /\ Len(Replies') = Len(inbox) /\ Len(inbox) \in Nat
       /\ DOMAIN inbox = 1..Len(inbox) /\ inbox' = inbox
  <2>1. inbox \in Seq(Message)
    BY <1>2 DEF PortTypeOK
  <2>2. Work' = q
    BY <1>1, <1>9, <1>12 DEF Work
  <2>3. Replies' = inbox'
    BY <1>1, <1>12, <2>1 DEF Replies
  <2>4. QED
    BY <1>1, <1>9, <2>1, <2>2, <2>3
<1>16. PICK old : old = Len(inbox)
  OBVIOUS
<1>17. RepliesMatch(old)'
  <2>1. \A n \in 1..old : inbox'[n].port # port'
    <3>1. ASSUME NEW n \in 1..old PROVE inbox[n].port # opened + 1
      <4>1. n \in DOMAIN inbox /\ inbox[n].port \in Nat
        BY <1>2, <1>15, <1>16, ElementsAre DEF Message, OutputsReply
      <4>2. inbox[n].port <= opened
        BY <1>2, <4>1 DEF OnePort
      <4>3. QED
        BY <1>10, <4>1, <4>2
    <3>2. QED
      BY <1>1, <3>1
  <2>2. \A n : n \notin (old + 1)..Len(inbox)
    BY <1>15, <1>16
  <2>3. old \in 0..Len(inbox)
    BY <1>15, <1>16
  <2>4. QED
    BY <1>15, <2>1, <2>2, <2>3 DEF RepliesMatch
<1>18. PICK slot : slot = [j \in 0..2 |-> j]
  OBVIOUS
<1>19. WorkMatches(old, slot)'
  <2>1. slot \in [0..2 -> 0..2] /\ slot[0] = 0 /\ slot[2] = 2 /\ \A i, j \in 0..2 : i <= j => slot[i] <= slot[j]
    BY <1>18
  <2>2. ASSUME NEW j \in 1..2
        PROVE  /\ slot[j] = slot[j - 1] + (IF q[j].kind = "release" THEN 0 ELSE 1)
               /\ q[j].kind # "release" => Same(q[j], q[slot[j]])
               /\ q[j].kind # "failed"
    <3>1. q[j].kind # "release" /\ q[j].kind # "failed"
      <4>1. j = 1 \/ j = 2
        OBVIOUS
      <4>2. QED
        BY <1>9, <4>1
    <3>2. j \in 0..2 /\ j - 1 \in 0..2 /\ slot[j] = j /\ slot[j - 1] = j - 1
      BY <1>18
    <3>3. QED
      BY <3>1, <3>2 DEF Same
  <2>3. pending' = q /\ Len(pending') = 2 /\ Len(Replies') - old = 0
    BY <1>1, <1>9, <1>15, <1>16
  <2>4. QED
    BY <1>15, <2>1, <2>2, <2>3 DEF WorkMatches, Same
<1>20. WorkInOrder'
  <2>1. \A x \in Segments : held'[x].carried = {}
    BY <1>1, <1>12 DEF P!NotHeld
  <2>2. \A j \in DOMAIN Work' : Work'[j].kind = "run" => j = 2 /\ Work'[j].segment = s /\ Work'[j].run = run.run
    BY <1>9, <1>15
  <2>3. \A i, j \in DOMAIN Work' : i = 2 => ~(i < j)
    BY <1>15
  <2>4. QED
    BY <1>7, <2>1, <2>2, <2>3 DEF WorkInOrder
<1>21. LastIs(s, 2, run.version)' /\ LastIs(s, 3, run.version)'
  <2>1. 1 \in DOMAIN Work' /\ 1 < 2 /\ 1 < 3 /\ Work'[1].kind = "configure" /\ Work'[1].segment = s
        /\ Work'[1].version = run.version
    BY <1>9, <1>15
  <2>2. \A k \in DOMAIN Work' : 1 + 1 <= k => Work'[k].kind = "run"
    BY <1>9, <1>15
  <2>3. QED
    BY <2>1, <2>2 DEF LastIs, OnlyRuns
<1>22. RunsConfigured'
  <2>1. ASSUME NEW j \in DOMAIN Work', NEW x, NEW v,
               Work'[j].kind = "run", Work'[j].segment = x, Work'[j].version = v
        PROVE  LastIs(x, j, v)' \/ (OnlyRuns(x, 1, j)' /\ held'[x].version \in {0, v})
    <3>1. j = 2 /\ x = s /\ v = run.version
      BY <1>9, <1>15, <2>1
    <3>2. QED
      BY <1>21, <3>1
  <2>2. QED
    BY <2>1, RunsConfiguredIf
<1>23. ServerKnows(old)'
  <2>1. ASSUME NEW x \in Segments, configured'[x] # 0
        PROVE  LastIs(x, Len(Work) + 1, configured[x])'
    <3>1. x = s /\ configured'[x] = run.version /\ Len(Work') + 1 = 3
      BY <1>1, <1>15, <2>1
    <3>2. QED
      BY <1>21, <3>1
  <2>2. QED
    BY <2>1 DEF ServerKnows
<1>24. (\E any : WorkKnown(old, any))'
  BY <1>19, <1>20, <1>22, <1>23 DEF WorkKnown
<1>25. old \in Nat
  BY <1>15, <1>16
<1>26. QED
  BY <1>6, <1>7, <1>11, <1>13, <1>14, <1>17, <1>24, <1>25 DEF PortInv, PortKnown

\* The requests without their first, which may fail the run after it.
Later(p) ==
  /\ p \in Seq(PortRequest) /\ Len(p) = Len(pending) - 1 /\ DOMAIN p = 1..(Len(pending) - 1)
  /\ \A i \in DOMAIN p : p[i] = pending[i + 1] \/ (i = 1 /\ pending[2].kind = "run"
       /\ p[1].kind = "failed" /\ p[1].segment = pending[2].segment /\ p[1].run = pending[2].run
       /\ p[1].version = pending[2].version)

\* The first reply answers the first request.
LEMMA ReplyTaken ==
  ASSUME PortInv, inbox # <<>>, inbox[1].port = port, inbox[1].kind # "exit", inbox' = Tail(inbox),
         Later(pending'), AnswersKept, answers' \in [Segments -> Seq(RunAnswer)], P!AnswersOwnRun',
         configured' \in [Segments -> Nat],
         \A s \in Segments : configured'[s] # 0 =>
           /\ configured'[s] = configured[s]
           /\ ~(pending[1].kind = "configure" /\ pending[1].segment = s /\ inbox[1].kind = "refused"),
         UNCHANGED <<version, queue, port, opened, up, input, parsed, computed, held>>
  PROVE  PortInv'
<1>1. PortTypeOK /\ OnePort /\ QueueInOrder /\ PendingSent
  BY DEF PortInv, PortKnown
<1>2. PICK old \in Nat : RepliesMatch(old) /\ \E slot : WorkKnown(old, slot)
  BY DEF PortInv
<1>3. PICK slot : WorkKnown(old, slot)
  BY <1>2
<1>4. /\ 1 \in DOMAIN inbox /\ 1 \in DOMAIN Replies /\ Replies[1] = inbox[1]
      /\ inbox' \in Seq(Message) /\ Len(inbox) \in Nat \ {0}
      /\ Len(inbox') = Len(inbox) - 1 /\ DOMAIN inbox' = 1..(Len(inbox) - 1)
      /\ \A n \in DOMAIN inbox' : n + 1 \in DOMAIN inbox /\ inbox'[n] = inbox[n + 1]
      /\ Len(Replies') = Len(Replies) - 1 /\ Len(Replies) \in Nat \ {0}
      /\ \A n \in 1..(Len(Replies) - 1) : Replies'[n] = Replies[n + 1]
  BY <1>1, MessageTaken
<1>5. old = 0
  <2>1. 1 \notin 1..old
    BY <1>2 DEF RepliesMatch
  <2>2. QED
    BY <2>1
<1>6. /\ \A n \in 1..Len(inbox) : inbox[n].port = port /\ (inbox[n].kind = "exit" => up = 0)
      /\ \A n \in 1..Len(Replies) :
           Replies[n].kind # "exit" => n <= Len(pending) /\ Match(Replies[n], pending[n])
  <2>1. /\ \A n \in (old + 1)..Len(inbox) : inbox[n].port = port /\ (inbox[n].kind = "exit" => up = 0)
        /\ \A n \in (old + 1)..Len(Replies) :
             Replies[n].kind # "exit" => n - old <= Len(pending) /\ Match(Replies[n], pending[n - old])
    BY <1>2 DEF RepliesMatch
  <2>2. old + 1 = 1 /\ \A n \in 1..Len(Replies) : n - old = n
    BY <1>4, <1>5
  <2>3. QED
    BY <2>1, <2>2
<1> DEFINE M == Len(pending)
<1>7. M \in Nat /\ DOMAIN pending = 1..M /\ \A i \in 1..M : pending[i].segment \in Segments
  BY <1>1, WorkIs, ElementsAre
<1>8. /\ pending' \in Seq(PortRequest) /\ Len(pending') = M - 1 /\ DOMAIN pending' = 1..(M - 1)
      /\ \A i \in 1..(M - 1) : i + 1 \in 1..M
      /\ \A i \in 1..(M - 1) :
           /\ pending'[i].segment = pending[i + 1].segment /\ pending'[i].run = pending[i + 1].run
           /\ pending'[i].version = pending[i + 1].version
           /\ \/ pending'[i] = pending[i + 1]
              \/ i = 1 /\ pending[i + 1].kind = "run" /\ pending'[i].kind = "failed"
  <2>1. \A i \in 1..(M - 1) : i + 1 \in 1..M
    BY <1>7
  <2>2. 1 + 1 = 2
    OBVIOUS
  <2>3. QED
    BY <2>1, <2>2 DEF Later
<1>9. PortTypeOK'
  BY <1>1, <1>4, <1>8 DEF PortTypeOK
<1>10. OnePort'
  BY <1>1, <1>4 DEF OnePort
<1>11. QueueInOrder'
  BY <1>1 DEF QueueInOrder, Sent, AnswersKept
<1>12. PendingSent'
  <2>1. ASSUME NEW i \in 1..(M - 1)
        PROVE  /\ pending'[i].kind \in {"run", "failed"} =>
                    Sent(pending[i].segment, pending[i].run, pending[i].version)'
               /\ pending'[i].kind = "configure" => i + 1 \in 1..(M - 1) /\ pending'[i + 1].kind = "run"
               /\ pending'[i].kind # "release"
    <3>1. i + 1 \in DOMAIN pending /\ pending[i + 1].segment \in Segments
      BY <1>7, <1>8
    <3>2. /\ pending[i + 1].kind \in {"run", "failed"} =>
               Sent(pending[i + 1].segment, pending[i + 1].run, pending[i + 1].version)
          /\ pending[i + 1].kind = "configure" => i + 1 + 1 \in 1..M /\ pending[i + 1 + 1].kind = "run"
          /\ pending[i + 1].kind # "release"
      BY <1>1, <1>7, <3>1 DEF PendingSent
    <3>3. pending'[i].kind \in {"run", "failed"} =>
            Sent(pending[i].segment, pending[i].run, pending[i].version)'
      BY <1>8, <3>1, <3>2 DEF Sent, AnswersKept
    <3>4. ASSUME pending'[i].kind = "configure"
          PROVE  i + 1 \in 1..(M - 1) /\ pending'[i + 1].kind = "run"
      <4>1. pending[i + 1].kind = "configure"
        BY <1>8, <3>4
      <4>2. i + 1 \in 1..(M - 1) /\ i + 1 # 1 /\ pending[i + 1 + 1].kind = "run"
        BY <1>7, <3>2, <4>1
      <4>3. QED
        BY <1>8, <4>2
    <3>5. QED
      BY <1>8, <3>2, <3>3, <3>4
  <2>2. QED
    BY <1>8, <2>1 DEF PendingSent
<1>13. RepliesMatch(old)'
  <2>1. \A n \in 1..(Len(inbox) - 1) : inbox'[n].port = port /\ (inbox'[n].kind = "exit" => up = 0)
    BY <1>4, <1>6
  <2>2. ASSUME NEW n \in 1..(Len(Replies) - 1), Replies'[n].kind # "exit"
        PROVE  n <= Len(pending') /\ Match(Replies[n], pending[n])'
    <3>0. Len(Replies) \in Nat \ {0} /\ \A m \in 1..(Len(Replies) - 1) : Replies'[m] = Replies[m + 1]
      BY <1>4
    <3>1. n + 1 \in 1..Len(Replies) /\ Replies'[n] = Replies[n + 1]
      BY <3>0
    <3>2. n + 1 <= M /\ Match(Replies[n + 1], pending[n + 1])
      BY <1>6, <2>2, <3>1
    <3>3. n \in 1..(M - 1) /\ n <= Len(pending') /\ n + 1 \in 1..M
      BY <1>7, <1>8, <3>2
    <3>4. pending[n + 1].segment \in Segments
      BY <1>7, <3>3
    <3>5. /\ pending'[n].segment = pending[n + 1].segment /\ pending'[n].run = pending[n + 1].run
          /\ pending'[n].version = pending[n + 1].version
          /\ pending'[n].kind = pending[n + 1].kind \/ pending'[n].kind = "failed"
      BY <1>8, <3>3
    <3>6. QED
      BY <3>1, <3>2, <3>3, <3>4, <3>5 DEF Match, Sent, AnswersKept
  <2>3. old + 1 = 1 /\ \A n : n \notin 1..old
    BY <1>5
  <2>4. \A n \in 1..(Len(Replies) - 1) : n - old = n
    BY <1>4, <1>5
  <2>5. old \in 0..Len(inbox')
    BY <1>4, <1>5
  <2>6. ASSUME NEW n \in 1..(Len(Replies) - 1), Replies'[n].kind # "exit"
        PROVE  n - old <= Len(pending') /\ Match(Replies[n], pending[n - old])'
    BY <2>2, <2>4, <2>6
  <2>7. QED
    BY <1>4, <2>1, <2>3, <2>5, <2>6 DEF RepliesMatch
<1>14. Work' = Work
  BY DEF Work
<1>15. PICK lower : lower = [j \in 0..Len(Work) |-> slot[j] - 1]
  OBVIOUS
<1>16. ASSUME up # 0
       PROVE  WorkMatches(old, lower)' /\ WorkInOrder' /\ RunsConfigured' /\ ServerKnows(old)'
  <2>1. WorkMatches(old, slot) /\ WorkInOrder /\ RunsConfigured /\ ServerKnows(old)
    BY <1>3, <1>16 DEF WorkKnown
  <2>2. /\ slot \in [0..Len(Work) -> 0..M]
        /\ slot[0] = Len(Replies) /\ slot[Len(Work)] = M
        /\ \A i, j \in 0..Len(Work) : i <= j => slot[i] <= slot[j]
        /\ \A j \in 1..Len(Work) :
             /\ slot[j] = slot[j - 1] + (IF Work[j].kind = "release" THEN 0 ELSE 1)
             /\ Work[j].kind # "release" => Same(Work[j], pending[slot[j]])
             /\ Work[j].kind # "failed"
    <3>1. Len(Replies) - old = Len(Replies)
      BY <1>4, <1>5
    <3>2. QED
      BY <2>1, <3>1 DEF WorkMatches
  <2>3. Len(Work) \in Nat /\ DOMAIN Work = 1..Len(Work)
    BY <1>1, WorkIs
  <2>4. \A j \in 0..Len(Work) : slot[j] \in 1..M /\ lower[j] \in 0..(M - 1) /\ lower[j] = slot[j] - 1
    <3>1. ASSUME NEW j \in 0..Len(Work)
          PROVE  slot[j] \in 1..M /\ lower[j] \in 0..(M - 1) /\ lower[j] = slot[j] - 1
      <4>0. Len(Replies) \in Nat \ {0}
        BY <1>4
      <4>1. 0 \in 0..Len(Work) /\ 0 <= j /\ slot[j] \in 0..M /\ slot[0] \in 0..M /\ slot[0] >= 1
        BY <2>2, <2>3, <4>0
      <4>2. slot[0] <= slot[j]
        BY <2>2, <4>1
      <4>3. lower[j] = slot[j] - 1
        BY <1>15
      <4>4. QED
        BY <1>7, <4>1, <4>2, <4>3
    <3>2. QED
      BY <3>1
  <2>40. \A i, j \in 0..Len(Work) : i <= j => lower[i] <= lower[j]
    BY <1>7, <2>2, <2>4
  <2>5. lower \in [0..Len(Work) -> 0..(M - 1)]
    BY <1>15, <2>4
  <2>6. ASSUME NEW j \in 1..Len(Work)
        PROVE  /\ lower[j] = lower[j - 1] + (IF Work[j].kind = "release" THEN 0 ELSE 1)
               /\ Work[j].kind # "release" => Same(Work[j], pending'[lower[j]])
    <3>1. j \in 0..Len(Work) /\ j - 1 \in 0..Len(Work)
      BY <2>3
    <3>2. lower[j] = slot[j] - 1 /\ lower[j - 1] = slot[j - 1] - 1 /\ slot[j] \in 1..M /\ slot[j - 1] \in 1..M
      BY <1>15, <2>4, <3>1
    <3>3. lower[j] = lower[j - 1] + (IF Work[j].kind = "release" THEN 0 ELSE 1)
      BY <2>2, <3>2
    <3>4. ASSUME Work[j].kind # "release" PROVE Same(Work[j], pending'[lower[j]])
      <4>1. slot[j] = slot[j - 1] + 1 /\ Same(Work[j], pending[slot[j]])
        BY <2>2, <3>4
      <4>2. lower[j] \in 1..(M - 1) /\ lower[j] + 1 = slot[j]
        BY <1>7, <3>2, <4>1
      <4>3. QED
        BY <1>8, <4>1, <4>2 DEF Same
    <3>5. QED
      BY <3>3, <3>4
  <2>7. lower[0] = Len(Replies') - old /\ lower[Len(Work)] = Len(pending')
    <3>1. 0 \in 0..Len(Work) /\ Len(Work) \in 0..Len(Work)
      BY <2>3
    <3>2. lower[0] = slot[0] - 1 /\ lower[Len(Work)] = slot[Len(Work)] - 1
      BY <1>15, <3>1
    <3>3. QED
      BY <1>4, <1>5, <1>8, <2>2, <3>2
  <2>8. WorkMatches(old, lower)'
    BY <1>8, <1>14, <2>2, <2>5, <2>6, <2>7, <2>40 DEF WorkMatches, Same
  <2>9. WorkInOrder'
    <3>1. \A s \in Segments : \A m \in held[s].carried : Sent(s, m, held[s].version)'
      BY <2>1 DEF WorkInOrder, Sent, AnswersKept
    <3>2. QED
      BY <1>14, <2>1, <3>1 DEF WorkInOrder
  <2>10. RunsConfigured'
    BY <1>14, <2>1 DEF RunsConfigured, LastIs, OnlyRuns
  <2>11. ASSUME NEW s \in Segments, configured'[s] # 0, RefusalComes(s, old) PROVE RefusalComes(s, old)'
    <3>1. PICK n \in (old + 1)..Len(Replies) :
            /\ n - old \in DOMAIN pending
            /\ pending[n - old].kind = "configure" /\ pending[n - old].segment = s /\ Replies[n].kind = "refused"
      BY <2>11 DEF RefusalComes
    <3>2. n \in 1..Len(Replies) /\ n - old = n /\ n \in 1..M
      BY <1>4, <1>5, <1>7, <3>1
    <3>3. n # 1
      BY <1>4, <2>11, <3>1, <3>2
    <3>4. n - 1 \in 1..(Len(Replies) - 1) /\ (n - 1) + 1 = n /\ n - 1 \in 1..(M - 1)
          /\ n - 1 \in (old + 1)..Len(Replies') /\ (n - 1) - old = n - 1
      BY <1>4, <1>5, <1>7, <3>2, <3>3
    <3>5. Replies'[n - 1].kind = "refused"
      BY <1>4, <3>1, <3>4
    <3>6. pending'[n - 1].kind = "configure" /\ pending'[n - 1].segment = s
      BY <1>8, <3>1, <3>2, <3>4
    <3>7. QED
      BY <1>8, <3>4, <3>5, <3>6 DEF RefusalComes
  <2>12. ServerKnows(old)'
    BY <1>14, <2>1, <2>11 DEF ServerKnows, LastIs, OnlyRuns
  <2>13. QED
    BY <2>8, <2>9, <2>10, <2>12
<1>17. (\E any : WorkKnown(old, any))'
  BY <1>16 DEF WorkKnown
<1>18. QED
  BY <1>2, <1>9, <1>10, <1>11, <1>12, <1>13, <1>17 DEF PortInv, PortKnown

\* The first request is answered with the reply.
LEMMA AnswerGiven ==
  ASSUME PortTypeOK, P!AnswersOwnRun, NEW entry \in PortRequest, NEW reply \in Message,
         Match(reply, entry), entry.kind # "release",
         entry.kind \in {"run", "failed"} => Sent(entry.segment, entry.run, entry.version),
         answers' = P!Answered(<<entry>>, LAMBDA e : P!Answer(e, reply))
  PROVE  answers' \in [Segments -> Seq(RunAnswer)] /\ AnswersKept /\ P!AnswersOwnRun'
<1> DEFINE Hit(s, n) == entry.kind # "configure" /\ entry.segment = s /\ entry.run = n
           given(v) == [P!Answer(entry, reply) EXCEPT !.version = v]
<1>1. answers' = [s \in Segments |-> [n \in DOMAIN answers[s] |->
              IF Hit(s, n) THEN given(answers[s][n].version) ELSE answers[s][n]]]
  <2> DEFINE Among(s, n) == \E i \in DOMAIN <<entry>> :
               <<entry>>[i].kind # "configure" /\ <<entry>>[i].segment = s /\ <<entry>>[i].run = n
             hit(s, n) == CHOOSE i \in DOMAIN <<entry>> :
               <<entry>>[i].kind # "configure" /\ <<entry>>[i].segment = s /\ <<entry>>[i].run = n
         was(s, n) == IF Among(s, n)
                      THEN [P!Answer(<<entry>>[hit(s, n)], reply) EXCEPT !.version = answers[s][n].version]
                      ELSE answers[s][n]
         is(s, n) == IF Hit(s, n) THEN given(answers[s][n].version) ELSE answers[s][n]
  <2>1. answers' = [s \in Segments |-> [n \in DOMAIN answers[s] |-> was(s, n)]]
    BY DEF P!Answered
  <2>2. DOMAIN <<entry>> = {1} /\ <<entry>>[1] = entry
    OBVIOUS
  <2>3. \A s, n : Among(s, n) <=> Hit(s, n)
    BY <2>2
  <2>4. \A s, n : Hit(s, n) => <<entry>>[hit(s, n)] = entry
    BY <2>2
  <2> HIDE DEF Among, hit, Hit
  <2>5. ASSUME NEW s, NEW n PROVE was(s, n) = is(s, n)
    <3>1. CASE Hit(s, n)
      <4>1. <<entry>>[hit(s, n)] = entry /\ Among(s, n)
        BY <2>3, <2>4, <3>1
      <4>2. QED
        BY <3>1, <4>1
    <3>2. CASE ~Hit(s, n)
      BY <2>3, <3>2
    <3>3. QED
      BY <3>1, <3>2
  <2> HIDE DEF was, is
  <2>6. answers' = [s \in Segments |-> [n \in DOMAIN answers[s] |-> is(s, n)]]
    BY <2>1, <2>5
  <2>7. QED
    BY <2>6 DEF is
<1>2. ASSUME NEW v \in Nat
      PROVE  /\ given(v) \in RunAnswer /\ given(v).version = v
             /\ given(v).kind = "ok" => entry.kind # "failed" /\ reply.kind = "outputs" /\ given(v).from = reply
  <2>1. CASE entry.kind = "failed"
    <3>0. P!Answer(entry, reply) = [kind |-> "configuration_refused", version |-> 0]
      BY <2>1 DEF P!Answer, P!Failure
    <3>1. given(v) = [kind |-> "configuration_refused", version |-> v]
      BY <3>0
    <3>2. QED
      BY <3>1 DEF RunAnswer, Errors
  <2>2. CASE entry.kind # "failed" /\ reply.kind = "outputs"
    <3>0. P!Answer(entry, reply) = [kind |-> "ok", version |-> 0, from |-> reply]
      BY <2>2 DEF P!Answer
    <3>1. given(v) = [kind |-> "ok", version |-> v, from |-> reply]
      BY <3>0
    <3>2. reply \in OutputsReply
      BY <2>2 DEF Message
    <3>3. QED
      BY <2>2, <3>1, <3>2 DEF RunAnswer, Errors
  <2>3. CASE entry.kind # "failed" /\ reply.kind # "outputs"
    <3>0. P!Answer(entry, reply) = [kind |-> "bad_request", version |-> 0]
      BY <2>3 DEF P!Answer, P!Failure
    <3>1. given(v) = [kind |-> "bad_request", version |-> v]
      BY <3>0
    <3>2. QED
      BY <3>1 DEF RunAnswer, Errors
  <2>4. QED
    BY <2>1, <2>2, <2>3
<1> HIDE DEF given
<1>3. ASSUME NEW s \in Segments
      PROVE  /\ answers'[s] \in Seq(RunAnswer) /\ DOMAIN answers'[s] = DOMAIN answers[s]
             /\ \A n \in DOMAIN answers[s] :
                  /\ answers'[s][n].version = answers[s][n].version /\ answers[s][n].version \in Nat
                  /\ answers'[s][n] = IF Hit(s, n) THEN given(answers[s][n].version) ELSE answers[s][n]
  <2>1. answers[s] \in Seq(RunAnswer) /\ DOMAIN answers[s] = 1..Len(answers[s]) /\ Len(answers[s]) \in Nat
    BY DEF PortTypeOK
  <2>2. answers'[s] = [n \in DOMAIN answers[s] |->
              IF Hit(s, n) THEN given(answers[s][n].version) ELSE answers[s][n]]
    BY <1>1
  <2>3. \A n \in DOMAIN answers[s] : answers[s][n] \in RunAnswer /\ answers[s][n].version \in Nat
    <3>1. \A n \in DOMAIN answers[s] : answers[s][n] \in RunAnswer
      BY <2>1
    <3>2. QED
      BY <3>1 DEF RunAnswer
  <2> HIDE DEF Hit
  <2>4. \A n \in DOMAIN answers[s] :
          answers'[s][n] \in RunAnswer /\ answers'[s][n].version = answers[s][n].version
    BY <1>2, <2>2, <2>3
  <2>5. answers'[s] = [n \in 1..Len(answers[s]) |-> answers'[s][n]]
    BY <2>1, <2>2
  <2>6. answers'[s] \in Seq(RunAnswer)
    BY <2>1, <2>4, <2>5, SequenceIs
  <2>7. QED
    BY <2>2, <2>3, <2>4, <2>6
<1>4. answers' \in [Segments -> Seq(RunAnswer)]
  <2>1. answers' = [s \in Segments |-> answers'[s]]
    BY <1>1
  <2>2. QED
    BY <1>3, <2>1
<1>5. AnswersKept
  BY <1>3 DEF AnswersKept
<1>6. ASSUME NEW s \in Segments, NEW n \in DOMAIN answers'[s], answers'[s][n].kind = "ok"
      PROVE  n \in DOMAIN answers[s] /\ (answers'[s][n] = answers[s][n] \/ OwnRun(s, n)')
  <2>1. n \in DOMAIN answers[s]
    BY <1>3
  <2>2. ASSUME Hit(s, n) PROVE OwnRun(s, n)'
    <3>1. answers'[s][n] = given(answers[s][n].version) /\ answers[s][n].version \in Nat
      BY <1>3, <2>1, <2>2
    <3>2. /\ entry.kind # "failed" /\ reply.kind = "outputs" /\ answers'[s][n].from = reply
          /\ answers'[s][n].version = answers[s][n].version
      BY <1>2, <1>6, <3>1
    <3>3. entry.kind = "run" /\ entry.segment = s /\ entry.run = n
      BY <2>2, <3>2 DEF PortRequest
    <3>4. /\ reply.segment = s /\ reply.run = n /\ reply.version = entry.version
          /\ \A m \in reply.carried : m < n /\ Sent(s, m, entry.version)
      BY <3>2, <3>3 DEF Match
    <3>5. answers[s][n].version = entry.version
      BY <3>3 DEF Sent
    <3>6. \A m \in reply.carried : answers'[s][m].version = reply.version
      BY <1>5, <3>4 DEF Sent, AnswersKept
    <3>7. QED
      BY <3>2, <3>4, <3>5, <3>6 DEF OwnRun
  <2>3. QED
    BY <1>3, <2>1, <2>2
<1>7. QED
  BY <1>4, <1>5, <1>6, OwnRunKept

\* The first reply is of the open Port, and some request waits for it.
LEMMA HandleReplyStep ==
  ASSUME PortInv, P!HandleReply
  PROVE  PortInv'
<1>1. PortTypeOK /\ OnePort /\ PendingSent /\ P!AnswersOwnRun
  BY DEF PortInv, PortKnown
<1>2. PICK reply : reply = Head(inbox)
  OBVIOUS
<1>3. PICK entry : entry = Head(pending)
  OBVIOUS
<1>4. /\ inbox # <<>> /\ reply.kind # "exit" /\ reply.port = port /\ inbox' = Tail(inbox)
      /\ IF pending = <<>> THEN UNCHANGED <<configured, pending, answers>>
         ELSE IF entry.kind = "configure" /\ reply.kind # "configured" THEN P!Refuse(entry.segment)
         ELSE /\ pending' = Tail(pending) /\ UNCHANGED configured
              /\ answers' = P!Answered(<<entry>>, LAMBDA e : P!Answer(e, reply))
      /\ UNCHANGED <<version, queue, port, opened, up, input, parsed, computed, held>>
  BY <1>2, <1>3 DEF P!HandleReply, P!FromPort, P!processVars
<1>5. 1 \in DOMAIN inbox /\ inbox[1] = reply /\ reply \in Message /\ 1 \in DOMAIN Replies /\ Replies[1] = reply
  BY <1>1, <1>2, <1>4, MessageTaken, ElementsAre
<1>6. pending # <<>> /\ Len(pending) \in Nat \ {0} /\ Match(reply, pending[1])
  <2>1. PICK old \in Nat : RepliesMatch(old)
    BY DEF PortInv
  <2>2. 1 \notin 1..old
    BY <1>4, <1>5, <2>1 DEF RepliesMatch
  <2>3. 1 \in (old + 1)..Len(Replies) /\ 1 - old = 1
    BY <1>1, <1>5, <2>2, WorkIs
  <2>4. 1 <= Len(pending) /\ Match(reply, pending[1])
    BY <1>4, <1>5, <2>1, <2>3 DEF RepliesMatch
  <2>5. Len(pending) \in Nat
    BY <1>1, WorkIs
  <2>6. pending # <<>>
    BY <2>4
  <2>7. QED
    BY <2>4, <2>5, <2>6
<1>7. /\ entry = pending[1] /\ 1 \in DOMAIN pending /\ entry \in PortRequest
      /\ Tail(pending) \in Seq(PortRequest) /\ Len(Tail(pending)) = Len(pending) - 1
      /\ DOMAIN Tail(pending) = 1..(Len(pending) - 1)
      /\ \A i \in DOMAIN Tail(pending) : Tail(pending)[i] = pending[i + 1]
  <2>1. pending \in Seq(PortRequest)
    BY <1>1 DEF PortTypeOK
  <2>2. QED
    BY <1>3, <1>6, <2>1, TailIs
<1>8. /\ entry.kind \in {"run", "failed"} => Sent(entry.segment, entry.run, entry.version)
      /\ entry.kind = "configure" => 2 \in DOMAIN pending /\ pending[2].kind = "run"
      /\ entry.kind # "release" /\ entry.segment \in Segments
  <2>1. 1 + 1 = 2
    OBVIOUS
  <2>2. QED
    BY <1>1, <1>7, <2>1 DEF PendingSent, PortRequest
<1>9. CASE entry.kind = "configure" /\ reply.kind # "configured"
  <2>1. /\ configured' = [configured EXCEPT ![entry.segment] = 0] /\ UNCHANGED answers
        /\ pending' = IF Len(pending) > 1 THEN [Tail(pending) EXCEPT ![1].kind = "failed"] ELSE <<>>
    BY <1>4, <1>6, <1>9 DEF P!Refuse
  <2>2. PICK rest : rest = Tail(pending)
    OBVIOUS
  <2>3. 2 \in 1..Len(pending) /\ 1 \in DOMAIN rest /\ rest \in Seq(PortRequest) /\ rest[1] = pending[2]
    <3>1. DOMAIN pending = 1..Len(pending) /\ 1 + 1 = 2
      BY <1>1, WorkIs
    <3>2. 1 \in 1..(Len(pending) - 1)
      BY <1>6, <1>8, <1>9, <3>1
    <3>3. QED
      BY <1>7, <1>8, <1>9, <2>2, <3>1, <3>2
  <2>4. PICK x : x = [rest[1] EXCEPT !.kind = "failed"]
    OBVIOUS
  <2>5. /\ x \in PortRequest /\ x.kind = "failed" /\ x.segment = pending[2].segment
        /\ x.run = pending[2].run /\ x.version = pending[2].version
    <3>1. rest[1] \in PortRequest
      BY <2>3, ElementIs
    <3>2. QED
      BY <2>3, <2>4, <3>1 DEF PortRequest
  <2>6. pending' = [rest EXCEPT ![1] = x]
    <3>1. Len(pending) > 1
      BY <1>6, <2>3
    <3>2. QED
      BY <2>1, <2>2, <2>4, <3>1
  <2>7. /\ pending' \in Seq(PortRequest) /\ DOMAIN pending' = DOMAIN rest /\ Len(pending') = Len(rest)
        /\ \A m \in DOMAIN rest : pending'[m] = IF m = 1 THEN x ELSE rest[m]
    BY <2>3, <2>5, <2>6, ReplaceIs
  <2>8. Later(pending')
    <3>1. \A i \in DOMAIN rest : rest[i] = pending[i + 1]
      BY <1>7, <2>2
    <3>2. pending[2].kind = "run"
      BY <1>8, <1>9
    <3>3. QED
      BY <1>7, <2>2, <2>5, <2>7, <3>1, <3>2 DEF Later
  <2>9. /\ configured' \in [Segments -> Nat] /\ configured'[entry.segment] = 0
        /\ \A s \in Segments : configured'[s] # 0 => configured'[s] = configured[s] /\ s # entry.segment
    BY <1>1, <1>8, <2>1 DEF PortTypeOK
  <2>10. AnswersKept /\ answers' \in [Segments -> Seq(RunAnswer)] /\ P!AnswersOwnRun'
    BY <1>1, <2>1 DEF AnswersKept, PortTypeOK, P!AnswersOwnRun
  <2>11. QED
    BY <1>4, <1>5, <1>7, <2>8, <2>9, <2>10, ReplyTaken
<1>10. CASE ~(entry.kind = "configure" /\ reply.kind # "configured")
  <2>1. /\ pending' = Tail(pending) /\ UNCHANGED configured
        /\ answers' = P!Answered(<<entry>>, LAMBDA e : P!Answer(e, reply))
    BY <1>4, <1>6, <1>10
  <2>2. Later(pending')
    BY <1>7, <2>1 DEF Later
  <2>3. answers' \in [Segments -> Seq(RunAnswer)] /\ AnswersKept /\ P!AnswersOwnRun'
    BY <1>1, <1>5, <1>6, <1>7, <1>8, <2>1, AnswerGiven
  <2>4. configured' \in [Segments -> Nat] /\ configured' = configured
    BY <1>1, <2>1 DEF PortTypeOK
  <2>5. ~(pending[1].kind = "configure" /\ inbox[1].kind = "refused")
    BY <1>5, <1>7, <1>10
  <2>6. QED
    BY <1>4, <1>5, <2>2, <2>3, <2>4, <2>5, ReplyTaken
<1>11. QED
  BY <1>9, <1>10

\* The process takes the first request.
LEMMA RequestTaken ==
  ASSUME PortTypeOK, parsed # <<>>, parsed' = Tail(parsed), input' = input
  PROVE  /\ Head(parsed) = Work[1] /\ 1 \in DOMAIN Work /\ Work[1] \in PortRequest /\ Work[1].segment \in Segments
         /\ parsed' \in Seq(PortRequest) /\ Len(Work) \in Nat \ {0} /\ DOMAIN Work = 1..Len(Work)
         /\ Len(Work') = Len(Work) - 1 /\ DOMAIN Work' = 1..(Len(Work) - 1)
         /\ \A j \in 1..(Len(Work) - 1) : j + 1 \in DOMAIN Work /\ Work'[j] = Work[j + 1]
<1>1. parsed \in Seq(PortRequest) /\ input \in Seq(PortRequest)
  BY DEF PortTypeOK
<1>2. /\ Head(parsed) = parsed[1] /\ 1 \in 1..Len(parsed) /\ parsed[1] \in PortRequest
      /\ parsed' \in Seq(PortRequest) /\ Len(parsed) \in Nat \ {0}
      /\ Len(parsed') = Len(parsed) - 1
      /\ \A n \in 1..(Len(parsed) - 1) : parsed'[n] = parsed[n + 1]
  BY <1>1, TailIs
<1>3. PICK w : w = parsed \o input
  OBVIOUS
<1>4. PICK u : u = parsed' \o input
  OBVIOUS
<1>5. Work = w /\ Work' = u
  BY <1>3, <1>4 DEF Work
<1>6. /\ Len(input) \in Nat /\ Len(w) = Len(parsed) + Len(input) /\ DOMAIN w = 1..Len(w)
      /\ Len(u) = Len(parsed) - 1 + Len(input) /\ DOMAIN u = 1..Len(u)
      /\ w[1] = parsed[1]
  BY <1>1, <1>2, <1>3, <1>4, ConcatIs
<1>7. ASSUME NEW j \in 1..(Len(w) - 1) PROVE u[j] = w[j + 1]
  <2>1. CASE j \in 1..(Len(parsed) - 1)
    <3>1. u[j] = parsed'[j]
      BY <1>1, <1>2, <1>4, <2>1, ConcatIs
    <3>2. j + 1 \in 1..Len(parsed)
      BY <1>2, <2>1
    <3>3. w[j + 1] = parsed[j + 1]
      BY <1>1, <1>3, <3>2, ConcatIs
    <3>4. QED
      BY <1>2, <2>1, <3>1, <3>3
  <2>2. CASE j \notin 1..(Len(parsed) - 1)
    <3>1. PICK m : m = j - (Len(parsed) - 1)
      OBVIOUS
    <3>2. m \in 1..Len(input) /\ j = Len(parsed') + m /\ j + 1 = Len(parsed) + m
      BY <1>2, <1>6, <2>2, <3>1
    <3>3. u[Len(parsed') + m] = input[m]
      BY <1>1, <1>2, <1>4, <3>2, ConcatIs
    <3>4. w[Len(parsed) + m] = input[m]
      BY <1>1, <1>3, <3>2, ConcatIs
    <3>5. QED
      BY <3>2, <3>3, <3>4
  <2>3. QED
    BY <2>1, <2>2
<1>8. /\ Len(w) \in Nat \ {0} /\ 1 \in DOMAIN w /\ Len(u) = Len(w) - 1 /\ DOMAIN u = 1..(Len(w) - 1)
      /\ \A j \in 1..(Len(w) - 1) : j + 1 \in DOMAIN w
  BY <1>2, <1>6
<1>9. w[1] \in PortRequest /\ w[1].segment \in Segments
  BY <1>2, <1>6 DEF PortRequest
<1>10. QED
  BY <1>2, <1>5, <1>6, <1>7, <1>8, <1>9

\* The run computed first is in the configuration held, after earlier runs of it.
LEMMA RunIsOwn ==
  ASSUME PortTypeOK, PendingSent, NEW old, NEW slot, WorkMatches(old, slot), WorkInOrder, RunsConfigured,
         1 \in DOMAIN Work, Work[1].kind = "run", NEW s, s = Work[1].segment, held[s].version # 0
  PROVE  /\ held[s].version = Work[1].version
         /\ \A m \in held[s].carried : m < Work[1].run /\ Sent(s, m, Work[1].version)
         /\ Sent(s, Work[1].run, Work[1].version) /\ Work[1].run \in Nat \ {0} /\ s \in Segments
<1>1. held[s].version = Work[1].version
  <2>1. ~LastIs(s, 1, Work[1].version)
    <3>1. \A i \in DOMAIN Work : ~(i < 1)
      BY WorkIs
    <3>2. QED
      BY <3>1 DEF LastIs
  <2>2. QED
    BY <2>1 DEF RunsConfigured
<1>2. Sent(s, Work[1].run, Work[1].version) /\ s \in Segments
  BY WorkSent
<1>3. Work[1].run \in Nat \ {0}
  BY <1>2, WorkIs DEF Sent
<1>4. QED
  BY <1>1, <1>2, <1>3 DEF WorkInOrder

\* The first request is computed, and replied to unless it is a release.
LEMMA RequestComputed ==
  ASSUME PortInv, up # 0, parsed # <<>>, parsed' = Tail(parsed), input' = input,
         NEW request, request = Work[1], NEW s, s = request.segment,
         NEW more \in {0, 1}, more = (IF request.kind = "release" THEN 0 ELSE 1),
         Len(Replies') = Len(Replies) + more,
         \A n \in 1..Len(Replies) : Replies'[n] = Replies[n],
         NEW reply, more = 1 => Replies'[Len(Replies) + 1] = reply,
         reply.kind # "exit", \A asked : Same(request, asked) => Match(reply, asked),
         \A x \in Segments : x # s \/ request.kind = "run" => held'[x].version = held[x].version,
         request.kind = "configure" =>
           held'[s].version = request.version \/ (held'[s].version = 0 /\ reply.kind = "refused"),
         \A x \in Segments : \A m \in held'[x].carried :
           \/ m \in held[x].carried /\ held'[x].version = held[x].version
           \/ x = s /\ request.kind = "run" /\ m = request.run /\ held'[x].version = request.version,
         UNCHANGED <<version, queue, answers, port, configured, pending, opened, inbox, up>>,
         PortTypeOK', OnePort'
  PROVE  PortInv'
<1>1. PortTypeOK /\ OnePort /\ QueueInOrder /\ PendingSent /\ P!AnswersOwnRun
  BY DEF PortInv, PortKnown
<1>2. PICK old \in Nat : RepliesMatch(old) /\ \E slot : WorkKnown(old, slot)
  BY DEF PortInv
<1>3. PICK slot : WorkKnown(old, slot)
  BY <1>2
<1>4. WorkMatches(old, slot) /\ WorkInOrder /\ RunsConfigured /\ ServerKnows(old)
  BY <1>3 DEF WorkKnown
<1>5. QueueInOrder' /\ PendingSent' /\ P!AnswersOwnRun'
  BY <1>1 DEF QueueInOrder, Sent, PendingSent, P!AnswersOwnRun
<1>6. PICK W : W = Len(Work)
  OBVIOUS
<1>7. PICK R : R = Len(Replies)
  OBVIOUS
<1>8. PICK M : M = Len(pending)
  OBVIOUS
<1>9. /\ 1 \in DOMAIN Work /\ request \in PortRequest /\ s \in Segments
      /\ W \in Nat \ {0} /\ DOMAIN Work = 1..W
      /\ Len(Work') = W - 1 /\ DOMAIN Work' = 1..(W - 1)
      /\ \A j \in 1..(W - 1) : j + 1 \in 1..W /\ Work'[j] = Work[j + 1]
  BY <1>1, <1>6, RequestTaken
<1>10. R \in Nat /\ M \in Nat /\ DOMAIN pending = 1..M /\ Len(inbox) \in Nat /\ Len(inbox) <= R
  BY <1>1, <1>7, <1>8, WorkIs
<1>11. /\ slot \in [0..W -> 0..M]
       /\ slot[0] = R - old /\ slot[W] = M
       /\ \A i, j \in 0..W : i <= j => slot[i] <= slot[j]
       /\ \A j \in 1..W :
            /\ slot[j] = slot[j - 1] + (IF Work[j].kind = "release" THEN 0 ELSE 1)
            /\ Work[j].kind # "release" => Same(Work[j], pending[slot[j]])
            /\ Work[j].kind # "failed"
  BY <1>4, <1>6, <1>7, <1>8 DEF WorkMatches
<1>12. slot[1] = R + more - old /\ slot[1] \in 0..M /\ (more = 1 => Same(request, pending[slot[1]]))
  <2>1. 1 \in 1..W /\ 1 - 1 = 0 /\ 1 \in 0..W
    BY <1>9
  <2>2. slot[1] = slot[0] + more /\ (more = 1 => Same(request, pending[slot[1]])) /\ slot[1] \in 0..M
    BY <1>11, <2>1
  <2>3. QED
    BY <1>2, <1>10, <1>11, <2>2
<1>13. old <= Len(inbox) /\ old <= R
  BY <1>2, <1>10 DEF RepliesMatch
<1>14. RepliesMatch(old)'
  <2>1. ASSUME NEW n \in (old + 1)..(R + more), Replies'[n].kind # "exit"
        PROVE  n - old <= Len(pending) /\ Match(Replies[n], pending[n - old])'
    <3>1. CASE n \in 1..R
      <4>1. Replies'[n] = Replies[n] /\ n \in (old + 1)..R
        BY <1>7, <1>10, <2>1, <3>1
      <4>2. n - old <= Len(pending) /\ Match(Replies[n], pending[n - old])
        BY <1>2, <1>7, <2>1, <4>1 DEF RepliesMatch
      <4>3. QED
        BY <4>1, <4>2 DEF Match, Sent
    <3>2. CASE n \notin 1..R
      <4>1. more = 1 /\ n = R + 1 /\ n - old = slot[1]
        BY <1>2, <1>10, <1>12, <1>13, <2>1, <3>2
      <4>2. Replies'[n] = reply
        BY <1>7, <4>1
      <4>3. Match(reply, pending[slot[1]]) /\ slot[1] <= M
        BY <1>10, <1>12, <4>1
      <4>4. QED
        BY <1>8, <4>1, <4>2, <4>3 DEF Match, Sent
    <3>3. QED
      BY <3>1, <3>2
  <2>2. QED
    BY <1>2, <1>7, <2>1 DEF RepliesMatch
<1>15. PICK next : next = [j \in 0..(W - 1) |-> slot[j + 1]]
  OBVIOUS
<1>16. WorkMatches(old, next)'
  <2>1. \A j \in 0..(W - 1) : j + 1 \in 0..W /\ next[j] = slot[j + 1] /\ slot[j + 1] \in 0..M
    BY <1>9, <1>11, <1>15
  <2>2. next \in [0..(W - 1) -> 0..M]
    BY <1>15, <2>1
  <2>3. next[0] = R + more - old /\ next[W - 1] = M
    <3>1. 0 \in 0..(W - 1) /\ 0 + 1 = 1 /\ W - 1 \in 0..(W - 1) /\ (W - 1) + 1 = W
      BY <1>9
    <3>2. QED
      BY <1>11, <1>12, <2>1, <3>1
  <2>4. ASSUME NEW i \in 0..(W - 1), NEW j \in 0..(W - 1), i <= j PROVE next[i] <= next[j]
    <3>1. i + 1 \in 0..W /\ j + 1 \in 0..W /\ i + 1 <= j + 1
      BY <1>9, <2>4
    <3>2. QED
      BY <1>11, <2>1, <3>1
  <2>5. ASSUME NEW j \in 1..(W - 1)
        PROVE  /\ next[j] = next[j - 1] + (IF Work'[j].kind = "release" THEN 0 ELSE 1)
               /\ Work'[j].kind # "release" => Same(Work'[j], pending[next[j]])
               /\ Work'[j].kind # "failed"
    <3>1. j + 1 \in 1..W /\ (j + 1) - 1 = j /\ (j - 1) + 1 = j /\ j \in 0..(W - 1) /\ j - 1 \in 0..(W - 1)
      BY <1>9
    <3>2. Work'[j] = Work[j + 1] /\ next[j] = slot[j + 1] /\ next[j - 1] = slot[j]
      BY <1>9, <2>1, <3>1
    <3>3. QED
      BY <1>11, <3>1, <3>2
  <2>6. QED
    BY <1>7, <1>8, <1>9, <2>2, <2>3, <2>4, <2>5 DEF WorkMatches, Same
<1>17. request.kind = "run" => Sent(s, request.run, request.version)
  BY <1>1, <1>4, <1>9, WorkSent
<1>18. WorkInOrder'
  <2>1. ASSUME NEW x \in Segments, NEW m \in held'[x].carried
        PROVE  /\ Sent(x, m, held[x].version)'
               /\ \A j \in DOMAIN Work' : Work'[j].kind = "run" /\ Work'[j].segment = x => m < Work'[j].run
               /\ \A q \in DOMAIN queue'[x] : m < queue'[x][q].run
    <3>1. CASE m \in held[x].carried /\ held'[x].version = held[x].version
      <4>1. /\ Sent(x, m, held[x].version)
            /\ \A j \in DOMAIN Work : Work[j].kind = "run" /\ Work[j].segment = x => m < Work[j].run
            /\ \A q \in DOMAIN queue[x] : m < queue[x][q].run
        BY <1>4, <3>1 DEF WorkInOrder
      <4>2. Sent(x, m, held[x].version)'
        BY <3>1, <4>1 DEF Sent
      <4>3. QED
        BY <1>9, <4>1, <4>2
    <3>2. CASE x = s /\ request.kind = "run" /\ m = request.run /\ held'[x].version = request.version
      <4>1. Sent(x, m, held[x].version)'
        BY <1>17, <3>2 DEF Sent
      <4>2. \A k \in DOMAIN Work :
              1 < k /\ Work[k].kind = "run" /\ Work[k].segment = x => m < Work[k].run
        BY <1>4, <1>9, <3>2 DEF WorkInOrder
      <4>3. \A q \in DOMAIN queue[x] : m < queue[x][q].run
        BY <1>4, <1>9, <3>2 DEF WorkInOrder
      <4>4. \A j \in 1..(W - 1) : 1 < j + 1
        BY <1>9
      <4>5. QED
        BY <1>9, <4>1, <4>2, <4>3, <4>4
    <3>3. QED
      BY <3>1, <3>2
  <2>2. ASSUME NEW j \in DOMAIN Work', Work'[j].kind = "run"
        PROVE  /\ \A k \in DOMAIN Work' :
                    j < k /\ Work'[k].kind = "run" /\ Work'[k].segment = Work'[j].segment =>
                      Work'[j].run < Work'[k].run
               /\ \A q \in DOMAIN queue'[Work'[j].segment] : Work'[j].run < queue'[Work'[j].segment][q].run
    <3>1. j \in 1..(W - 1) /\ j + 1 \in DOMAIN Work /\ Work'[j] = Work[j + 1]
      BY <1>9
    <3>2. \A k \in 1..(W - 1) : j < k => j + 1 < k + 1
      BY <1>9, <3>1
    <3>3. /\ \A k \in DOMAIN Work :
               j + 1 < k /\ Work[k].kind = "run" /\ Work[k].segment = Work[j + 1].segment =>
                 Work[j + 1].run < Work[k].run
          /\ \A q \in DOMAIN queue[Work[j + 1].segment] : Work[j + 1].run < queue[Work[j + 1].segment][q].run
      BY <1>4, <2>2, <3>1 DEF WorkInOrder
    <3>4. ASSUME NEW k \in DOMAIN Work', j < k, Work'[k].kind = "run", Work'[k].segment = Work'[j].segment
          PROVE  Work'[j].run < Work'[k].run
      <4>1. k + 1 \in DOMAIN Work /\ Work'[k] = Work[k + 1] /\ j + 1 < k + 1
        BY <1>9, <3>2, <3>4
      <4>2. QED
        BY <3>1, <3>3, <3>4, <4>1
    <3>5. QED
      BY <3>1, <3>3, <3>4
  <2>3. QED
    BY <2>1, <2>2 DEF WorkInOrder
\* What holds of the requests after the first holds of those left.
<1>19. \A x : \A i \in Nat : \A j \in Nat : OnlyRuns(x, i + 1, j + 1) => OnlyRuns(x, i, j)'
  <2>1. ASSUME NEW x, NEW i \in Nat, NEW j \in Nat, OnlyRuns(x, i + 1, j + 1),
               NEW k \in DOMAIN Work', i <= k /\ k < j /\ Work'[k].segment = x
        PROVE  Work'[k].kind = "run"
    <3>1. k + 1 \in DOMAIN Work /\ i + 1 <= k + 1 /\ k + 1 < j + 1 /\ Work'[k] = Work[k + 1]
      BY <1>9, <2>1
    <3>2. QED
      BY <2>1, <3>1 DEF OnlyRuns
  <2>2. QED
    BY <2>1 DEF OnlyRuns
<1>20. \A x : \A j \in Nat : OnlyRuns(x, 1, j + 1) => OnlyRuns(x, 1, j)'
  <2>1. ASSUME NEW x, NEW j \in Nat, OnlyRuns(x, 1, j + 1) PROVE OnlyRuns(x, 1 + 1, j + 1)
    BY <1>9, <2>1 DEF OnlyRuns
  <2>2. QED
    BY <1>19, <2>1
<1>21. \A x, v : \A j \in Nat : LastIs(x, j + 1, v) =>
         \/ LastIs(x, j, v)'
         \/ /\ request.kind = "configure" /\ s = x /\ request.version = v
            /\ OnlyRuns(x, 1, j)'
  <2>1. ASSUME NEW x, NEW v, NEW j \in Nat, LastIs(x, j + 1, v)
        PROVE  \/ LastIs(x, j, v)'
               \/ /\ request.kind = "configure" /\ s = x /\ request.version = v
                  /\ OnlyRuns(x, 1, j)'
    <3>1. PICK i \in DOMAIN Work :
            /\ i < j + 1 /\ Work[i].kind = "configure" /\ Work[i].segment = x /\ Work[i].version = v
            /\ OnlyRuns(x, i + 1, j + 1)
      BY <2>1 DEF LastIs
    <3>2. CASE i = 1
      <4>1. OnlyRuns(x, 1, j)'
        BY <1>19, <3>1, <3>2
      <4>2. QED
        BY <3>1, <3>2, <4>1
    <3>3. CASE i # 1
      <4>1. i - 1 \in 1..(W - 1) /\ (i - 1) + 1 = i /\ i - 1 < j /\ i - 1 \in DOMAIN Work' /\ i \in Nat
        BY <1>9, <3>1, <3>3
      <4>2. Work'[i - 1] = Work[i]
        BY <1>9, <4>1
      <4>3. OnlyRuns(x, (i - 1) + 1, j)'
        BY <1>19, <3>1, <4>1
      <4>4. QED
        BY <3>1, <4>1, <4>2, <4>3 DEF LastIs
    <3>4. QED
      BY <3>2, <3>3
  <2>2. QED
    BY <2>1
<1>22. RunsConfigured'
  <2>1. ASSUME NEW j \in DOMAIN Work', NEW x, NEW v,
               Work'[j].kind = "run", Work'[j].segment = x, Work'[j].version = v
        PROVE  LastIs(x, j, v)' \/ (OnlyRuns(x, 1, j)' /\ held'[x].version \in {0, v})
    <3>1. j \in Nat /\ j + 1 \in DOMAIN Work /\ Work'[j] = Work[j + 1] /\ x \in Segments /\ 1 < j + 1
      <4>1. j \in Nat /\ j + 1 \in DOMAIN Work /\ Work'[j] = Work[j + 1] /\ 1 < j + 1
        BY <1>9
      <4>2. QED
        BY <1>1, <2>1, <4>1, ElementsAre
    <3>2. CASE LastIs(x, j + 1, v)
      <4>1. \/ LastIs(x, j, v)'
            \/ /\ request.kind = "configure" /\ s = x /\ request.version = v
               /\ OnlyRuns(x, 1, j)'
        BY <1>21, <3>1, <3>2
      <4>2. QED
        BY <4>1
    <3>3. CASE OnlyRuns(x, 1, j + 1) /\ held[x].version \in {0, v}
      <4>1. OnlyRuns(x, 1, j)'
        BY <1>20, <3>1, <3>3
      <4>2. x = s => request.kind = "run"
        BY <1>9, <3>1, <3>3 DEF OnlyRuns
      <4>3. QED
        BY <3>1, <3>3, <4>1, <4>2
    <3>4. QED
      BY <1>4, <2>1, <3>1, <3>2, <3>3 DEF RunsConfigured
  <2>2. QED
    BY <2>1, RunsConfiguredIf
<1>23. ASSUME NEW x \in Segments, RefusalComes(x, old) PROVE RefusalComes(x, old)'
  <2>1. PICK n \in (old + 1)..R :
          /\ n - old \in DOMAIN pending
          /\ pending[n - old].kind = "configure" /\ pending[n - old].segment = x /\ Replies[n].kind = "refused"
    BY <1>7, <1>23 DEF RefusalComes
  <2>2. n \in (old + 1)..(R + more) /\ n \in 1..R
    BY <1>2, <1>10
  <2>3. Replies'[n] = Replies[n]
    BY <1>7, <2>2
  <2>4. QED
    BY <1>7, <2>1, <2>2, <2>3 DEF RefusalComes
<1>24. ASSUME request.kind = "configure", reply.kind = "refused" PROVE RefusalComes(s, old)'
  <2>1. more = 1
    BY <1>24
  <2>2. Same(request, pending[slot[1]]) /\ slot[1] = (R + 1) - old /\ slot[1] \in 1..M
    BY <1>2, <1>10, <1>12, <1>13, <2>1
  <2>3. pending[slot[1]].kind = "configure" /\ pending[slot[1]].segment = s
    BY <1>24, <2>2 DEF Same
  <2>4. R + 1 \in (old + 1)..(R + more) /\ Replies'[R + 1] = reply
    BY <1>2, <1>7, <1>10, <1>13, <2>1
  <2>5. QED
    BY <1>7, <1>10, <1>24, <2>1, <2>2, <2>3, <2>4 DEF RefusalComes
<1>25. ServerKnows(old)'
  <2>1. ASSUME NEW x \in Segments, configured[x] # 0
        PROVE  \/ LastIs(x, W, configured[x])'
               \/ /\ OnlyRuns(x, 1, W)'
                  /\ held'[x].version = configured[x] \/ (held'[x].version = 0 /\ RefusalComes(x, old)')
    <3>1. PICK v : v = configured[x]
      OBVIOUS
    <3>2. CASE LastIs(x, W + 1, v)
      <4>1. \/ LastIs(x, W, v)'
            \/ /\ request.kind = "configure" /\ s = x /\ request.version = v
               /\ OnlyRuns(x, 1, W)'
        BY <1>9, <1>21, <3>2
      <4>2. CASE LastIs(x, W, v)'
        BY <3>1, <4>2
      <4>3. CASE request.kind = "configure" /\ s = x /\ request.version = v /\ OnlyRuns(x, 1, W)'
        BY <1>24, <3>1, <4>3
      <4>4. QED
        BY <4>1, <4>2, <4>3
    <3>3. CASE /\ OnlyRuns(x, 1, W + 1)
               /\ held[x].version = v \/ (held[x].version = 0 /\ RefusalComes(x, old))
      <4>1. OnlyRuns(x, 1, W)'
        BY <1>9, <1>20, <3>3
      <4>2. x = s => request.kind = "run"
        <5>1. 1 < W + 1
          BY <1>9
        <5>2. QED
          BY <1>9, <3>3, <5>1 DEF OnlyRuns
      <4>3. QED
        BY <1>23, <3>1, <3>3, <4>1, <4>2
    <3>4. QED
      BY <1>4, <1>6, <2>1, <3>1, <3>2, <3>3 DEF ServerKnows
  <2>2. Len(Work') + 1 = W
    BY <1>9
  <2>3. QED
    BY <2>1, <2>2 DEF ServerKnows
<1>26. (\E any : WorkKnown(old, any))'
  BY <1>16, <1>18, <1>22, <1>25 DEF WorkKnown
<1>27. QED
  BY <1>2, <1>5, <1>14, <1>26 DEF PortInv, PortKnown

LEMMA ComputeStep ==
  ASSUME PortInv, P!Compute
  PROVE  PortInv'
<1>1. PortTypeOK /\ OnePort /\ PendingSent
  BY DEF PortInv, PortKnown
<1>2. PICK request : request = Head(parsed)
  OBVIOUS
<1>3. PICK s : s = request.segment
  OBVIOUS
<1>4. /\ up # 0 /\ parsed # <<>> /\ parsed' = Tail(parsed)
      /\ UNCHANGED <<version, queue, answers, port, configured, pending, opened, inbox, up, input>>
  BY DEF P!Compute, P!pipelineVars, P!serverVars
<1>5. request = Work[1] /\ 1 \in DOMAIN Work /\ request \in PortRequest /\ s \in Segments /\ parsed' \in Seq(PortRequest)
  BY <1>1, <1>2, <1>3, <1>4, RequestTaken
<1>6. /\ held \in [Segments -> [version : Nat, carried : SUBSET (Nat \ {0})]]
      /\ computed \in Seq(Message) /\ inbox \in Seq(Message) /\ up \in Nat \ {0} /\ request.version \in Nat
  BY <1>1, <1>4, <1>5 DEF PortTypeOK, PortRequest
<1>7. \A h \in [version : Nat, carried : SUBSET (Nat \ {0})] :
        /\ [held EXCEPT ![s] = h] \in [Segments -> [version : Nat, carried : SUBSET (Nat \ {0})]]
        /\ [held EXCEPT ![s] = h][s] = h
        /\ \A x \in Segments : x # s => [held EXCEPT ![s] = h][x] = held[x]
  BY <1>5, <1>6
<1>8. P!NotHeld \in [version : Nat, carried : SUBSET (Nat \ {0})] /\ P!NotHeld.version = 0 /\ P!NotHeld.carried = {}
  BY DEF P!NotHeld
<1>9. \A kind \in {"configured", "refused"} :
        /\ P!Plain(kind) \in Message /\ P!Plain(kind).port = up /\ P!Plain(kind).kind = kind
        /\ kind # "exit"
  BY <1>6 DEF P!Plain, Message
\* What is written in the end: one reply more, or none.
<1>10. ASSUME NEW reply \in Message, computed' = Append(computed, reply), reply.port = up, reply.kind # "exit",
              held' \in [Segments -> [version : Nat, carried : SUBSET (Nat \ {0})]]
       PROVE  /\ PortTypeOK' /\ OnePort' /\ Len(Replies') = Len(Replies) + 1
              /\ \A n \in 1..Len(Replies) : Replies'[n] = Replies[n]
              /\ Replies'[Len(Replies) + 1] = reply
  <2>1. computed' \in Seq(Message) /\ \A n \in DOMAIN computed' :
                                          (n \in DOMAIN computed /\ computed'[n] = computed[n]) \/ computed'[n] = reply
    BY <1>6, <1>10, AppendIs
  <2>2. PortTypeOK'
    BY <1>1, <1>4, <1>5, <1>10, <2>1 DEF PortTypeOK
  <2>3. OnePort'
    BY <1>1, <1>4, <1>10, <2>1 DEF OnePort
  <2>4. Replies' = Append(Replies, reply)
    BY <1>4, <1>6, <1>10, AppendLast DEF Replies
  <2>5. Replies \in Seq(Message)
    BY <1>1, WorkIs
  <2>6. QED
    BY <1>10, <2>2, <2>3, <2>4, <2>5, AppendIs
<1>11. CASE request.kind = "configure"
  <2>1. PICK accepted : accepted = (request.version \notin RefusedVersions)
    OBVIOUS
  <2>2. PICK reply : reply = P!Plain(IF accepted THEN "configured" ELSE "refused")
    OBVIOUS
  <2>3. PICK h : h = (IF accepted THEN [version |-> request.version, carried |-> {}] ELSE P!NotHeld)
    OBVIOUS
  <2>4. held' = [held EXCEPT ![s] = h] /\ computed' = Append(computed, reply)
    BY <1>2, <1>3, <1>11, <2>1, <2>2, <2>3 DEF P!Compute
  <2>5. /\ h \in [version : Nat, carried : SUBSET (Nat \ {0})] /\ h.carried = {}
        /\ reply \in Message /\ reply.port = up /\ reply.kind # "exit" /\ reply.kind \in {"configured", "refused"}
        /\ h.version = request.version \/ (h.version = 0 /\ reply.kind = "refused")
    <3>1. CASE accepted
      BY <1>6, <1>9, <2>2, <2>3, <3>1
    <3>2. CASE ~accepted
      BY <1>8, <1>9, <2>2, <2>3, <3>2
    <3>3. QED
      BY <3>1, <3>2
  <2>6. /\ held' \in [Segments -> [version : Nat, carried : SUBSET (Nat \ {0})]]
        /\ held'[s] = h /\ \A x \in Segments : x # s => held'[x] = held[x]
    BY <1>7, <2>4, <2>5
  <2>7. /\ PortTypeOK' /\ OnePort' /\ Len(Replies') = Len(Replies) + 1
        /\ \A n \in 1..Len(Replies) : Replies'[n] = Replies[n]
        /\ Replies'[Len(Replies) + 1] = reply
    BY <1>10, <2>4, <2>5, <2>6
  <2>8. \A asked : Same(request, asked) => Match(reply, asked)
    BY <1>11, <2>5 DEF Same, Match
  <2>9. \A x \in Segments : \A m \in held'[x].carried : m \in held[x].carried /\ held'[x].version = held[x].version
    BY <2>5, <2>6
  <2>10. 1 = (IF request.kind = "release" THEN 0 ELSE 1)
    BY <1>11
  <2>11. \A x \in Segments : x # s \/ request.kind = "run" => held'[x].version = held[x].version
    BY <1>11, <2>6
  <2>12. QED
    BY <1>3, <1>4, <1>5, <2>5, <2>6, <2>7, <2>8, <2>9, <2>10, <2>11, RequestComputed
<1>12. CASE /\ request.kind = "run" /\ held[s].version # 0
            /\ held' = [held EXCEPT ![s].carried = @ \union {request.run}]
            /\ computed' = Append(computed, P!OutputsOf(request))
  <2>1. PICK reply : reply = P!OutputsOf(request)
    OBVIOUS
  <2>2. PICK h : h = [held[s] EXCEPT !.carried = @ \union {request.run}]
    OBVIOUS
  <2>3. held' = [held EXCEPT ![s] = h]
    BY <1>12, <2>2
  <2>4. /\ held[s].version = request.version
        /\ \A m \in held[s].carried : m < request.run /\ Sent(s, m, request.version)
        /\ request.run \in Nat \ {0}
    <3>1. PICK old \in Nat : \E slot : WorkKnown(old, slot)
      BY DEF PortInv
    <3>2. PICK slot : WorkKnown(old, slot)
      BY <3>1
    <3>3. WorkMatches(old, slot) /\ WorkInOrder /\ RunsConfigured
      BY <1>4, <3>2 DEF WorkKnown
    <3>4. QED
      BY <1>1, <1>3, <1>5, <1>12, <3>3, RunIsOwn
  <2>5. held[s] \in [version : Nat, carried : SUBSET (Nat \ {0})]
    BY <1>5, <1>6
  <2>6. /\ h \in [version : Nat, carried : SUBSET (Nat \ {0})] /\ h.version = held[s].version
        /\ h.carried = held[s].carried \union {request.run}
    BY <2>2, <2>4, <2>5
  <2>7. /\ held' \in [Segments -> [version : Nat, carried : SUBSET (Nat \ {0})]]
        /\ held'[s] = h /\ \A x \in Segments : x # s => held'[x] = held[x]
    BY <1>7, <2>3, <2>6
  <2>8. /\ reply.port = up /\ reply.kind = "outputs" /\ reply.segment = s /\ reply.run = request.run
        /\ reply.version = held[s].version /\ reply.carried = held[s].carried
    BY <1>3, <2>1 DEF P!OutputsOf
  <2>9. reply \in Message /\ reply.kind # "exit"
    <3>1. reply = [port |-> up, kind |-> "outputs", segment |-> s, run |-> request.run,
                   version |-> held[s].version, carried |-> held[s].carried]
      BY <1>3, <2>1 DEF P!OutputsOf
    <3>2. reply \in OutputsReply
      BY <1>5, <1>6, <2>4, <2>5, <3>1 DEF OutputsReply
    <3>3. QED
      BY <2>8, <3>2 DEF Message
  <2>10. computed' = Append(computed, reply)
    BY <1>12, <2>1
  <2>11. /\ PortTypeOK' /\ OnePort' /\ Len(Replies') = Len(Replies) + 1
         /\ \A n \in 1..Len(Replies) : Replies'[n] = Replies[n]
         /\ Replies'[Len(Replies) + 1] = reply
    BY <1>10, <2>7, <2>8, <2>9, <2>10
  <2>12. \A asked : Same(request, asked) => Match(reply, asked)
    BY <1>3, <1>12, <2>4, <2>8 DEF Same, Match
  <2>13. \A x \in Segments : \A m \in held'[x].carried :
           \/ m \in held[x].carried /\ held'[x].version = held[x].version
           \/ x = s /\ request.kind = "run" /\ m = request.run /\ held'[x].version = request.version
    BY <1>12, <2>4, <2>6, <2>7
  <2>14. 1 = (IF request.kind = "release" THEN 0 ELSE 1)
    BY <1>12
  <2>15. /\ \A x \in Segments : held'[x].version = held[x].version
         /\ request.kind # "configure"
    BY <1>12, <2>6, <2>7
  <2>16. QED
    BY <1>3, <1>4, <1>5, <2>9, <2>11, <2>12, <2>13, <2>14, <2>15, RequestComputed
<1>13. CASE request.kind = "run" /\ computed' = Append(computed, P!Plain("refused")) /\ UNCHANGED held
  <2>1. PICK reply : reply = P!Plain("refused")
    OBVIOUS
  <2>2. reply \in Message /\ reply.port = up /\ reply.kind = "refused" /\ reply.kind # "exit"
    BY <1>9, <2>1
  <2>3. /\ PortTypeOK' /\ OnePort' /\ Len(Replies') = Len(Replies) + 1
        /\ \A n \in 1..Len(Replies) : Replies'[n] = Replies[n]
        /\ Replies'[Len(Replies) + 1] = reply
    BY <1>6, <1>10, <1>13, <2>1, <2>2
  <2>4. \A asked : Same(request, asked) => Match(reply, asked)
    BY <1>13, <2>2 DEF Same, Match
  <2>5. 1 = (IF request.kind = "release" THEN 0 ELSE 1) /\ request.kind # "configure"
    BY <1>13
  <2>6. /\ \A x \in Segments : held'[x].version = held[x].version
        /\ \A x \in Segments : \A m \in held'[x].carried : m \in held[x].carried /\ held'[x].version = held[x].version
    BY <1>13
  <2>7. QED
    BY <1>3, <1>4, <1>5, <2>2, <2>3, <2>4, <2>5, <2>6, RequestComputed
<1>14. CASE request.kind \notin {"configure", "run"}
  <2>1. held' = [held EXCEPT ![s] = P!NotHeld] /\ computed' = computed
    BY <1>2, <1>3, <1>14 DEF P!Compute
  <2>2. request.kind = "release"
    <3>1. PICK old \in Nat : \E slot : WorkKnown(old, slot)
      BY DEF PortInv
    <3>2. PICK slot : WorkKnown(old, slot)
      BY <3>1
    <3>3. WorkMatches(old, slot)
      BY <1>4, <3>2 DEF WorkKnown
    <3>4. 1 \in 1..Len(Work)
      BY <1>1, <1>5, WorkIs
    <3>5. Work[1].kind # "failed"
      BY <3>3, <3>4 DEF WorkMatches
    <3>6. QED
      BY <1>5, <1>14, <3>5 DEF PortRequest
  <2>3. /\ held' \in [Segments -> [version : Nat, carried : SUBSET (Nat \ {0})]]
        /\ held'[s] = P!NotHeld /\ \A x \in Segments : x # s => held'[x] = held[x]
    BY <1>7, <1>8, <2>1
  <2>4. PortTypeOK' /\ OnePort'
    BY <1>1, <1>4, <1>5, <2>1, <2>3 DEF PortTypeOK, OnePort
  <2>5. Replies' = Replies
    BY <1>4, <2>1 DEF Replies
  <2>6. PICK reply : reply = P!Plain("refused")
    OBVIOUS
  <2>7. reply.kind = "refused" /\ reply.kind # "exit"
    BY <1>9, <2>6
  <2>8. \A asked : Same(request, asked) => Match(reply, asked)
    BY <2>2, <2>7 DEF Same, Match
  <2>9. PICK none : none = 0
    OBVIOUS
  <2>13. /\ Len(Replies') = Len(Replies) + none /\ none \in {0, 1}
         /\ \A n \in 1..Len(Replies) : Replies'[n] = Replies[n]
         /\ none = 1 => Replies'[Len(Replies) + 1] = reply
    BY <1>1, <2>5, <2>9, WorkIs
  <2>10. none = (IF request.kind = "release" THEN 0 ELSE 1) /\ request.kind # "configure" /\ request.kind # "run"
    BY <2>2, <2>9
  <2>11. /\ \A x \in Segments : x # s => held'[x].version = held[x].version
         /\ \A x \in Segments : \A m \in held'[x].carried : m \in held[x].carried /\ held'[x].version = held[x].version
    BY <1>8, <2>3
  <2>12. QED
    BY <1>3, <1>4, <1>5, <2>4, <2>5, <2>7, <2>8, <2>10, <2>11, <2>13, RequestComputed
<1>15. QED
  BY <1>2, <1>3, <1>11, <1>12, <1>13, <1>14 DEF P!Compute

LEMMA PortStart ==
  ASSUME P!PortInit
  PROVE  PortInv
<1>1. \A S : <<>> \in Seq(S)
  OBVIOUS
<1>2. P!NotHeld \in [version : Nat, carried : SUBSET (Nat \ {0})]
  BY DEF P!NotHeld
<1>3. PortTypeOK
  BY <1>1, <1>2 DEF P!PortInit, PortTypeOK
<1>4. OnePort
  BY DEF P!PortInit, OnePort
<1>5. QueueInOrder /\ PendingSent /\ P!AnswersOwnRun
  BY DEF P!PortInit, QueueInOrder, PendingSent, P!AnswersOwnRun
<1>6. Replies = <<>> /\ inbox = <<>> /\ up = 0
  BY DEF P!PortInit, Replies
<1>7. RepliesMatch(0)
  BY <1>6 DEF RepliesMatch
<1>8. \A slot : WorkKnown(0, slot)
  BY <1>6 DEF WorkKnown
<1>9. QED
  BY <1>3, <1>4, <1>5, <1>7, <1>8 DEF PortInv, PortKnown

LEMMA PortStep ==
  ASSUME PortInv, P!PortNext
  PROVE  PortInv'
<1>1. ASSUME NEW s \in Segments, P!SendRun(s) PROVE PortInv'
  BY <1>1, SendRunStep
<1>2. ASSUME NEW s \in Segments, P!Reload(s) \/ P!Exit(s) PROVE PortInv'
  BY <1>2, ReloadStep
<1>3. ASSUME NEW s \in Segments, P!HandleRun(s) PROVE PortInv'
  BY <1>3, HandleRunStep
<1>4. ASSUME NEW s \in Segments, P!ReopenAndRun(s) PROVE PortInv'
  BY <1>4, ReopenAndRunStep
<1>5. ASSUME NEW s \in Segments, P!NoMatcher(s) PROVE PortInv'
  BY <1>5, NoMatcherStep
<1>6. ASSUME NEW s \in Segments, P!CommandRaises(s) PROVE PortInv'
  BY <1>6, CrashStep DEF P!CommandRaises
<1>7. ASSUME NEW s \in Segments, P!OwnerDown(s) PROVE PortInv'
  BY <1>7, OwnerDownStep
<1>8. ASSUME P!HandleReply PROVE PortInv'
  BY <1>8, HandleReplyStep
<1>9. ASSUME P!HandleExit PROVE PortInv'
  BY <1>9, HandleExitStep
<1>10. ASSUME P!Ignore PROVE PortInv'
  BY <1>10, IgnoreStep
<1>11. ASSUME P!Deadline PROVE PortInv'
  BY <1>11, DeadlineStep
<1>12. ASSUME P!ReadRequest PROVE PortInv'
  BY <1>12, ReadRequestStep
<1>13. ASSUME P!Compute PROVE PortInv'
  BY <1>13, ComputeStep
<1>14. ASSUME P!Write PROVE PortInv'
  BY <1>14, WriteStep
<1>15. ASSUME P!PortExits PROVE PortInv'
  BY <1>15, PortExitsStep
<1>16. QED
  BY <1>1, <1>2, <1>3, <1>4, <1>5, <1>6, <1>7, <1>8, <1>9, <1>10, <1>11, <1>12, <1>13, <1>14, <1>15
     DEF P!PortNext, P!ServerStep

LEMMA PortIdle ==
  ASSUME PortInv, UNCHANGED P!portVars
  PROVE  PortInv'
<1>1. UNCHANGED <<version, queue, answers, port, configured, pending, opened, inbox, up, input, parsed, computed, held>>
  BY DEF P!portVars, P!pipelineVars, P!serverVars, P!processVars
<1>2. PortTypeOK /\ QueueInOrder /\ P!AnswersOwnRun
  BY DEF PortInv, PortKnown
<1>3. PortTypeOK'
  BY <1>1, <1>2 DEF PortTypeOK
<1>4. QueueInOrder' /\ P!AnswersOwnRun' /\ AnswersKept
  BY <1>1, <1>2 DEF QueueInOrder, Sent, P!AnswersOwnRun, AnswersKept
<1>5. QED
  BY <1>1, <1>3, <1>4, PipelineStep

LEMMA PortGives ==
  ASSUME PortInv
  PROVE  P!AnswersOwnRun /\ P!ConfiguredIsHeld
<1>1. PortTypeOK /\ P!AnswersOwnRun
  BY DEF PortInv, PortKnown
<1>2. ASSUME pending = <<>>, input = <<>>, parsed = <<>>, port # 0, up = port, NEW s \in Segments, configured[s] # 0
      PROVE  held[s].version = configured[s]
  <2>1. PICK old \in Nat : RepliesMatch(old) /\ \E slot : WorkKnown(old, slot)
    BY DEF PortInv
  <2>2. ServerKnows(old)
    BY <1>2, <2>1 DEF WorkKnown
  <2>3. DOMAIN Work = {} /\ DOMAIN pending = {}
    BY <1>2 DEF Work
  <2>4. ~LastIs(s, Len(Work) + 1, configured[s]) /\ ~RefusalComes(s, old)
    BY <2>3 DEF LastIs, RefusalComes
  <2>5. QED
    BY <1>2, <2>2, <2>4 DEF ServerKnows
<1>3. QED
  BY <1>1, <1>2 DEF P!ConfiguredIsHeld

-----------------------------------------------------------------------------
(***************************************************************************)
(* The programs together                                                   *)
(***************************************************************************)

VisionIInv == DetectorInv /\ PairsInv /\ LibInv /\ PortInv

LEMMA VisionStart ==
  ASSUME Init
  PROVE  VisionIInv
  BY DetectorStart, PairsStart, LibStart, PortStart DEF Init, VisionIInv

\* Each step is of one part, and the others keep what they have.
LEMMA VisionStep ==
  ASSUME VisionIInv, [Next]_allVars
  PROVE  VisionIInv'
<1>1. UNCHANGED portOnly => UNCHANGED P!portVars
  BY DEF portOnly, P!portVars, P!pipelineVars, P!serverVars, P!processVars
<1>2. /\ UNCHANGED portOnly => PortInv'
      /\ UNCHANGED detectorOnly => DetectorInv'
      /\ UNCHANGED pairsOnly => PairsInv'
      /\ UNCHANGED libOnly => LibInv'
  BY <1>1, PortIdle, DetectorIdle, PairsIdle, LibIdle DEF VisionIInv
<1>3. CASE Compute
  BY <1>2, <1>3 DEF Compute, VisionIInv
<1>4. CASE PortPart(P!PortNext)
  BY <1>2, <1>4, PortStep DEF PortPart, VisionIInv
<1>5. CASE DetectorPart(D!DetectorNext)
  BY <1>2, <1>5, DetectorStep DEF DetectorPart, VisionIInv
<1>6. CASE LockPart(L!Frame)
  BY <1>2, <1>6 DEF LockPart, VisionIInv
<1>7. CASE PairsPart(C!CaptureNext)
  BY <1>2, <1>7, PairsStep DEF PairsPart, VisionIInv
<1>8. CASE LibPart(B!LibNext)
  BY <1>2, <1>8, LibStep DEF LibPart, VisionIInv
<1>9. CASE StartPart("v4l2", V4l2!StartNext)
  BY <1>2, <1>9 DEF StartPart, VisionIInv
<1>10. CASE StartPart("camera", Camera!StartNext)
  BY <1>2, <1>10 DEF StartPart, VisionIInv
<1>11. CASE UNCHANGED allVars
  BY <1>2, <1>11 DEF allVars, VisionIInv
<1>12. QED
  BY <1>3, <1>4, <1>5, <1>6, <1>7, <1>8, <1>9, <1>10, <1>11 DEF Next

LEMMA VisionHolds == Spec => []VisionIInv
<1>1. Init => VisionIInv
  BY VisionStart
<1>2. VisionIInv /\ [Next]_allVars => VisionIInv'
  BY VisionStep
<1>3. QED
  BY <1>1, <1>2, PTL DEF Spec

\* Detections passed on for a frame were made in that frame, for any number
\* of frames and of processes given up.
THEOREM DetectionsAreOfTheirFrame == Spec => []DetectionsOfFrame
<1>1. VisionIInv => DetectionsOfFrame
  BY DEF VisionIInv, DetectorInv, DetectionsOfFrame
<1>2. QED
  BY <1>1, VisionHolds, PTL

\* A pair is of frames that started together and were not overwritten, no
\* buffer or request is lost on the way round, and the last control sent is
\* the one in force, for any number of buffers, requests and frames.
THEOREM CapturesStayTrue == Spec => []CapturesAreTrue
<1>1. VisionIInv => CapturesAreTrue
  BY DEF VisionIInv, PairsInv, LibInv, CapturesAreTrue
<1>2. QED
  BY <1>1, VisionHolds, PTL

\* What a pipeline is given was computed from its own run in its own
\* configuration, for any number of segments, runs, calibrations and Ports.
THEOREM EachRunHasItsAnswer == Spec => []AnswersOwnRun
<1>1. VisionIInv => AnswersOwnRun
  BY PortGives DEF VisionIInv, AnswersOwnRun
<1>2. QED
  BY <1>1, VisionHolds, PTL
=============================================================================
