------------------------------ MODULE VisionCases ------------------------------
(***************************************************************************)
(* What the computations and records of the vision programs have to be,    *)
(* stated without their steps, on bounded inputs.                          *)
(***************************************************************************)
EXTENDS Stages, Protocol, CaptureData

-----------------------------------------------------------------------------
(* The filters                                                             *)

\* A network leaves the majority of its black and white values in the middle.
MedianSets(side) ==
  IF side = 3 THEN SUBSET (0..8)
  ELSE {{(a * i + b) % 25 : i \in 0..(n - 1)} : a \in {1, 2, 3, 7, 9}, b \in 0..24, n \in 11..14}
MedianCases == UNION {[kind : {"median"}, side : {side}, ones : MedianSets(side)] : side \in {3, 5}}

MedianCorrect(c) ==
  LET count == c.side * c.side
  IN  (count \div 2 \in SortedOut(c.ones, IF c.side = 3 THEN Median9 ELSE Median25))
        <=> 2 * Cardinality(c.ones) > count

\* A filtered pixel is the majority of its window, the edge repeated, and
\* the left-right check's median is the same one.
FilterCases == [kind : {"filter"}, side : {3, 5}, image : [0..2 -> [0..2 -> 0..1]]]

FilterCorrect(c) ==
  LET radius == c.side \div 2
      near(v) == {<<d, Within(v + d, 0, 2)>> : d \in -radius..radius}
      lit(y, x) == {p \in near(y) \X near(x) : c.image[p[1][2]][p[2][2]] = 1}
      majority(y) == [x \in 0..2 |-> IF 2 * Cardinality(lit(y, x)) > c.side * c.side THEN 1 ELSE 0]
  IN  /\ \A y \in 0..2 : MedianRow(c.image, y, c.side) = majority(y)
      /\ c.side = 3 => CheckedMedianRow(c.image) = majority(1)

\* Speckles go and surfaces stay: a pixel kept has its support, in the image
\* and not beyond it, and one dropped has not.
SpeckleCases == [kind : {"speckle"}, image : [0..1 -> [0..2 -> {-1, 1, 3}]], support : 1..2, radius : 1..2]

SpeckleCorrect(c) ==
  LET pixels == (0..1) \X (0..2)
      at(p) == c.image[p[1]][p[2]]
      support(p) == {q \in pixels \ {p} : /\ \A axis \in 1..2 : Apart(p[axis], q[axis]) <= c.radius
                                          /\ at(q) > 0 /\ Apart(at(q), at(p)) <= 1}
      kept == Despeckle(c.image, c.support, 1, c.radius)
  IN  \A p \in pixels :
        kept[p[1]][p[2]] = IF at(p) > 0 /\ Cardinality(support(p)) >= c.support THEN at(p) ELSE -1

\* A lost pixel is held for `hold` pairs and then is unmatched, and a
\* matched one is not carried past its new disparity.
TemporalCases == [kind : {"temporal"}, seen : [1..5 -> {-1, 2, 3, 7}], hold : 0..3, alpha : {2, 10}]
MaxMissed == 4

TemporalCorrect(c) ==
  LET settings == [alpha |-> c.alpha, delta |-> 2, hold |-> c.hold]
      filtered == [n \in 0..5 |-> FoldLeft(LAMBDA carried, d : TemporalFilter(carried, d, settings, MaxMissed),
                                           NewTemporal, [i \in 1..n |-> c.seen[i]])]
      lost(n) == LET matched == {m \in 1..n : c.seen[m] > 0}
                 IN  IF matched = {} THEN c.hold + 1 ELSE n - Max(matched)
  IN  \A n \in 1..5 :
        LET now == filtered[n].previous
            before == filtered[n - 1].previous
        IN  IF c.seen[n] > 0
              THEN (before > 0 => now \in Min({c.seen[n], before})..Max({c.seen[n], before}))
                     /\ (before <= 0 \/ Apart(c.seen[n], before) > 2 => now = c.seen[n])
              ELSE (now > 0) = (lost(n) <= c.hold)

-----------------------------------------------------------------------------
(* Rectification, the measures and the depth                               *)

Identity == [inversePr |-> <<1, 0, 0, 0, 1, 0, 0, 0, 1>>, distortion |-> <<0, 0, 0, 0, 0>>,
             matrix |-> <<1, 0, 0, 0, 1, 0, 0, 0, 1>>]
Pattern(c, height, width) ==
  [y \in 0..(height - 1) |-> [x \in 0..(width - 1) |-> 1 + ((c.a * y + c.b * x + c.a * x * y) % 60)]]
PatternCases(kind) == [kind : {kind}, a : 0..7, b : 0..7, shift : 0..2]

\* A camera that is rectified already has its frames copied, moved by where
\* its centre is and black outside, or averaged when the size is halved.
RectifyCorrect(c) ==
  LET left == Pattern(c, 4, 4)
      right == Pattern([c EXCEPT !.a = c.b, !.b = c.a], 4, 4)
      moved == [Identity EXCEPT !.matrix[3] = c.shift]
      same == RectifyPair(<<NewMap(Identity, 4, 4, 1), NewMap(moved, 4, 4, 1)>>, <<left, right>>)
      half == RectifyRow(NewMap(Identity, 2, 2, 2), left, 1)
  IN  /\ same[1] = left
      /\ same[2] = [y \in 0..3 |-> [x \in 0..3 |-> IF x + c.shift <= 3 THEN right[y][x + c.shift] ELSE 0]]
      /\ \A x \in 0..1 :
           half[x] = (left[2][2 * x] + left[2][2 * x + 1] + left[3][2 * x] + left[3][2 * x + 1] + 2) \div 4

\* The rows agree best at the offset the right image is moved by, and the
\* sharpness, its energy times its pairs over its grey squared, is that of
\* the image twice as bright.
MeasuresCorrect(c) ==
  LET left == Pattern(c, 4, 6)
      right == [y \in 0..3 |-> [x \in 0..5 |-> left[Max({y - c.shift, 0})][Min({x + 1, 5})]]]
      disparity == [y \in 0..3 |-> [x \in 0..5 |-> IF x = 0 THEN -1 ELSE 1]]
      rows == AlignmentSums(left, right, disparity, 2, 2, 4)
      bright == [y \in 0..3 |-> [x \in 0..5 |-> 2 * left[y][x]]]
      once == SharpnessPlanes(left)
      twice == SharpnessPlanes(bright)
  IN  /\ \A band \in 0..1 : rows[band][2 + c.shift] = 0 /\ rows[band][5] = IF band = 0 THEN 2 ELSE 3
      /\ once[3] = 20 /\ twice[3] = once[3] /\ twice[1] = 4 * once[1] /\ twice[2] = 2 * once[2]

\* Between equal disparities nothing has changed, and the change does not
\* depend on which came first.
QualityCases == [kind : {"quality"}, first : [0..1 -> [0..1 -> {-1, 1, 4}]],
                 second : [0..1 -> [0..1 -> {-1, 1, 4}]]]
QualityCorrect(c) ==
  LET one == QualitySums(c.first, c.second)
      other == QualitySums(c.second, c.first)
  IN  /\ one[4] = other[4] /\ one[5] = other[5] /\ one[4] <= Min({one[1], other[1]})
      /\ c.first = c.second => one[5] = 0 /\ one[4] = one[1]
      /\ one[2] * one[2] <= one[1] * one[3]

\* A depth is within half a millimetre of what it stands for and is 0 where
\* it cannot be told; the cloud has the points within the depths.
DepthCases == [kind : {"depth"}, disparity : -1..40, focalBaseline : {1, 700, 65535, 65536, 900000, 2621400}]
DepthCorrect(c) ==
  LET z == DepthOf(c.disparity, c.focalBaseline)
      map == [y \in 0..3 |-> [x \in 0..3 |-> IF x = y THEN z ELSE 0]]
      cloud == Cloud(map, 2, 10, 30000)
  IN  /\ IF c.disparity <= 0 \/ c.focalBaseline > c.disparity * MaxDepth + c.disparity \div 2 THEN z = 0
         ELSE 2 * Apart(z * c.disparity, c.focalBaseline) <= c.disparity
      /\ cloud.kept = IF z > 10 /\ z < 30000 THEN 2 ELSE 0
      /\ \A p \in DOMAIN cloud.points : cloud.points[p] = <<2 * p[2], 2 * p[1], z>>

-----------------------------------------------------------------------------
(* Segments                                                                *)

StageKinds == {"rectification", "disparity", "median_filter", "depth", "point_cloud", "quality"}
Frames == [left_frame |-> "frame", right_frame |-> "frame"]
Rectified == [left |-> "u8", right |-> "u8"]
SegmentCases ==
  [kind : {"segment"}, stages : UNION {[1..n -> StageKinds] : n \in 1..3}, entries : {Frames, Rectified},
   missing : {"none", "focal_length_px", "one stage"}]

\* A run is refused if and only if a stage lacks an input or a tensor that
\* neither the pair nor an earlier stage has given it; otherwise each tensor
\* a stage fills is returned once, as the last stage that fills it left it.
SegmentCorrect(c) ==
  LET count == Len(c.stages)
      members == [i \in 1..count |-> [kind |-> c.stages[i]]]
      inputs == [i \in 1..(IF c.missing = "one stage" THEN count - 1 ELSE count) |->
                   InputsOf(c.stages[i]) \ {c.missing}]
      run == RunSegment(members, inputs, c.entries)
      last(name, i) == Max({0} \union {j \in 1..(i - 1) : name \in DOMAIN Inserts(c.stages[j])})
      given(name, i) == IF last(name, i) # 0 THEN Inserts(c.stages[last(name, i)])[name]
                        ELSE IF name \in DOMAIN c.entries THEN c.entries[name] ELSE "missing"
      fits(i) == /\ \A name \in DOMAIN Needs(c.stages[i]) : given(name, i) = Needs(c.stages[i])[name]
                 /\ c.missing \notin InputsOf(c.stages[i])
  IN  /\ run.ok <=> c.missing # "one stage" /\ \A i \in 1..count : fits(i)
      /\ run.ok => /\ Range(run.filled) = UNION {Range(Outputs(c.stages[i])) : i \in 1..count}
                   /\ IsInjective(run.filled)
                   /\ \A name \in Range(run.filled) : run.tensors[name] = given(name, count + 1)

\* A configuration is taken with each stage's settings, all of them and no
\* other, each one it allows.
Size2 == [width |-> 2, height |-> 3, frameWidth |-> 3, frameHeight |-> 3]
Members ==
  {[kind |-> "median_filter", options |-> ("kernel_size" :> k)] : k \in 2..5}
    \union {[kind |-> "speckle_filter", options |-> ("radius" :> r)] : r \in 0..3}
    \union {[kind |-> k, options |-> [o \in {} |-> 0]] : k \in {"rectification", "depth", "speckle_filter", "unknown"}}
    \union {[kind |-> "depth", options |-> ("radius" :> 1)]}
ConfigureCases == [kind : {"configure"}, members : UNION {[1..n -> Members] : n \in 0..2}, width : 1..4]
ConfigureCorrect(c) ==
  TakesSegment([Size2 EXCEPT !.width = c.width], c.members) <=>
    /\ c.width >= 2
    /\ \A i \in DOMAIN c.members :
         \/ c.members[i] \in {[kind |-> "median_filter", options |-> ("kernel_size" :> k)] : k \in {3, 5}}
         \/ c.members[i] \in {[kind |-> "speckle_filter", options |-> ("radius" :> r)] :
                                r \in 1..(IF c.width < 3 THEN c.width ELSE 3)}
         \/ c.members[i].kind = "depth" /\ DOMAIN c.members[i].options = {}
         \/ c.members[i].kind = "rectification" /\ c.width <= 3

\* One that matches is taken of an image that the matcher can match.
MatcherCases == [kind : {"matcher"}, width : {8, 9, 4096, 4097}, height : 6..7,
                 disparities : {63, 64, 128}, paths : {3, 4, 8}]
MatcherCorrect(c) ==
  LET g == [width |-> c.width, height |-> c.height, frameWidth |-> c.width, frameHeight |-> c.height]
      member == [kind |-> "disparity", options |-> ("num_disparities" :> c.disparities @@ "paths" :> c.paths)]
  IN  TakesSegment(g, <<member>>) <=>
        c.width \in {9, 4096} /\ c.height = 7 /\ c.disparities # 63 /\ c.paths # 4

-----------------------------------------------------------------------------
(* Records                                                                 *)

\* What is read of a stream: the whole records, however it was cut.
StreamCases == [kind : {"stream"}, records : UNION {[1..n -> {<<>>, <<7>>, <<0, 1, 2>>}] : n \in 0..3}, cut : 0..20]
StreamCorrect(c) ==
  LET parts(record) == IF Len(record) = 3 THEN <<SubSeq(record, 1, 1), SubSeq(record, 2, 3)>> ELSE <<record>>
      all == FlattenSeq([i \in DOMAIN c.records |-> WriteRecord(parts(c.records[i]))])
      stream == SubSeq(all, 1, Min({c.cut, Len(all)}))
      read[n \in 0..3] == IF n = 0 THEN [records |-> <<>>, rest |-> stream, ok |-> TRUE]
                          ELSE LET before == read[n - 1]
                                   next == ReadRecord(before.rest)
                               IN  IF before.ok /\ next.ok
                                     THEN [records |-> Append(before.records, next.record), rest |-> next.rest, ok |-> TRUE]
                                     ELSE [before EXCEPT !.ok = FALSE]
      whole == {n \in 0..Len(c.records) :
                  MapThenSumSet(LAMBDA i : 4 + Len(c.records[i]), 1..n) <= Len(stream)}
  IN  read[3].records = SubSeq(c.records, 1, Max(whole))

\* What a capture writes the server reads, and a record cut short or too
\* long by a byte it does not take for a frame.
RecordCases == [kind : {"record"}, tag : {"frame", "grey", "pair", "metadata", "log"}, width : 1..3, height : 1..2,
                ns : {0, 258, 70000}, present : {0, 5, 130, 255}]
RecordCorrect(c) ==
  LET pixels == [i \in 1..(c.width * c.height) |-> (7 * i) % 256]
      bits == {i \in 0..7 : (c.present \div 2^i) % 2 = 1}
      values == [i \in 1..8 |-> [b \in 1..8 |-> i * b]]
      read(record) == ParseRecord(record)
      frame(read_, ns) == read_.width = c.width /\ read_.height = c.height /\ read_.ns = ns
      fails(record) == \A other \in {SubSeq(record, 1, Len(record) - 1), Append(record, 0)} :
                         ParseRecord(other).kind = "malformed"
  IN  CASE c.tag = "frame" ->
             LET record == FrameRecord(c.width, c.height, c.ns, pixels)
             IN  read(record).kind = "frame" /\ frame(read(record), c.ns) /\ read(record).jpeg = pixels /\ fails(record)
        [] c.tag = "grey" ->
             LET record == GreyFrameRecord(c.width, c.height, c.ns, pixels)
             IN  read(record).kind = "grey" /\ frame(read(record), c.ns) /\ read(record).grey = pixels /\ fails(record)
        [] c.tag = "pair" ->
             LET record == PairRecord(c.width, c.height, c.ns, c.ns + 1, pixels, Reverse(pixels))
             IN  /\ read(record).kind = "pair" /\ read(record).leftNs = c.ns /\ read(record).rightNs = c.ns + 1
                 /\ read(record).left = pixels /\ read(record).right = Reverse(pixels) /\ fails(record)
        [] c.tag = "metadata" ->
             LET record == MetadataRecord(c.ns, c.present, values)
             IN  /\ read(record).kind = "metadata" /\ read(record).ns = c.ns
                 /\ read(record).values = [i \in bits |-> values[i + 1]] /\ fails(record)
        [] c.tag = "log" -> read(LogRecord(1, pixels)) = [kind |-> "log", level |-> 1, message |-> pixels]

\* A segment's requests are read as they were sent, and neither a part of one
\* nor one with a byte more is taken for a request.
Eight(n) == LittleEndian(n, 8)
RequestCases == [kind : {"request"}, what : {"configure", "run", "release"}, segment : {1, 300}, count : 0..2,
                 values : 0..2, shape : {<<>>, <<2>>, <<2, 1>>}, type : 0..3]
RequestCorrect(c) ==
  LET options == [j \in 1..c.values |-> [name |-> <<100, j>>, value |-> Eight(j)]]
      members == [i \in 1..c.count |-> [kind |-> <<100 + i>>, options |-> options]]
      given == [j \in 1..c.values |-> [name |-> <<50, j>>, value |-> FlattenSeq([k \in 1..j |-> LittleEndian(k, 4)])]]
      inputs == [i \in 1..c.count |-> given]
      elements == FoldLeft(LAMBDA a, b : a * b, ElementBytes(c.type), c.shape)
      tensor == [name |-> <<9>>, type |-> c.type, shape |-> c.shape, elements |-> [e \in 1..elements |-> e]]
      request == CASE c.what = "configure" -> EncodeConfiguration(c.segment, <<640, 400, 641, 401>>, members)
                   [] c.what = "run" -> EncodeRun(c.segment, inputs, <<tensor>>)
                   [] c.what = "release" -> EncodeRelease(c.segment)
      parsed == ParseRequest(request)
      named(list) == [name \in {list[j].name : j \in DOMAIN list} |-> CHOOSE o \in Range(list) : o.name = name]
  IN  /\ parsed.kind = c.what /\ parsed.segment = c.segment
      /\ c.what = "configure" =>
           /\ parsed.geometry = <<640, 400, 641, 401>>
           /\ parsed.members = [i \in 1..c.count |-> [kind |-> members[i].kind, options |-> named(options)]]
      /\ c.what = "run" =>
           /\ parsed.inputs = [i \in 1..c.count |-> named(given)]
           /\ parsed.entries = named(<<tensor>>)
      /\ \A length \in 0..(Len(request) - 1) : ParseRequest(SubSeq(request, 1, length)).kind = "refused"
      /\ ParseRequest(Append(request, 0)).kind = "refused"
      \* and its reply, whose outputs are tensors too
      /\ LET reply == Tail(OutputsRecord(<<3, 70000>>, <<tensor, [tensor EXCEPT !.name = <<8, 8>>]>>))
         IN  /\ Decode(reply).times = <<3, 70000>> /\ Decode(reply).outputs[<<9>>] = tensor
             /\ \A length \in 0..(Len(reply) - 1) : ~Decode(SubSeq(reply, 1, length)).ok

\* A frame is detected in as it was sent, and its detections are read back.
DetectCases == [kind : {"detect"}, sequence : {0, 70000}, width : 0..2, height : 1..2, channels : 1..4, count : 0..3]
DetectCorrect(c) ==
  LET pixels == [i \in 1..(c.width * c.height * c.channels) |-> i]
      request == EncodeDetect(c.sequence, c.width, c.height, c.channels, pixels)
      parsed == ParseDetect(request)
      detections == [i \in 1..c.count |-> [class |-> 255 + i, box |-> [b \in 1..20 |-> b * i]]]
      record == DetectionsRecord(c.sequence, detections)
  IN  /\ parsed.sequence = c.sequence /\ parsed.kind = IF c.channels \in {1, 3} THEN "frame" ELSE "rejected"
      /\ parsed.pixels = pixels /\ parsed.width = c.width
      /\ ParseDetect(Append(request, 0)).kind = "rejected"
      /\ ParseDetections(record) = [ok |-> TRUE, sequence |-> c.sequence, detections |-> detections]

-----------------------------------------------------------------------------

(* Boxes                                                                   *)

\* A frame fills the model's square along its longer side; an even grey
\* stays that grey, and the corners of the frame come back to its corners.
BoxCases == [kind : {"box"}, width : 1..5, height : 1..5, model : {4, 7}, channels : {1, 3}]
BoxCorrect(c) ==
  LET box == LetterboxFor(c.width, c.height, c.model)
      scaled == ScaledSize(c.width, c.height, box.scale)
      size == <<c.width, c.height>>
      even == [y \in 0..(c.height - 1) |-> [x \in 0..(c.width - 1) |-> [k \in 0..2 |-> 9 + 11 * k]]]
      input == LetterboxInto(even, c.width, c.height, c.channels, c.model, box)
      column(x) == x - box.offsetX \in 0..(scaled[1] - 1)
      row(y) == y - box.offsetY \in 0..(scaled[2] - 1)
      first == ToCaller(box, <<box.offsetX, box.offsetY>>)
      last == ToCaller(box, <<box.offsetX + scaled[1], box.offsetY + scaled[2]>>)
  IN  /\ Max({scaled[1], scaled[2]}) = c.model /\ box.offsetX >= 0 /\ box.offsetY >= 0
      /\ \A y, x \in 0..(c.model - 1) :
           input[y][x] = IF ~column(x) \/ ~row(y) THEN [k \in 0..2 |-> PadValue]
                         ELSE [k \in 0..2 |-> IF c.channels = 1 THEN 9 ELSE 31 - 11 * k]
      /\ first = <<0, 0>>
      /\ \A axis \in 1..2 : 2 * Apart(last[axis], size[axis] * box.scale[1]) <= box.scale[2]

\* The decoded boxes are in the frame, scored, and of the classes whose
\* counts the whole output bears out.
NmsCases == [kind : {"nms"}, counts : [1..3 -> 0..2], at : -1..4, score : 1..3, cut : 0..16]
NmsCorrect(c) ==
  LET found(class, k) == <<c.at, c.at - 1 + k, c.at + class, 4, c.score - 1 + k>>
      whole == FlattenSeq([class \in 1..3 |->
                 <<c.counts[class]>> \o FlattenSeq([k \in 1..c.counts[class] |-> found(class, k)])])
      output == SubSeq(whole, 1, Min({c.cut, Len(whole)}))
      box == LetterboxFor(4, 2, 4)
      boxes == DecodeNmsByClass(output, 3, <<4, 2>>, box, 2)
      upTo(class) == MapThenSumSet(LAMBDA k : 1 + 5 * c.counts[k], 1..class)
      kept == {class \in 1..3 : upTo(class) <= Len(output)}
  IN  /\ \A i \in DOMAIN boxes : LET b == boxes[i]
           IN  /\ b.score >= 2 /\ b.class + 1 \in kept
               /\ 0 <= b.from[1] /\ b.from[1] < b.to[1] /\ b.to[1] <= 4 * box.scale[1]
               /\ 0 <= b.from[2] /\ b.from[2] < b.to[2] /\ b.to[2] <= 2 * box.scale[1]
      /\ \A class \in kept, k \in 1..2 :
           k <= c.counts[class] /\ c.score - 1 + k >= 2 /\ c.at \in 0..1 /\ c.at + class > 1 /\ c.at < 3 =>
             \E i \in DOMAIN boxes : boxes[i].class = class - 1 /\ boxes[i].score = c.score - 1 + k

-----------------------------------------------------------------------------
(* The captures' images and settings                                       *)

\* The grey of a raw frame turned by half a turn is the turned grey; each
\* pixel is between the tones of its own four samples, brighter ones are not
\* darker, and what pads a row is not read.
GreyCases == [kind : {"half"}, a : 0..7, b : 0..7, black : {0, 64, 1022}, padding : 0..2]
GreyCorrect(c) ==
  LET stride == 6 + c.padding
      raw == [i \in 1..(4 * stride) |-> LET x == (i - 1) % stride
                                        IN  IF x >= 6 THEN 2000 ELSE (97 * c.a * x + 131 * c.b * ((i - 1) \div stride)) % 1100]
      tight == [i \in 1..24 |-> raw[stride * ((i - 1) \div 6) + ((i - 1) % 6) + 1]]
      grey == GreyHalf(raw, 6, 4, stride, c.black, FALSE)
      turned == GreyHalf(raw, 6, 4, stride, c.black, TRUE)
      samples(y, x) == {raw[stride * (2 * y + i) + 2 * x + j + 1] : i, j \in 0..1}
  IN  /\ grey = GreyHalf(tight, 6, 4, 6, c.black, FALSE) /\ Len(grey) = 6
      /\ \A y \in 0..1, x \in 0..2 :
           LET pixel == grey[3 * y + x + 1]
           IN  /\ pixel \in Tone(c.black, Min(samples(y, x)))..Tone(c.black, Max(samples(y, x)))
               /\ turned[3 * (1 - y) + (2 - x) + 1] = pixel /\ pixel \in 0..255

\* A luma plane is packed from the bytes that are read of it and no other.
LumaCases == [kind : {"luma"}, width : 1..4, height : 0..3, padding : 0..2]
LumaCorrect(c) ==
  LET stride == c.width + c.padding
      luma == [i \in 1..LumaLength(c.width, c.height, stride) |-> IF (i - 1) % stride < c.width THEN i ELSE 0]
  IN  PackLuma(luma, c.width, c.height, stride) = SelectSeq(luma, LAMBDA byte : byte # 0)

\* The planes of a frame lie apart, each within the mapping it is found in,
\* when the buffers are as large as they are said to be.
ViewCases == {c \in [kind : {"view"}, height : {2, 4}, stride : {2, 4}, fds : [1..3 -> 1..3], offset : 0..1] :
                c.fds[1] = 1}
ViewCorrect(c) ==
  LET lengths == <<c.stride * c.height, (c.stride \div 2) * (c.height \div 2), (c.stride \div 2) * (c.height \div 2)>>
      before(k) == {j \in 1..(k - 1) : c.fds[j] = c.fds[k]}
      plane(k) == [fd |-> c.fds[k], length |-> lengths[k],
                   offset |-> c.offset + MapThenSumSet(LAMBDA j : lengths[j], before(k))]
      sizes == [fd \in 1..3 |-> c.offset + MapThenSumSet(LAMBDA j : lengths[j], {j \in 1..3 : c.fds[j] = fd})]
      oneBuffer == c.fds = [k \in 1..3 |-> 1]
      apart(view) == \A j, k \in 1..3 :
        LET one == view.planes[j]
            other == view.planes[k]
        IN  /\ one.at + lengths[j] <= view.maps[one.fd]
            /\ j # k /\ one.fd = other.fd => one.at + lengths[j] <= other.at \/ other.at + lengths[k] <= one.at
  IN  /\ apart(YuvView(<<plane(1), plane(2), plane(3)>>, c.height, c.stride, sizes))
      /\ oneBuffer => apart(YuvView(<<plane(1)>>, c.height, c.stride, sizes))
                        /\ apart(YuvView(<<plane(1)>>, c.height, c.stride, [fd \in 1..3 |-> 0]))

\* The sensor's code of the gain of a code is that code, whatever the
\* limits, and a higher gain has no lower code.
GainCases == [kind : {"gain"}, code : 0..960, high : {480, 960}]
GainCorrect(c) ==
  /\ GainCode(GainOf(c.code), 0, c.high) = Min({c.code, c.high})
  /\ GainCode(GainOf(c.code), 0, c.high) <= GainCode(GainOf(c.code + 1), 0, c.high)

\* Whatever was sent, each setting is the last value it may have; given on
\* the command line a value that it may not have ends the program instead.
Said == {<<"rotation", 180>>, <<"rotation", 90>>, <<"auto_exposure", 0>>, <<"exposure_us", 99>>,
         <<"exposure_us", 100>>, <<"exposure_us", NotANumber>>, <<"focus", 1023>>, <<"focus", 1024>>,
         <<"focus">>, <<"zoom", 1>>}
SettingsCases == [kind : {"settings"}, said : UNION {[1..n -> Said] : n \in 0..3}, missing : {<<>>, <<"fps">>}]
SettingsCorrect(c) ==
  LET valid == {<<"rotation", 180>>, <<"auto_exposure", 0>>, <<"exposure_us", 100>>, <<"focus", 1023>>}
      told(name) == {i \in DOMAIN c.said : c.said[i] \in valid /\ c.said[i][1] = name}
      got == FoldLeft(ApplySetting, DefaultSettings, c.said)
      given == [i \in 1..(7 - Len(c.missing)) |->
                  <<<<"width", "height", "left_video", "left_sensor", "right_video", "right_sensor", "fps">>[i], 5>>]
      parsed == ParseCommandLine(c.said \o given)
  IN  /\ \A name \in DOMAIN DefaultSettings :
           IF told(name) = {} THEN got[name] = DefaultSettings[name]
           ELSE got[name] = (IF name = "auto_exposure" THEN FALSE ELSE c.said[Max(told(name))][2])
      /\ parsed.ok <=> c.missing = <<>> /\ Range(c.said) \subseteq valid
      /\ parsed.ok => parsed.settings = got

\* A command sets the control of its name that has the lowest id, to a value
\* of its kind; a frame's metadata is of the last of each id.
Controls == [1..3 -> [name : {"gain", "mode"}, kind : {"bool", "int32", "float", "string"}, array : {FALSE}]]
Numbers == [integer : BOOLEAN, number : {0, 1, 9}]
ControlCases == [kind : {"control"}, ids : Controls, name : {"gain", "zoom"}, value : Numbers \union {NotANumber}]
ControlCorrect(c) ==
  LET named == {id \in 1..3 : c.ids[id].name = c.name /\ c.ids[id].kind # "string"}
      got == ResolveControl(<<c.name, c.value>>, ControlTable(c.ids), {0, 1})
      fits(kind) == /\ kind = "bool" => c.value.integer /\ c.value.number # 9
                    /\ kind = "int32" => c.value.integer /\ c.value.number # 9
  IN  IF named = {} \/ c.value = NotANumber \/ ~fits(c.ids[Min(named)].kind) THEN got = {}
      ELSE got = {[id |-> Min(named), value |-> c.value.number]}

Told == UNION {[1..n -> [id : 1..3, value : {5, 6}, scalar : BOOLEAN]] : n \in 0..3}
MetadataCases == [kind : {"told"}, list : Told]
MetadataCorrect(c) ==
  LET got == ReadMetadata(c.list, [gain |-> 1, mode |-> 2, sensor |-> 3], 3)
      scalar == SelectSeq(c.list, LAMBDA told : told.scalar)
      of(id) == {i \in DOMAIN scalar : scalar[i].id = id}
  IN  /\ got.present = {f \in {"gain", "mode"} : of(IF f = "gain" THEN 1 ELSE 2) # {}}
      /\ got.start = IF of(3) = {} THEN -1 ELSE scalar[Max(of(3))].value
      /\ "gain" \in got.present => got.values.gain = scalar[Max(of(1))].value

\* The colours of a depth image: nearer is never further along, the ends are
\* the ends, and at most the fiftieth part is nearer than the near end.
ColourCases == [kind : {"colour"}, depths : [1..4 -> {0, 1, 700, 900}], near : {0, 1, 500, 65535}, far : {0, 1, 900}]
ColourCorrect(c) ==
  LET range == ColourRange(c.depths, c.near, c.far)
      at(d) == ColourIndex(d, range)
      measured == {i \in 1..4 : c.depths[i] > 0}
  IN  /\ range[1] > 0 /\ range[2] >= range[1] /\ at(range[1]) = 255
      /\ range[2] <= 1000 =>
           /\ at(range[2]) = 0
           /\ \A d, e \in {1, 2, 499, 500, 700, 900, 1000} : at(d) \in 0..255 /\ (d < e => at(d) >= at(e))
      /\ c.near = 0 /\ measured # {} =>
           50 * Cardinality({i \in measured : c.depths[i] < range[1]}) <= Cardinality(measured)

\* An image of the wrong number of bytes is not encoded; the grey of a
\* colour is between its channels.
EncodeCases == [kind : {"encode"}, operation : {"encode", "depth", "decode_other"}, width : 0..2, height : 0..2,
                channels : 0..4, bytes : 0..12]
EncodeCorrect(c) ==
  LET deep == IF c.operation = "depth" THEN 2 ELSE c.channels
  IN  /\ Encodes(c) => c.bytes = c.width * c.height * deep /\ c.bytes > 0
      /\ c.operation = "encode" /\ c.channels = 3 /\ c.bytes = 3 * c.width * c.height /\ c.bytes > 0 => Encodes(c)
      /\ LumaOf(<<20 * c.channels, 7 * c.bytes, 50>>) \in
           Min({20 * c.channels, 7 * c.bytes, 50})..Max({20 * c.channels, 7 * c.bytes, 50})

-----------------------------------------------------------------------------
(* All of them                                                             *)

Case(case) ==
  \/ \E c \in MedianCases : case = c
  \/ \E c \in FilterCases : case = c
  \/ \E c \in SpeckleCases : case = c
  \/ \E c \in TemporalCases : case = c
  \/ \E c \in QualityCases : case = c
  \/ \E c \in DepthCases : case = c
  \/ \E c \in PatternCases("rectify") : case = c
  \/ \E c \in PatternCases("measures") : case = c
  \/ \E c \in SegmentCases : case = c
  \/ \E c \in ConfigureCases : case = c
  \/ \E c \in MatcherCases : case = c
  \/ \E c \in StreamCases : case = c
  \/ \E c \in RecordCases : case = c
  \/ \E c \in RequestCases : case = c
  \/ \E c \in DetectCases : case = c
  \/ \E c \in BoxCases : case = c
  \/ \E c \in NmsCases : case = c
  \/ \E c \in GreyCases : case = c
  \/ \E c \in LumaCases : case = c
  \/ \E c \in ViewCases : case = c
  \/ \E c \in GainCases : case = c
  \/ \E c \in SettingsCases : case = c
  \/ \E c \in ControlCases : case = c
  \/ \E c \in MetadataCases : case = c
  \/ \E c \in ColourCases : case = c
  \/ \E c \in EncodeCases : case = c

ComputationCorrect(c) ==
  CASE c.kind = "none" -> TRUE
    [] c.kind = "median" -> MedianCorrect(c)
    [] c.kind = "filter" -> FilterCorrect(c)
    [] c.kind = "speckle" -> SpeckleCorrect(c)
    [] c.kind = "temporal" -> TemporalCorrect(c)
    [] c.kind = "quality" -> QualityCorrect(c)
    [] c.kind = "depth" -> DepthCorrect(c)
    [] c.kind = "rectify" -> RectifyCorrect(c)
    [] c.kind = "measures" -> MeasuresCorrect(c)
    [] c.kind = "segment" -> SegmentCorrect(c)
    [] c.kind = "configure" -> ConfigureCorrect(c)
    [] c.kind = "matcher" -> MatcherCorrect(c)
    [] c.kind = "stream" -> StreamCorrect(c)
    [] c.kind = "record" -> RecordCorrect(c)
    [] c.kind = "request" -> RequestCorrect(c)
    [] c.kind = "detect" -> DetectCorrect(c)
    [] c.kind = "box" -> BoxCorrect(c)
    [] c.kind = "nms" -> NmsCorrect(c)
    [] c.kind = "half" -> GreyCorrect(c)
    [] c.kind = "luma" -> LumaCorrect(c)
    [] c.kind = "view" -> ViewCorrect(c)
    [] c.kind = "gain" -> GainCorrect(c)
    [] c.kind = "settings" -> SettingsCorrect(c)
    [] c.kind = "control" -> ControlCorrect(c)
    [] c.kind = "told" -> MetadataCorrect(c)
    [] c.kind = "colour" -> ColourCorrect(c)
    [] c.kind = "encode" -> EncodeCorrect(c)
=============================================================================
