------------------------------- MODULE Protocol -------------------------------
(***************************************************************************)
(* The records the vision Ports exchange with their servers, byte by byte  *)
(* because each side is written by hand: framing's lib.rs, stereo_match's  *)
(* protocol.rs and tensor.rs, hailo_detect's protocol.rs, and the Elixir   *)
(* encoders and decoders at the other end.  Also what hailo_detect makes   *)
(* of the frame and the boxes in them.                                     *)
(*                                                                         *)
(* A reader is what is left of a record with the value read last; it reads *)
(* nothing more once it has failed.  Names are bytes, elements and floats  *)
(* their bytes.                                                            *)
(***************************************************************************)
EXTENDS Integers, Sequences, SequencesExt, FiniteSets, FiniteSetsExt

\* The little-endian bytes of a number below 2^31.
LittleEndian(value, size) ==
  [i \in 1..size |-> IF i > 4 THEN 0 ELSE (value \div 256^(i - 1)) % 256]

BigEndian32(value) == Reverse(LittleEndian(value, 4))

NumberOf(bytes) ==
  MapThenSumSet(LAMBDA i : bytes[i] * 256^(i - 1), {i \in DOMAIN bytes : bytes[i] # 0})

-----------------------------------------------------------------------------
(* framing: records with their length before them                          *)

\* The parts of a record are written as one, in as many writes as it takes.
WriteRecord(parts) ==
  LET body == FlattenSeq(parts) IN BigEndian32(Len(body)) \o body

\* The first record of a stream and the rest of it; none at its end or when
\* it is cut.
ReadRecord(stream) ==
  LET length == IF Len(stream) < 4 THEN 0 ELSE NumberOf(Reverse(SubSeq(stream, 1, 4)))
  IN  IF Len(stream) < 4 \/ Len(stream) < 4 + length THEN [ok |-> FALSE, record |-> <<>>, rest |-> <<>>]
      ELSE [ok |-> TRUE, record |-> SubSeq(stream, 5, 4 + length),
            rest |-> SubSeq(stream, 5 + length, Len(stream))]

ImageHeader(tag, width, height, captureNs) ==
  <<tag>> \o LittleEndian(width, 2) \o LittleEndian(height, 2) \o LittleEndian(captureNs, 8)

FrameRecord(width, height, captureNs, jpeg) ==
  ImageHeader(1, width, height, captureNs) \o LittleEndian(Len(jpeg), 4) \o jpeg
GreyFrameRecord(width, height, captureNs, grey) == ImageHeader(5, width, height, captureNs) \o grey
LogRecord(level, message) == <<2, level>> \o message

PairRecord(width, height, leftNs, rightNs, left, right) ==
  <<4>> \o LittleEndian(width, 2) \o LittleEndian(height, 2) \o LittleEndian(leftNs, 8)
    \o LittleEndian(rightNs, 8) \o left \o right

\* `present` tells which of the eight values were reported.
MetadataRecord(captureNs, present, values) ==
  <<3, present>> \o LittleEndian(captureNs, 8) \o FlattenSeq(values)

\* The servers' reading of a record, by its tag and sizes.
ParseRecord(record) ==
  LET field(first, size) == NumberOf(SubSeq(record, first, first + size - 1))
      from(first) == SubSeq(record, first, Len(record))
      tag == IF record = <<>> THEN 0 ELSE record[1]
  IN  CASE tag = 1 /\ Len(record) >= 17 /\ Len(record) = 17 + field(14, 4) ->
             [kind |-> "frame", width |-> field(2, 2), height |-> field(4, 2), ns |-> field(6, 8), jpeg |-> from(18)]
        [] tag = 5 /\ Len(record) >= 13 /\ Len(record) = 13 + field(2, 2) * field(4, 2) ->
             [kind |-> "grey", width |-> field(2, 2), height |-> field(4, 2), ns |-> field(6, 8), grey |-> from(14)]
        [] tag = 4 /\ Len(record) >= 21 /\ Len(record) = 21 + 2 * field(2, 2) * field(4, 2) ->
             LET pixels == field(2, 2) * field(4, 2)
             IN  [kind |-> "pair", width |-> field(2, 2), height |-> field(4, 2),
                  leftNs |-> field(6, 8), rightNs |-> field(14, 8),
                  left |-> SubSeq(record, 22, 21 + pixels), right |-> from(22 + pixels)]
        [] tag = 3 /\ Len(record) = 74 ->
             [kind |-> "metadata", ns |-> field(3, 8),
              values |-> [i \in {i \in 0..7 : (record[2] \div 2^i) % 2 = 1} |->
                            SubSeq(record, 11 + 8 * i, 18 + 8 * i)]]
        [] tag = 2 /\ Len(record) >= 2 -> [kind |-> "log", level |-> record[2], message |-> from(3)]
        [] OTHER -> [kind |-> "malformed"]

-----------------------------------------------------------------------------
(* protocol.rs of stereo_match                                             *)

ReaderOf(bytes) == [ok |-> TRUE, value |-> <<>>, rest |-> bytes]

Take(r, count) ==
  IF ~r.ok \/ count > Len(r.rest) THEN [r EXCEPT !.ok = FALSE]
  ELSE [ok |-> TRUE, value |-> SubSeq(r.rest, 1, count), rest |-> SubSeq(r.rest, count + 1, Len(r.rest))]

\* What is read with `value` made of what `r` read.
With(r, value) == [r EXCEPT !.value = IF r.ok THEN value ELSE <<>>]

Scalar(r, size) == LET taken == Take(r, size) IN With(taken, NumberOf(taken.value))

\* As many items as the number read last says.
Items(r, Item(_)) ==
  FoldLeft(LAMBDA read, i : LET item == Item(read)
                            IN  With(item, Append(read.value, item.value)),
           With(r, <<>>), [i \in 1..(IF r.ok THEN r.value ELSE 0) |-> i])

Name(r) == LET length == Scalar(r, 1) IN Take(length, IF length.ok THEN length.value ELSE 0)

ElementBytes(type) == CASE type = 0 -> 1 [] type = 1 -> 2 [] type \in {2, 3} -> 4 [] OTHER -> 0

TensorOf(r) ==
  LET name == Name(r)
      type == Scalar(name, 1)
      dimensions == Items(Scalar(type, 1), LAMBDA read : Scalar(read, 4))
      known == dimensions.ok /\ ElementBytes(type.value) # 0
      size == IF known THEN FoldLeft(LAMBDA a, b : a * b, ElementBytes(type.value), dimensions.value) ELSE 0
      elements == Take([dimensions EXCEPT !.ok = known], size)
  IN  With(elements, [name |-> name.value, type |-> type.value, shape |-> dimensions.value,
                      elements |-> elements.value])

\* A named value of `size` bytes times its count, or one alone.
Option(r) ==
  LET name == Name(r) IN LET value == Take(name, 8) IN With(value, [name |-> name.value, value |-> value.value])
Input(r) ==
  LET name == Name(r)
      count == Scalar(name, 2)
      values == Take(count, IF count.ok THEN 4 * count.value ELSE 0)
  IN  With(values, [name |-> name.value, value |-> values.value])

Counted(r, Item(_)) == Items(Scalar(r, 1), Item)

\* Named values by their name: the last one of a name counts.
ByName(items) ==
  [name \in {items[i].name : i \in DOMAIN items} |->
     LET last == Max({i \in DOMAIN items : items[i].name = name}) IN items[last]]

Malformed == [kind |-> "refused"]

ParseRequest(bytes) ==
  LET kind == Scalar(ReaderOf(bytes), 1)
      segment == Scalar(kind, 4)
      sizes == Items(With(segment, 4), LAMBDA read : Scalar(read, 2))
      member(r) == LET name == Name(r) IN LET options == Counted(name, Option)
                   IN  With(options, [kind |-> name.value, options |-> ByName(options.value)])
      members == Counted(sizes, member)
      inputs == Counted(segment, LAMBDA r : LET given == Counted(r, Input) IN With(given, ByName(given.value)))
      entries == Counted(inputs, TensorOf)
      whole(r, request) == IF r.ok /\ r.rest = <<>> THEN request ELSE Malformed
  IN  IF ~segment.ok THEN Malformed
      ELSE CASE kind.value = 1 ->
                  whole(members, [kind |-> "configure", segment |-> segment.value, geometry |-> sizes.value,
                                  members |-> members.value])
             [] kind.value = 2 ->
                  whole(entries, [kind |-> "run", segment |-> segment.value, inputs |-> inputs.value,
                                  entries |-> ByName(entries.value)])
             [] kind.value = 3 -> whole(segment, [kind |-> "release", segment |-> segment.value])
             [] OTHER -> Malformed

PushName(name) == <<Len(name)>> \o name
PushTensor(tensor) ==
  PushName(tensor.name) \o <<tensor.type, Len(tensor.shape)>>
    \o FlattenSeq([i \in DOMAIN tensor.shape |-> LittleEndian(tensor.shape[i], 4)]) \o tensor.elements

OutputsRecord(timesUs, outputs) ==
  <<8, Len(timesUs)>> \o FlattenSeq([i \in DOMAIN timesUs |-> LittleEndian(timesUs[i], 4)])
    \o <<Len(outputs)>> \o FlattenSeq([i \in DOMAIN outputs |-> PushTensor(outputs[i])])

-----------------------------------------------------------------------------
(* native_segment.ex and matcher.ex, the other end of it                   *)

EncodeConfiguration(segment, geometry, members) ==
  <<1>> \o LittleEndian(segment, 4)
    \o FlattenSeq([i \in DOMAIN geometry |-> LittleEndian(geometry[i], 2)]) \o <<Len(members)>>
    \o FlattenSeq([i \in DOMAIN members |->
         PushName(members[i].kind) \o <<Len(members[i].options)>>
           \o FlattenSeq([j \in DOMAIN members[i].options |->
                PushName(members[i].options[j].name) \o members[i].options[j].value])])

EncodeRun(segment, inputs, entries) ==
  <<2>> \o LittleEndian(segment, 4) \o <<Len(inputs)>>
    \o FlattenSeq([i \in DOMAIN inputs |-> <<Len(inputs[i])>>
         \o FlattenSeq([j \in DOMAIN inputs[i] |->
              PushName(inputs[i][j].name) \o LittleEndian(Len(inputs[i][j].value) \div 4, 2)
                \o inputs[i][j].value])])
    \o <<Len(entries)>> \o FlattenSeq([i \in DOMAIN entries |-> PushTensor(entries[i])])

EncodeRelease(segment) == <<3>> \o LittleEndian(segment, 4)

\* The reply to a run without its tag, as the segment decodes it.
Decode(reply) ==
  LET times == Counted(ReaderOf(reply), LAMBDA r : Scalar(r, 4))
      outputs == Counted(times, TensorOf)
  IN  IF outputs.ok /\ outputs.rest = <<>>
        THEN [ok |-> TRUE, times |-> times.value, outputs |-> ByName(outputs.value)]
        ELSE [ok |-> FALSE]

-----------------------------------------------------------------------------
(* protocol.rs of hailo_detect and hailo.ex                                *)

\* A record too short to have a sequence to answer is skipped; one whose
\* pixels do not fit is answered with nothing.
ParseDetect(record) ==
  IF Len(record) < 10 \/ record[1] # 1 THEN [kind |-> "skipped"]
  ELSE LET field(first, size) == NumberOf(SubSeq(record, first, first + size - 1))
           pixels == SubSeq(record, 11, Len(record))
           fits == record[10] \in {1, 3} /\ Len(pixels) = field(6, 2) * field(8, 2) * record[10]
       IN  [kind |-> IF fits THEN "frame" ELSE "rejected", sequence |-> field(2, 4),
            width |-> field(6, 2), height |-> field(8, 2), channels |-> record[10], pixels |-> pixels]

EncodeDetect(sequence, width, height, channels, pixels) ==
  <<1>> \o LittleEndian(sequence, 4) \o LittleEndian(width, 2) \o LittleEndian(height, 2)
    \o <<channels>> \o pixels

\* A detection is its class and the bytes of its score and corners.
DetectionsRecord(sequence, detections) ==
  <<1>> \o LittleEndian(sequence, 4) \o LittleEndian(Len(detections), 2)
    \o FlattenSeq([i \in DOMAIN detections |-> LittleEndian(detections[i].class, 2) \o detections[i].box])

\* A reply cut short is taken for the detections it holds.
ParseDetections(record) ==
  IF Len(record) < 7 \/ record[1] # 1 THEN [ok |-> FALSE]
  ELSE LET count == NumberOf(SubSeq(record, 6, 7))
           whole == Min({count, (Len(record) - 7) \div 22})
           at(i) == 8 + 22 * (i - 1)
       IN  [ok |-> TRUE, sequence |-> NumberOf(SubSeq(record, 2, 5)),
            detections |-> [i \in 1..whole |-> [class |-> NumberOf(SubSeq(record, at(i), at(i) + 1)),
                                                box |-> SubSeq(record, at(i) + 2, at(i) + 21)]]]

-----------------------------------------------------------------------------
(***************************************************************************)
(* hailo_detect: a frame letterboxed into the square its model takes       *)
(* (letterbox.rs), and the model's boxes brought back to the frame (nms.rs).*)
(*                                                                         *)
(* The scale is <<n, m>>, n model pixels for m of the frame's.  A corner   *)
(* in the frame is in n-ths of a pixel, and f32 rounding is not modelled.  *)
(***************************************************************************)


PadValue == 114
FloatsPerBox == 5

Bounded(v, low, high) == Max({low, Min({v, high})})
Rounded(numerator, denominator) == (2 * numerator + denominator) \div (2 * denominator)

ScaledSize(width, height, scale) ==
  <<Rounded(width * scale[1], scale[2]), Rounded(height * scale[1], scale[2])>>

LetterboxFor(width, height, model) ==
  LET scale == <<model, Max({width, height})>>
      scaled == ScaledSize(width, height, scale)
  IN  [scale |-> scale, offsetX |-> (model - scaled[1]) \div 2, offsetY |-> (model - scaled[2]) \div 2]

\* The model's input from a frame: the frame resized between pixel centres,
\* grey spread over the three channels and BGR turned into RGB.
LetterboxInto(source, width, height, channels, model, box) ==
  LET n == box.scale[1]
      m == box.scale[2]
      scaled == ScaledSize(width, height, box.scale)
      \* The source position of a scaled pixel, in halves of n-ths.
      position(i) == (2 * i + 1) * m - n
      first(i) == position(i) \div (2 * n)
      weight(i) == position(i) - 2 * n * first(i)
      pixel(row, column, channel) ==
        source[Bounded(row, 0, height - 1)][Bounded(column, 0, width - 1)][channel]
      between(x, row, channel) ==
        pixel(row, first(x), channel) * (2 * n - weight(x)) + pixel(row, first(x) + 1, channel) * weight(x)
      sample(x, y, channel) ==
        Rounded(between(x, first(y), channel) * (2 * n - weight(y))
                  + between(x, first(y) + 1, channel) * weight(y), 4 * n * n)
  IN  [row \in 0..(model - 1) |-> [column \in 0..(model - 1) |-> [channel \in 0..2 |->
         IF row - box.offsetY \in 0..(scaled[2] - 1) /\ column - box.offsetX \in 0..(scaled[1] - 1)
           THEN sample(column - box.offsetX, row - box.offsetY, IF channels = 1 THEN 0 ELSE 2 - channel)
           ELSE PadValue]]]

\* A corner of the padded model input in the frame.
ToCaller(box, corner) ==
  <<(corner[1] - box.offsetX) * box.scale[2], (corner[2] - box.offsetY) * box.scale[2]>>

\* The boxes of one class, those scored and not empty once cut to the frame.
ClassBoxes(output, first, end, class, size, box, threshold) ==
  LET at(k) == SubSeq(output, first + FloatsPerBox * (k - 1), first + FloatsPerBox * k - 1)
      cut(corner) == <<Bounded(corner[1], 0, size[1] * box.scale[1]), Bounded(corner[2], 0, size[2] * box.scale[1])>>
      detection(b) == [class |-> class, score |-> b[5],
                       from |-> cut(ToCaller(box, <<b[2], b[1]>>)), to |-> cut(ToCaller(box, <<b[4], b[3]>>))]
      all == [k \in 1..((end - first) \div FloatsPerBox) |-> detection(at(k))]
  IN  SelectSeq(all, LAMBDA d : d.score >= threshold /\ d.to[1] > d.from[1] /\ d.to[2] > d.from[2])

\* Per class a count and that many boxes, from top, left, bottom, right and
\* score.  A count beyond the output ends the decoding.
DecodeNmsByClass(output, classes, size, box, threshold) ==
  LET decode(state, class) ==
        LET count == IF state.offset <= Len(output) THEN output[state.offset] ELSE 0
            first == state.offset + 1
            end == first + count * FloatsPerBox
        IN  IF state.stopped \/ state.offset > Len(output) \/ end - 1 > Len(output)
              THEN [state EXCEPT !.stopped = TRUE]
              ELSE [stopped |-> FALSE, offset |-> end,
                    boxes |-> state.boxes \o ClassBoxes(output, first, end, class, size, box, threshold)]
  IN  FoldLeft(decode, [stopped |-> FALSE, offset |-> 1, boxes |-> <<>>], [c \in 1..classes |-> c - 1]).boxes
=============================================================================
