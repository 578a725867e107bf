------------------------------ MODULE CaptureData ------------------------------
(***************************************************************************)
(* What the capture programs and jpeg_codec make of their images, settings *)
(* and requests: bayer.rs, exposure.rs, sensor.rs, settings.rs and         *)
(* arguments.rs of v4l2_capture, grey.rs, controls.rs, arguments.rs and    *)
(* capture.rs of camera_capture, main.rs of jpeg_codec.                    *)
(*                                                                         *)
(* An image is its bytes or samples in order.  A text that is not a number *)
(* is NotANumber; the gamma is 1.                                          *)
(***************************************************************************)
EXTENDS Integers, Sequences, SequencesExt, FiniteSets, FiniteSetsExt

CONSTANT NotANumber

Nearest(numerator, denominator) == (2 * numerator + denominator) \div (2 * denominator)
Limited(v, low, high) == Max({low, Min({v, high})})

-----------------------------------------------------------------------------
(* v4l2_capture                                                            *)

WhiteLevel == 1023

\* The grey of a raw sample.
Tone(blackLevel, sample) ==
  Nearest(255 * Max({0, Min({sample, WhiteLevel}) - blackLevel}), WhiteLevel - Min({blackLevel, WhiteLevel - 1}))

\* A grey pixel for each square of four samples, turned by half a turn if
\* asked.  The rows start `stride` samples apart.
GreyHalf(raw, width, height, stride, blackLevel, rotated) ==
  LET columns == width \div 2
      pixel(n) ==
        LET top == 2 * (n \div columns) * stride + 2 * (n % columns) + 1
            sum == raw[top] + raw[top + 1] + raw[top + stride] + raw[top + stride + 1]
        IN  Tone(blackLevel, sum \div 4)
      grey == [n \in 1..(columns * (height \div 2)) |-> pixel(n - 1)]
  IN  IF rotated THEN Reverse(grey) ELSE grey

\* The sum and the number of every `stride`-th pixel.
Mean(image, stride) ==
  LET sampled == {i \in DOMAIN image : (i - 1) % Max({stride, 1}) = 0}
  IN  <<MapThenSumSet(LAMBDA i : image[i], sampled), Cardinality(sampled)>>

\* The sensor's code of a gain <<n, d>>, and the gain of a code.
GainCode(gain, low, high) == Limited(Nearest(1024 * (gain[1] - gain[2]), gain[1]), low, high)
GainOf(code) == <<1024, 1024 - code>>

\* The settings, their ranges and what they start as.  A gain, a brightness
\* and the gamma are in hundredths, and 1 is also "true", 0 "false".
Ranges == [
  exposure_us |-> 100..1000000, analogue_gain |-> 100..1600, target_brightness |-> 100..25400,
  max_exposure_us |-> 100..1000000, max_gain |-> 100..1600, black_level |-> 0..1022,
  gamma |-> 50..400, focus |-> 0..1023]

DefaultSettings == [
  rotation |-> 0, auto_exposure |-> TRUE, exposure_us |-> 8000, analogue_gain |-> 200,
  target_brightness |-> 11000, max_exposure_us |-> 20000, max_gain |-> 1600, black_level |-> 64,
  gamma |-> 220, focus |-> 428]

\* Whether a setting may be set to a value, and what it then is.
Takes(name, value) ==
  CASE name = "rotation" -> value \in {0, 180}
    [] name = "auto_exposure" -> value \in {0, 1}
    [] name \in DOMAIN Ranges -> value # NotANumber /\ value \in Ranges[name]
    [] OTHER -> FALSE

SetTo(settings, name, value) ==
  [settings EXCEPT ![name] = IF name = "auto_exposure" THEN value = 1 ELSE value]

\* A record from the host, <<name, value>>, or <<text>> without a "=".
ApplySetting(settings, record) ==
  IF Len(record) = 2 /\ Takes(record[1], record[2]) THEN SetTo(settings, record[1], record[2]) ELSE settings

Required == {"width", "height", "fps", "left_video", "left_sensor", "right_video", "right_sensor"}

\* The command line, as <<flag, value>> pairs, the value of the last one
\* perhaps missing; a flag is its name without the dashes.
ParseCommandLine(arguments) ==
  LET take(parsed, argument) ==
        IF ~parsed.ok \/ Len(argument) < 2 THEN [parsed EXCEPT !.ok = FALSE]
        ELSE LET name == argument[1]
                 value == argument[2]
             IN  CASE name \in {"width", "height", "fps"} ->
                        [parsed EXCEPT !.ok = value # NotANumber, !.given = @ \union {name}]
                   [] name \in Required -> [parsed EXCEPT !.given = @ \union {name}]
                   [] OTHER -> IF Takes(name, value) THEN [parsed EXCEPT !.settings = SetTo(@, name, value)]
                               ELSE [parsed EXCEPT !.ok = FALSE]
      parsed == FoldLeft(take, [ok |-> TRUE, given |-> {}, settings |-> DefaultSettings], arguments)
  IN  [ok |-> parsed.ok /\ parsed.given = Required, settings |-> parsed.settings]

-----------------------------------------------------------------------------
(* camera_capture                                                          *)

\* The bytes of a luma plane that are read.
LumaLength(width, height, stride) == IF height = 0 THEN 0 ELSE stride * (height - 1) + width

\* The luma without the padding of its rows.
PackLuma(luma, width, height, stride) ==
  IF stride = width THEN SubSeq(luma, 1, width * height)
  ELSE FlattenSeq([y \in 1..height |-> SubSeq(luma, stride * (y - 1) + 1, stride * (y - 1) + width)])

\* The mapping a plane is found in, as <<where it is, maps>>: one for each
\* descriptor, of the whole buffer, whose size is 0 when it is not known.
MapPlane(maps, plane, sizes) ==
  LET total == IF sizes[plane.fd] > 0 THEN sizes[plane.fd] ELSE plane.offset + plane.length
  IN  <<[fd |-> plane.fd, at |-> plane.offset],
        IF plane.fd \in DOMAIN maps THEN maps ELSE [fd \in {plane.fd} |-> total] @@ maps>>

\* The three planes of a frame, of a buffer with each or with all in one.
YuvView(planes, height, stride, sizes) ==
  LET none == [fd \in {} |-> 0]
      lumaSize == stride * height
      chromaSize == (stride \div 2) * (height \div 2)
      y == MapPlane(none, IF Len(planes) >= 3 THEN planes[1]
                          ELSE [planes[1] EXCEPT !.length = lumaSize + 2 * chromaSize], sizes)
      u == MapPlane(y[2], planes[2], sizes)
      v == MapPlane(u[2], planes[3], sizes)
      after(bytes) == [y[1] EXCEPT !.at = @ + bytes]
  IN  IF Len(planes) >= 3 THEN [planes |-> <<y[1], u[1], v[1]>>, maps |-> v[2]]
      ELSE [planes |-> <<y[1], after(lumaSize), after(lumaSize + chromaSize)>>, maps |-> y[2]]

\* The scalar controls of a camera by their names, of the lowest id.
ControlTable(ids) ==
  LET scalar == {id \in DOMAIN ids : ~ids[id].array /\ ids[id].kind \in {"bool", "int32", "int64", "float"}}
  IN  [name \in {ids[id].name : id \in scalar} |->
         LET id == Min({i \in scalar : ids[i].name = name}) IN [id |-> id, kind |-> ids[id].kind]]

\* Whether a number fits a control; an integer fits a float.
Fits(value, kind, int32) ==
  CASE kind = "bool" -> value.integer /\ value.number \in {0, 1}
    [] kind = "int32" -> value.integer /\ value.number \in int32
    [] kind = "int64" -> value.integer
    [] kind = "float" -> TRUE

\* The control a command <<name, value>> sets, none for one not understood.
ResolveControl(command, table, int32) ==
  IF Len(command) = 2 /\ command[1] \in DOMAIN table /\ command[2] # NotANumber
       /\ Fits(command[2], table[command[1]].kind, int32)
    THEN {[id |-> table[command[1]].id, value |-> command[2].number]} ELSE {}

\* What a frame's metadata tells of the fields asked for, and its start.
ReadMetadata(list, fields, timestampId) ==
  LET told == {i \in DOMAIN list : list[i].scalar}
      of(id) == {i \in told : list[i].id = id}
      last(id) == list[Max(of(id))].value
  IN  [start |-> IF of(timestampId) = {} THEN -1 ELSE last(timestampId),
       present |-> {f \in DOMAIN fields : fields[f] # timestampId /\ of(fields[f]) # {}},
       values |-> [f \in DOMAIN fields |-> IF of(fields[f]) = {} THEN 0 ELSE last(fields[f])]]

\* Its command line: what is refused, by flag.
CameraTakes(flag, value) ==
  CASE flag \in {"camera", "width", "height", "fps", "rotation"} -> value # NotANumber /\ value >= 0
    [] flag = "sync" -> value \in {"server", "client"}
    [] flag = "exposure-mode" -> value \in {"normal", "short", "long"}
    [] flag = "lens-position" -> value # NotANumber
    [] flag = "sensor-mode" -> value.width > 0 /\ value.height > 0
    [] flag = "format" -> value \in {"jpeg", "grey"}
    [] OTHER -> FALSE

DefaultCamera == [
  camera |-> 0, width |-> 1280, height |-> 720, fps |-> 30, rotation |-> 0, format |-> "jpeg"]

\* The arguments of <<flag, value>> pairs, the last of a flag counting.
ParseCamera(arguments) ==
  IF \A i \in DOMAIN arguments : Len(arguments[i]) = 2 /\ CameraTakes(arguments[i][1], arguments[i][2])
    THEN {FoldLeft(LAMBDA parsed, argument : (argument[1] :> argument[2]) @@ parsed, DefaultCamera, arguments)}
    ELSE {}

-----------------------------------------------------------------------------
(* jpeg_codec                                                              *)

\* The luma of a colour, rounded.
LumaOf(rgb) == (77 * rgb[1] + 150 * rgb[2] + 29 * rgb[3] + 128) \div 256

\* A request is its operation, its sizes and as many bytes as it has.
Encodes(request) ==
  LET image == request.width > 0 /\ request.height > 0
      pixels == request.width * request.height
  IN  CASE request.operation = "encode" ->
             image /\ request.channels \in {1, 3} /\ request.bytes = pixels * request.channels
        [] request.operation = "depth" -> image /\ request.bytes = 2 * pixels
        [] OTHER -> FALSE

\* The 2nd percentile of the measured depths, 0 without any.
NearPercentile(depths) ==
  LET measured == {i \in DOMAIN depths : depths[i] > 0}
      wanted == Max({1, (2 * Cardinality(measured) + 99) \div 100})
      upTo(d) == Cardinality({i \in measured : depths[i] <= d})
  IN  IF measured = {} THEN 0
      ELSE Min({depths[i] : i \in {j \in measured : upTo(depths[j]) >= wanted}})

\* The ends of the colours, from those asked for or the depths.
ColourRange(depths, near, far) ==
  LET nearest == IF near = 0 THEN NearPercentile(depths) ELSE near
      farthest == IF far = 0 THEN 65535 ELSE far
  IN  IF nearest = 0 THEN <<1, 2>> ELSE <<nearest, Max({farthest, Min({nearest + 1, 65535})})>>

\* The place of a depth in the colours, by its inverse: 255 red, near.
ColourIndex(depth, range) ==
  LET near == range[1]
      far == Max({range[2], Min({near + 1, 65535})})
      place == IF depth <= near THEN 0 ELSE IF depth >= far THEN 255
               ELSE Nearest(255 * far * (depth - near), depth * (far - near))
  IN  255 - place
=============================================================================
