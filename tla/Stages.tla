-------------------------------- MODULE Stages --------------------------------
(***************************************************************************)
(* What the stages of stereo_match around the matcher compute of a pair:   *)
(* rectification (rectify.rs), the filters of the disparity (filters.rs),  *)
(* the measures (measures.rs), the depth and the cloud (depth.rs); and how *)
(* a segment runs them one after the other.                                *)
(*                                                                         *)
(* An image is a function of rows of pixels.  A pixel, a disparity or a    *)
(* length is an integer, -1 an unmatched disparity: the rounding of f32 is *)
(* not modelled.                                                           *)
(***************************************************************************)
EXTENDS Integers, FiniteSets, FiniteSetsExt, Sequences, SequencesExt

Unmatched == -1

Height(image) == Cardinality(DOMAIN image)
Width(image) == Cardinality(DOMAIN image[0])
Within(v, low, high) == Max({low, Min({v, high})})
Apart(a, b) == Max({a - b, b - a})
SumOver(f(_), set) == MapThenSumSet(f, set)

-----------------------------------------------------------------------------
(* rectify.rs, for a camera whose projection of a rectified pixel is whole *)

\* The frame's point a rectified pixel is projected from: the rectifying
\* matrix, the distortion and the camera matrix, row-major.
Project(camera, u, v) ==
  LET m == camera.inversePr
      w == m[7] * u + m[8] * v + m[9]
      x == (m[1] * u + m[2] * v + m[3]) \div w
      y == (m[4] * u + m[5] * v + m[6]) \div w
      k == camera.distortion
      r2 == x * x + y * y
      radial == 1 + k[1] * r2 + k[2] * r2 * r2 + k[5] * r2 * r2 * r2
      dx == x * radial + 2 * k[3] * x * y + k[4] * (r2 + 2 * x * x)
      dy == y * radial + k[3] * (r2 + 2 * y * y) + 2 * k[4] * x * y
      c == camera.matrix
  IN  <<c[1] * dx + c[2] * dy + c[3], c[5] * dy + c[6]>>

\* The map of a size, whose pixels are `scale` of the frame's wide: the
\* top-left neighbour and the halves of the right and lower ones.
NewMap(camera, height, width, scale) ==
  LET source(position) == (2 * position + 1) * scale - 1
  IN  [v \in 0..(height - 1) |-> [u \in 0..(width - 1) |->
         LET point == Project(camera, u, v)
             sx == source(point[1])
             sy == source(point[2])
         IN  [column |-> sx \div 2, row |-> sy \div 2, right |-> sx % 2, lower |-> sy % 2]]]

\* Each pixel sampled between four of the frame's, black outside of it.
RectifyRow(map, frame, v) ==
  LET sample(x, y) == IF y \in DOMAIN frame /\ x \in DOMAIN frame[0] THEN frame[y][x] ELSE 0
  IN  [u \in DOMAIN map[v] |->
         LET at == map[v][u]
             between(y) == (2 - at.right) * sample(at.column, y) + at.right * sample(at.column + 1, y)
             value == (2 - at.lower) * between(at.row) + at.lower * between(at.row + 1)
         IN  Within((value + 2) \div 4, 0, 255)]

\* The rows of both images are taken from one queue.
RectifyPair(maps, frames) ==
  LET height == Height(maps[1])
      done == [row \in 0..(2 * height - 1) |->
                 LET side == 1 + row \div height
                 IN  RectifyRow(maps[side], frames[side], row % height)]
  IN  [side \in 1..2 |-> [v \in 0..(height - 1) |-> done[(side - 1) * height + v]]]

-----------------------------------------------------------------------------
(* filters.rs                                                              *)

\* The compare-exchanges that leave the median of 9 values at position 4
\* and of 25 at position 12.
Median9 == <<
  <<1, 2>>, <<4, 5>>, <<7, 8>>, <<0, 1>>, <<3, 4>>, <<6, 7>>, <<1, 2>>, <<4, 5>>, <<7, 8>>,
  <<0, 3>>, <<5, 8>>, <<4, 7>>, <<3, 6>>, <<1, 4>>, <<2, 5>>, <<4, 7>>, <<4, 2>>, <<6, 4>>,
  <<4, 2>> >>

Median25 == <<
  <<0, 1>>, <<3, 4>>, <<2, 4>>, <<2, 3>>, <<6, 7>>, <<5, 7>>, <<5, 6>>, <<9, 10>>, <<8, 10>>,
  <<8, 9>>, <<12, 13>>, <<11, 13>>, <<11, 12>>, <<15, 16>>, <<14, 16>>, <<14, 15>>, <<18, 19>>, <<17, 19>>,
  <<17, 18>>, <<21, 22>>, <<20, 22>>, <<20, 21>>, <<23, 24>>, <<2, 5>>, <<3, 6>>, <<0, 6>>, <<0, 3>>,
  <<4, 7>>, <<1, 7>>, <<1, 4>>, <<11, 14>>, <<8, 14>>, <<8, 11>>, <<12, 15>>, <<9, 15>>, <<9, 12>>,
  <<13, 16>>, <<10, 16>>, <<10, 13>>, <<20, 23>>, <<17, 23>>, <<17, 20>>, <<21, 24>>, <<18, 24>>, <<18, 21>>,
  <<19, 22>>, <<8, 17>>, <<9, 18>>, <<0, 18>>, <<0, 9>>, <<10, 19>>, <<1, 19>>, <<1, 10>>, <<11, 20>>,
  <<2, 20>>, <<2, 11>>, <<12, 21>>, <<3, 21>>, <<3, 12>>, <<13, 22>>, <<4, 22>>, <<4, 13>>, <<14, 23>>,
  <<5, 23>>, <<5, 14>>, <<15, 24>>, <<6, 24>>, <<6, 15>>, <<7, 16>>, <<7, 19>>, <<13, 21>>, <<15, 23>>,
  <<7, 13>>, <<7, 15>>, <<1, 9>>, <<3, 11>>, <<5, 17>>, <<11, 17>>, <<9, 17>>, <<4, 10>>, <<6, 12>>,
  <<7, 14>>, <<4, 6>>, <<4, 7>>, <<12, 14>>, <<10, 14>>, <<6, 7>>, <<10, 12>>, <<6, 10>>, <<6, 17>>,
  <<12, 17>>, <<7, 17>>, <<7, 10>>, <<12, 18>>, <<7, 12>>, <<10, 18>>, <<12, 20>>, <<10, 20>>, <<10, 12>> >>

\* Where the ones are once a network has sorted values that are 0 or 1: a
\* network that sorts these out sorts any values out.
SortedOut(ones, network) ==
  LET after[n \in 0..Len(network)] ==
        IF n = 0 THEN ones
        ELSE LET acc == after[n - 1]
                 pair == network[n]
             IN  IF pair[1] \in acc /\ pair[2] \notin acc
                   THEN (acc \ {pair[1]}) \union {pair[2]} ELSE acc
  IN  after[Len(network)]

\* The columns of a window position for a whole row: shifted, with the edge
\* pixel filled in.
ShiftedRow(source, side, dx) ==
  LET width == Cardinality(DOMAIN source)
      radius == side \div 2
      shift == Min({Apart(dx, radius), width})
  IN  [x \in DOMAIN source |->
         IF dx < radius THEN source[IF x < shift THEN 0 ELSE x - shift]
         ELSE source[IF x < width - shift THEN x + shift ELSE width - 1]]

\* Row y of the median of a black and white image over a window of `side`.
MedianRow(image, y, side) ==
  LET radius == side \div 2
      window == [index \in 0..(side * side - 1) |->
                   ShiftedRow(image[Min({Max({y + index \div side - radius, 0}), Height(image) - 1})],
                              side, index % side)]
      network == IF side = 3 THEN Median9 ELSE Median25
  IN  [x \in DOMAIN image[0] |->
         IF (side * side) \div 2 \in SortedOut({i \in DOMAIN window : window[i][x] = 1}, network)
           THEN 1 ELSE 0]

\* The left-right check's own 3x3 median, of the row above, the row and the
\* row below, each with its edge pixels repeated.
CheckedMedianRow(rows) ==
  LET width == Cardinality(DOMAIN rows[0])
      padded == [r \in 0..2 |-> [i \in 0..(width + 1) |-> rows[r][Within(i - 1, 0, width - 1)]]]
      ones(x) == {n \in 0..8 : padded[n \div 3][x + (n % 3)] = 1}
  IN  [x \in DOMAIN rows[0] |-> IF 4 \in SortedOut(ones(x), Median9) THEN 1 ELSE 0]

\* A matched pixel is kept where enough of its window matched close to it.
Despeckle(disparity, minSupport, maxDifference, radius) ==
  LET padded == [y \in 0..(Height(disparity) + 2 * radius - 1) |->
                   [x \in 0..(Width(disparity) + 2 * radius - 1) |->
                      IF y - radius \in DOMAIN disparity /\ x - radius \in DOMAIN disparity[0]
                        THEN disparity[y - radius][x - radius] ELSE Unmatched]]
      supports(y, x) == {o \in (0..(2 * radius)) \X (0..(2 * radius)) :
                           /\ o # <<radius, radius>>
                           /\ padded[y + o[1]][x + o[2]] > 0
                           /\ Apart(padded[y + o[1]][x + o[2]], disparity[y][x]) <= maxDifference}
  IN  [y \in DOMAIN disparity |-> [x \in DOMAIN disparity[0] |->
         IF disparity[y][x] > 0 /\ Cardinality(supports(y, x)) >= minSupport
           THEN disparity[y][x] ELSE Unmatched]]

\* A pixel of the temporal filter: what it carries from one pair to the
\* next, its last filtered disparity and the pairs since it last matched.
NewTemporal == [previous |-> Unmatched, missed |-> 0]

\* As TemporalFilter, were the pairs missed counted from the one before.
TemporalFilterHoldingLonger(carried, disparity, settings, maxMissed) ==
  LET held == disparity <= 0 /\ carried.previous > 0 /\ carried.missed <= settings.hold
  IN  [previous |-> IF held THEN carried.previous ELSE disparity,
       missed |-> IF disparity > 0 THEN 0 ELSE Min({carried.missed + 1, maxMissed})]

\* The smoothing keeps `alpha` of ten of the new disparity.
TemporalFilter(carried, disparity, settings, maxMissed) ==
  LET matched == disparity > 0
      agrees == matched /\ carried.previous > 0
                  /\ Apart(disparity, carried.previous) <= settings.delta
      smoothed == IF agrees
                    THEN (settings.alpha * disparity + (10 - settings.alpha) * carried.previous) \div 10
                    ELSE disparity
      missed == IF matched THEN 0 ELSE carried.missed + 1
      held == ~matched /\ carried.previous > 0 /\ missed <= settings.hold
  IN  [previous |-> IF held THEN carried.previous ELSE smoothed, missed |-> Min({missed, maxMissed})]

-----------------------------------------------------------------------------
(* measures.rs                                                             *)

\* Over the pairs of horizontal neighbours above black: the squared
\* difference, the grey of the left one, and how many there are.
SharpnessPlanes(image) ==
  LET columns == 0..(Width(image) - 2)
      lit(x) == {y \in DOMAIN image : image[y][x] > 0 /\ image[y][x + 1] > 0}
      total(f(_, _)) == SumOver(LAMBDA x : SumOver(LAMBDA y : f(y, x), lit(x)), columns)
      square(y, x) == (image[y][x + 1] - image[y][x]) * (image[y][x + 1] - image[y][x])
      grey(y, x) == image[y][x]
      one(y, x) == 1
  IN  <<total(square), total(grey), total(one)>>

\* Per band: the differences of the matched pixels of the compared rows
\* from the right image, by row offset, and how many matched.
AlignmentSums(left, right, disparity, bands, reach, rowStep) ==
  LET width == Width(left)
      bandWidth == width \div bands
      compared(band) == {p \in (DOMAIN left) \X ((band * bandWidth)..((band + 1) * bandWidth - 1)) :
                           p[1] % rowStep = 0 /\ disparity[p[1]][p[2]] > 0}
      facing(y, x, offset) ==
        right[Min({Max({y + offset - reach, 0}), Height(left) - 1})][Within(x - disparity[y][x], 0, width - 1)]
  IN  [band \in 0..(bands - 1) |-> [plane \in 0..(2 * reach + 1) |->
         IF plane = 2 * reach + 1 THEN Cardinality(compared(band))
         ELSE SumOver(LAMBDA p : Apart(facing(p[1], p[2], plane), left[p[1]][p[2]]), compared(band))]]

\* Quality's sums over a disparity and the one it remembers.
QualitySums(previous, disparity) ==
  LET pixels == (DOMAIN disparity) \X (DOMAIN disparity[0])
      at(image, p) == image[p[1]][p[2]]
      matched == {p \in pixels : at(disparity, p) > 0}
      both == {p \in matched : at(previous, p) > 0}
  IN  <<Cardinality(matched), SumOver(LAMBDA p : at(disparity, p), matched),
        SumOver(LAMBDA p : at(disparity, p) * at(disparity, p), matched), Cardinality(both),
        SumOver(LAMBDA p : Apart(at(disparity, p), at(previous, p)), both)>>

-----------------------------------------------------------------------------
(* depth.rs                                                                *)

MaxDepth == 65535

\* The depth in millimetres, rounded, of focal length times baseline in
\* millimetres over the disparity: 0 where unmatched or too far for a u16.
DepthOf(disparity, focalBaseline) ==
  LET rounded == IF disparity > 0 THEN (2 * focalBaseline + disparity) \div (2 * disparity) ELSE 0
  IN  IF rounded > MaxDepth THEN 0 ELSE rounded

\* The pixels of the decimated grid within the depths, by their grid point.
Cloud(depth, decimation, nearest, farthest) ==
  LET grid == (0..(Height(depth) \div decimation - 1)) \X (0..(Width(depth) \div decimation - 1))
      z(p) == depth[p[1] * decimation][p[2] * decimation]
      kept == {p \in grid : z(p) > nearest /\ z(p) < farthest}
  IN  [points |-> [p \in kept |-> <<p[2] * decimation, p[1] * decimation, z(p)>>],
       kept |-> Cardinality(kept)]

-----------------------------------------------------------------------------
(***************************************************************************)
(* A native segment (segment.rs, tensor.rs): consecutive stages, configured*)
(* once, each run on a pair's named tensors in order.  What a stage keeps  *)
(* between pairs (the rectification maps, the temporal filter's and        *)
(* Quality's last disparity) is StereoPort's.                              *)
(*                                                                         *)
(* A tensor is its kind: "u8" or "f32" of the working size, "frame" a u8   *)
(* image of the frame's size, "other" anything else.                       *)
(***************************************************************************)


\* The settings each kind of stage takes, all of them and no other.
SettingsOf == [
  rectification |-> {}, sharpness |-> {}, disparity |-> {"num_disparities", "paths"},
  median_filter |-> {"kernel_size"}, speckle_filter |-> {"radius"},
  row_alignment |-> {"bands", "reach", "row_step"}, temporal_filter |-> {"max_missed"},
  depth |-> {}, point_cloud |-> {"decimation", "min_depth_m", "max_depth_m"}, quality |-> {}]

Kinds == DOMAIN SettingsOf

\* The values a setting may have: one of some, or a count within bounds.
\* A limit, a depth or a missed count may be any number.
Allowed(name, g) ==
  LET shorter == IF g.width < g.height THEN g.width ELSE g.height
  IN  CASE name = "num_disparities" -> {64, 128}
        [] name = "paths" -> {3, 8}
        [] name = "kernel_size" -> {3, 5}
        [] name \in {"radius", "decimation"} -> 1..shorter
        [] name = "bands" -> 1..g.width
        [] name = "reach" -> 0..g.height
        [] name = "row_step" -> 1..g.height
        [] OTHER -> Int

TakesStage(member, g) ==
  /\ member.kind \in Kinds
  /\ DOMAIN member.options = SettingsOf[member.kind]
  /\ \A name \in DOMAIN member.options : member.options[name] \in Allowed(name, g)
  /\ member.kind = "rectification" => g.frameWidth >= g.width /\ g.frameHeight >= g.height
  \* The matcher's Parameters::check, of the image.
  /\ member.kind = "disparity" => g.width \in 9..4096 /\ g.height >= 7

\* Segment::new refuses an image below 2x2 or a member it does not take.
TakesSegment(g, members) ==
  /\ g.width >= 2 /\ g.height >= 2
  /\ \A i \in DOMAIN members : TakesStage(members[i], g)

\* The tensors a stage reads, with their kinds, in run_stage.
Needs(kind) ==
  CASE kind = "rectification" -> [left_frame |-> "frame", right_frame |-> "frame"]
    [] kind \in {"sharpness", "disparity"} -> [left |-> "u8", right |-> "u8"]
    [] kind = "row_alignment" -> [left |-> "u8", right |-> "u8", disparity |-> "f32"]
    [] kind = "point_cloud" -> [depth_m |-> "f32"]
    [] OTHER -> [disparity |-> "f32"]

\* The tensors a stage inserts.
Inserts(kind) ==
  CASE kind = "rectification" -> [left |-> "u8", right |-> "u8"]
    [] kind = "sharpness" -> [sharpness_sums |-> "other"]
    [] kind = "row_alignment" -> [alignment_sums |-> "other"]
    [] kind = "depth" -> [depth_mm |-> "other", depth_m |-> "f32"]
    [] kind = "point_cloud" -> [cloud_grid |-> "other", cloud_points |-> "other"]
    [] kind = "quality" -> [quality_sums |-> "other"]
    [] OTHER -> [disparity |-> "f32"]

\* The tensors a stage returns, in order.
Outputs(kind) ==
  CASE kind = "rectification" -> <<"left", "right">>
    [] kind = "sharpness" -> <<"sharpness_sums">>
    [] kind = "row_alignment" -> <<"alignment_sums">>
    [] kind = "depth" -> <<"depth_mm">>
    [] kind = "point_cloud" -> <<"cloud_grid", "cloud_points">>
    [] kind = "quality" -> <<"quality_sums">>
    [] OTHER -> <<"disparity">>

\* The live inputs a stage takes from each pair; one it refuses, such as what
\* Parameters::check refuses of the matcher's, counts as not given.
InputsOf(kind) ==
  CASE kind = "rectification" -> {"left.camera", "right.camera"}
    [] kind = "disparity" -> {"p1", "p2", "uniqueness"}
    [] kind = "speckle_filter" -> {"min_support", "max_diff"}
    [] kind = "temporal_filter" -> {"alpha", "delta", "hold"}
    [] kind = "depth" -> {"focal_length_px", "baseline_m"}
    [] kind = "point_cloud" -> {"focal_length_px", "cx", "cy"}
    [] OTHER -> {}

\* u8_image and f32_map: the tensor is there, of the type and the shape.
HasTensors(tensors, needs) ==
  \A name \in DOMAIN needs : name \in DOMAIN tensors /\ tensors[name] = needs[name]

\* One stage of a run: refused, or its tensors inserted over those there.
RunStage(state, member, inputs) ==
  IF ~state.ok \/ ~(InputsOf(member.kind) \subseteq inputs)
       \/ ~HasTensors(state.tensors, Needs(member.kind))
    THEN [state EXCEPT !.ok = FALSE]
    ELSE LET filled == SelectSeq(Outputs(member.kind), LAMBDA name : ~Contains(state.filled, name))
             inserts == Inserts(member.kind)
         IN  [ok |-> TRUE,
              tensors |-> [name \in DOMAIN state.tensors \union DOMAIN inserts |->
                             IF name \in DOMAIN inserts THEN inserts[name] ELSE state.tensors[name]],
              filled |-> state.filled \o filled]

\* Segment::run: each stage in turn, the inputs of each given in order.
RunSegment(members, inputs, entries) ==
  LET start == [ok |-> Len(inputs) = Len(members), tensors |-> entries, filled |-> <<>>]
      run == FoldLeft(LAMBDA state, i : RunStage(state, members[i], inputs[i]),
                      start, [i \in 1..Len(members) |-> i])
  IN  IF start.ok THEN run ELSE start
=============================================================================
