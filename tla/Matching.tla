------------------------------- MODULE Matching -------------------------------
(***************************************************************************)
(* What stereo_match's matcher computes of one row or pixel: the Census    *)
(* features and matching costs (census.rs), the recurrence of a path       *)
(* (paths.rs), the winner of the summed costs (select.rs), the left-right  *)
(* check (check.rs).                                                       *)
(*                                                                         *)
(* An image is a function of rows of grey levels, a feature the set of the *)
(* neighbours darker than the centre.  A disparity value is a fraction     *)
(* <<n, d>>: the rounding of f32 is not modelled.  Bytes and u16 wrap, as  *)
(* they do in a release build.                                             *)
(***************************************************************************)
EXTENDS Integers, FiniteSets, FiniteSetsExt, Sequences, SequencesExt

CONSTANTS
  D,             \* the number of disparities
  Width,         \* the columns of the image
  HalfHeight,    \* the rows of the Census window above and below the centre
  HalfWidth,     \* its columns to either side
  P1, P2         \* the penalties of a path for one and for more levels

CensusBits == 48

RowOffsets == (-HalfHeight)..HalfHeight \ {0}
ColumnOffsets == (-HalfWidth)..HalfWidth \ {0}

\* The code takes 64 or 128 disparities, and refuses penalties that leave a
\* path's byte too little room.
ASSUME MatchingAssumption ==
  /\ D \in 4..128
  /\ Width \in Nat \ {0} /\ HalfHeight \in Nat /\ HalfWidth \in Nat
  /\ P1 \in Nat /\ P2 \in Nat /\ P1 < P2 /\ P2 + CensusBits <= 127

Disparity == 0..(D - 1)
Column == 0..(Width - 1)
Byte == 0..255
Clamp(v, low, high) == Max({low, Min({v, high})})
Distance(a, b) == IF a < b THEN b - a ELSE a - b

-----------------------------------------------------------------------------
(* census.rs                                                               *)

\* A row of the window with its borders replicated to both sides.
PaddedRow(image, height, y) ==
  LET source == image[Clamp(y, 0, height - 1)]
  IN  [i \in 0..(Width + 2 * HalfWidth - 1) |->
         IF i < HalfWidth THEN source[0]
         ELSE IF i < HalfWidth + Width THEN source[i - HalfWidth] ELSE source[Width - 1]]

\* The neighbours of each pixel of a row that are more than a level darker.
CensusRow(image, height, y) ==
  LET padded == [dy \in RowOffsets \union {0} |-> PaddedRow(image, height, y + dy)]
  IN  [x \in Column |-> {o \in RowOffsets \X ColumnOffsets :
         padded[0][HalfWidth + x] - padded[o[1]][HalfWidth + x + o[2]] > 1}]

\* The right features reversed and followed by D without any neighbour, so
\* that those a left pixel is compared with are contiguous.
ReverseRight(right) ==
  [i \in 0..(Width + D - 1) |-> IF i < Width THEN right[Width - 1 - i] ELSE {}]

\* The number of neighbours two features differ in, for each disparity.
CostsRow(left, reversed) ==
  [x \in Column |-> [d \in Disparity |->
     LET other == reversed[Width - 1 - x + d]
     IN  Cardinality((left[x] \ other) \union (other \ left[x]))]]

-----------------------------------------------------------------------------
(* paths.rs                                                                *)

Sentinel == 255

\* A path state: the D costs between two sentinels.
ResetState == [i \in 0..(D + 1) |-> IF i \in 1..D THEN 0 ELSE Sentinel]

SaturatingAdd(a, b) == Min({255, a + b})

\* The next cost of a disparity, from the state the path is in, the lowest
\* cost of it and the matching cost, in bytes.
NextCost(previous, lowest, cost, d) ==
  LET jump == (lowest + P2) % 256
      neighbour == SaturatingAdd(Min({previous[d], previous[d + 2]}), P1)
  IN  (Min({previous[d + 1], jump, neighbour}) - lowest + cost) % 256

PathStep(previous, lowest, costs) ==
  [i \in 0..(D + 1) |-> IF i \in 1..D THEN NextCost(previous, lowest, costs[i - 1], i - 1)
                                      ELSE Sentinel]

LowestCost(state) == Min({state[i] : i \in 1..D})

\* The state of a path after its first n pixels, of the costs it visits in
\* order.  A reset state counts with the lowest cost 0, which it has.
PathState(costs) ==
  LET after[n \in 0..Len(costs)] ==
        IF n = 0 THEN ResetState
        ELSE PathStep(after[n - 1], LowestCost(after[n - 1]), costs[n])
  IN  after[Len(costs)]

\* The two horizontal paths of a row added up at column x.
HorizontalSum(rowCosts, x, d) ==
  LET forward == PathState([i \in 1..(x + 1) |-> rowCosts[i - 1]])
      backward == PathState([i \in 1..(Width - x) |-> rowCosts[Width - i]])
  IN  (forward[d + 1] + backward[d + 1]) % 256

\* A row of the image on its way to the vertical paths: its matching costs
\* and the sums of its horizontal paths.
CostsAndPaths(left, right, height, y) ==
  LET costs == CostsRow(CensusRow(left, height, y), ReverseRight(CensusRow(right, height, y)))
  IN  [costs |-> costs,
       horizontal |-> [x \in Column |-> [d \in Disparity |-> HorizontalSum(costs, x, d)]]]

\* The states of a path over an image, swept down or up, whose pixel at x
\* goes on from the one at x - offset on the row before, or from reset.
SweptStates(costs, height, down, offset) ==
  LET rowAt(n) == IF down THEN n - 1 ELSE height - n
      before(states, x) == IF x - offset \in Column THEN states[x - offset] ELSE ResetState
      after[n \in 0..height] ==
        [x \in Column |->
           IF n = 0 THEN ResetState
           ELSE LET previous == before(after[n - 1], x)
                IN  PathStep(previous, LowestCost(previous), costs[rowAt(n)][x])]
  IN  [y \in 0..(height - 1) |-> after[IF down THEN y + 1 ELSE height - y]]

\* The sums of the eight paths: the horizontal ones, the three downward
\* and the three upward ones.
EightPathSums(costs, height) ==
  LET down == [o \in {-1, 0, 1} |-> SweptStates(costs, height, TRUE, o)]
      up == [o \in {-1, 0, 1} |-> SweptStates(costs, height, FALSE, o)]
      verticalSum(states, y, x, d) ==
        states[-1][y][x][d + 1] + states[0][y][x][d + 1] + states[1][y][x][d + 1]
  IN  [y \in 0..(height - 1) |-> [x \in Column |-> [d \in Disparity |->
         HorizontalSum(costs[y], x, d) + verticalSum(down, y, x, d) + verticalSum(up, y, x, d)]]]

-----------------------------------------------------------------------------
(* select.rs                                                               *)

PastEdge == 32768
Word == 65536
NoKey == <<>>
Unmatched == <<-1, 1>>

\* The summed costs with those of disparities past the left edge raised.
RaisedCosts(sums, x) ==
  [d \in Disparity |-> (sums[d] + IF x < D - 1 /\ d > x THEN PastEdge ELSE 0) % Word]

\* The lowest cost, the lowest disparity that has it, the lowest of the
\* others but the winner's neighbours, and the costs of these.
Lowest(sums, x) ==
  LET values == RaisedCosts(sums, x)
      minimum == Min({values[d] : d \in Disparity})
      winner == Min({d \in Disparity : values[d] = minimum})
      below == Max({0, winner - 1})
      above == Min({winner + 1, D - 1})
      others == {d \in Disparity : (d - below) % Word > above - below}
  IN  [minimum |-> minimum, winner |-> winner,
       second |-> Min({values[d] : d \in others} \union {Word - 1}),
       lower |-> values[below], upper |-> values[above]]

\* The winner refined within half a disparity, unless the second-best cost
\* does not exceed the best times `uniqueness`, a fraction.
SelectPixel(sums, x, uniqueness) ==
  LET found == Lowest(sums, x)
      denominator == found.lower + found.upper - 2 * found.minimum
      refine == denominator > 0 /\ found.winner > 0 /\ found.winner < Min({D - 1, x})
      half == 2 * Max({denominator, 1})
      correction == Clamp(found.lower - found.upper, -(half \div 2), half \div 2)
  IN  IF found.second * uniqueness[2] > found.minimum * uniqueness[1]
        THEN [disparity |-> <<found.winner * half + (IF refine THEN correction ELSE 0), half>>,
              key |-> <<found.minimum, found.winner>>]
        ELSE [disparity |-> Unmatched, key |-> NoKey]

-----------------------------------------------------------------------------
(* check.rs                                                                *)

\* As KeptMatches, were the smaller of two equal disparities kept.
KeptMatchesNearer(keys) ==
  LET matches(rx) == {x \in Column : keys[x] # NoKey /\ x - keys[x][2] = rx}
  IN  [rx \in Column |-> IF matches(rx) = {} THEN NoKey
         ELSE LET x == CHOOSE x \in matches(rx) : \A y \in matches(rx) :
                         keys[x][1] < keys[y][1] \/ (keys[x][1] = keys[y][1] /\ x <= y)
              IN  <<keys[x][1], (Word - 1) - keys[x][2]>>]

\* The match each right pixel keeps: of the left matches projected onto it
\* the cheapest, of equally cheap ones the one of the larger disparity.
KeptMatches(keys) ==
  LET candidates(rx) == {<<keys[x][1], (Word - 1) - keys[x][2]>> :
                           x \in {x \in Column : keys[x] # NoKey /\ x - keys[x][2] = rx}}
      order(a, b) == a[1] < b[1] \/ (a[1] = b[1] /\ a[2] <= b[2])
  IN  [rx \in Column |-> IF candidates(rx) = {} THEN NoKey
         ELSE CHOOSE a \in candidates(rx) : \A b \in candidates(rx) : order(a, b)]

Disagrees(kept, rx, d) ==
  /\ rx \in Column
  /\ kept[rx] # NoKey
  /\ Distance((Word - 1) - kept[rx][2], d) > 1

\* A row's disparities without those neither adjacent integer agrees with.
ConsistencyRow(disparity, keys) ==
  LET kept == KeptMatches(keys)
      low(x) == disparity[x][1] \div disparity[x][2]
      high(x) == IF low(x) * disparity[x][2] = disparity[x][1] THEN low(x) ELSE low(x) + 1
  IN  [x \in Column |->
         IF disparity[x][1] >= 0
            /\ ~(Disagrees(kept, x - low(x), low(x)) /\ Disagrees(kept, x - high(x), high(x)))
           THEN disparity[x] ELSE Unmatched]

-----------------------------------------------------------------------------
(***************************************************************************)
(* The reference the matcher is tested against (reference.rs), and what    *)
(* semi-global matching is by definition: the cost of a path at a pixel is *)
(* the least energy of a choice of disparities along it, less the least    *)
(* energy of getting to the pixel before.                                  *)
(***************************************************************************)

PixelAt(image, height, y, x) == image[Clamp(y, 0, height - 1)][Clamp(x, 0, Width - 1)]

RefCensus(image, height, y, x) ==
  {o \in RowOffsets \X ColumnOffsets :
     PixelAt(image, height, y + o[1], x + o[2]) + 1 < PixelAt(image, height, y, x)}

RefCost(left, right, height, y, x, d) ==
  LET feature == RefCensus(left, height, y, x)
      other == IF x >= d THEN RefCensus(right, height, y, x - d) ELSE {}
  IN  Cardinality((feature \union other) \ (feature \intersect other))

\* What going from one disparity to another costs a path.
Penalty(a, b) == IF a = b THEN 0 ELSE IF Distance(a, b) = 1 THEN P1 ELSE P2

\* The energy of disparities chosen along the first n pixels of a path: the
\* matching costs, and a penalty for each change of disparity.
Energy(costs, choice, n) ==
  LET energy[i \in 0..n] ==
        IF i = 0 THEN 0
        ELSE energy[i - 1] + costs[i][choice[i]]
               + (IF i = 1 THEN 0 ELSE Penalty(choice[i - 1], choice[i]))
  IN  energy[n]

LeastEnergy(costs, n, d) ==
  Min({Energy(costs, choice, n) : choice \in {c \in [1..n -> Disparity] : c[n] = d}})

RefPathCost(costs, d) ==
  LET n == Len(costs)
  IN  LeastEnergy(costs, n, d)
        - (IF n = 1 THEN 0 ELSE Min({LeastEnergy(costs, n - 1, k) : k \in Disparity}))

\* The costs that a path of a direction meets from the border of the image to
\* a pixel, and the sum of the paths of the eight directions.
RefRay(costs, height, y, x, direction) ==
  LET inside(n) == y - n * direction[1] \in 0..(height - 1) /\ x - n * direction[2] \in Column
      length == CHOOSE n \in 1..(height + Width) : inside(n - 1) /\ ~inside(n)
  IN  [i \in 1..length |-> costs[y - (length - i) * direction[1]][x - (length - i) * direction[2]]]

RefAggregate(costs, height, y, x, d) ==
  LET path(dy, dx) == RefPathCost(RefRay(costs, height, y, x, <<dy, dx>>), d)
  IN  path(0, 1) + path(0, -1) + path(1, -1) + path(1, 0) + path(1, 1)
        + path(-1, -1) + path(-1, 0) + path(-1, 1)

RefSelect(sums, x, uniqueness) ==
  LET values == [d \in Disparity |-> sums[d] + IF d > x THEN PastEdge ELSE 0]
      minimum == Min({values[d] : d \in Disparity})
      winner == CHOOSE d \in Disparity : values[d] = minimum /\ \A e \in 0..(d - 1) : values[e] > minimum
      rivals == {values[d] : d \in {d \in Disparity : Distance(d, winner) > 1}}
      lower == values[Max({0, winner - 1})]
      upper == values[Min({D - 1, winner + 1})]
      bend == lower + upper - 2 * minimum
      inner == winner > 0 /\ winner < D - 1 /\ winner < x
  IN  IF \A rival \in rivals : rival * uniqueness[2] > minimum * uniqueness[1]
        THEN [key |-> <<minimum, winner>>,
              disparity |-> IF inner /\ bend > 0
                              THEN <<2 * winner * bend + lower - upper, 2 * bend>>
                              ELSE <<winner, 1>>]
        ELSE [key |-> NoKey, disparity |-> Unmatched]

\* The right pixel's match, searched from the right pixel's side.
RefKept(keys, rx) ==
  LET matches == {d \in Disparity : rx + d \in Column /\ keys[rx + d] # NoKey
                                      /\ keys[rx + d][2] = d}
      cost(d) == keys[rx + d][1]
      cheapest == {d \in matches : \A e \in matches : cost(d) <= cost(e)}
  IN  IF matches = {} THEN -1 ELSE Max(cheapest)

RefConsistent(disparity, keys, x) ==
  LET value == disparity[x]
      adjacent == {i \in 0..(D + 1) : i * value[2] > value[1] - value[2]
                                        /\ i * value[2] < value[1] + value[2]}
      rejects(i) == LET found == IF x - i \in Column THEN RefKept(keys, x - i) ELSE -1
                    IN  found # -1 /\ Distance(found, i) > 1
  IN  value[1] >= 0 /\ ~\A i \in adjacent : rejects(i)

SameValue(a, b) == a[1] * b[2] = b[1] * a[2]
=============================================================================
