----------------------------- MODULE PanesProofs -----------------------------
(***************************************************************************)
(* What the panes of `./ovcs attach` show (PanesAreTrue), for any nodes,   *)
(* texts, buffers, rectangles and uses.                                    *)
(*                                                                         *)
(* The sums, the filtered rows and the wrapped lines are recursive         *)
(* functions, and what they are is shown without an induction scheme: the  *)
(* set of the numbers of which it holds has 0 and, with a number, the next *)
(* (UpTo), or the least counterexample, which exists (LeastExists), would  *)
(* have one before it. That such a function exists at all is shown the     *)
(* same way (RecursionExists).                                             *)
(*                                                                         *)
(* The lines that a selection copies are those it highlights, down to the  *)
(* first that wraps otherwise than it is counted, since the rows of a pane *)
(* and the sums of what its lines take say the same (RowsAre,              *)
(* LinesAreHighlighted); a pane that follows shows its newest line, less   *)
(* what is drawn beyond the estimate it starts from (NewestIsDrawn); and a *)
(* line that fits takes a row, as it is drawn word by word (WrappedIs) and *)
(* as it is counted (TakenIs). Of the state, PanesIInv keeps that a row    *)
(* marks what differs from the last one of its key that is kept, however   *)
(* many are pushed out before it, which takes that the last one kept of a  *)
(* key is the latest one of it (Marked, LastOf, FeedGrows), and that the   *)
(* cursor stands at the sum of the bytes of some of the first characters,  *)
(* whatever is inserted or removed before it (Typing, InsertKeeps,         *)
(* RemoveKeeps).                                                           *)
(***************************************************************************)
EXTENDS MCLinks, FiniteSetTheorems, SequenceTheorems, WellFoundedInduction, TLAPS

-----------------------------------------------------------------------------
(* Numbers *)

\* The greater of two numbers is what Max says.
LEMMA GreaterOfTwo ==
  ASSUME NEW a \in Int, NEW b \in Int
  PROVE  Ui!Max({a, b}) = IF a >= b THEN a ELSE b
  BY DEF Ui!Max

\* And the less of them what Min says.
LEMMA LessOfTwo ==
  ASSUME NEW a \in Int, NEW b \in Int
  PROVE  Ui!Min({a, b}) = IF a <= b THEN a ELSE b
  BY DEF Ui!Min

\* What is added to both does not change two differences that are equal.
LEMMA DifferencesKept ==
  ASSUME NEW a \in Int, NEW b \in Int, NEW c \in Int, NEW d \in Int, NEW e \in Int, a - b = c - d
  PROVE  /\ (a + e) - b = (c + e) - d
         /\ (e + 1) + a - b = (e + 1) + (c - d)
         /\ (e + 1) + a - b - 1 = e + (c - d)
  OBVIOUS

\* A set of naturals that is not empty has a least one.
LEMMA LeastExists ==
  ASSUME NEW S \in SUBSET Nat, S # {}
  PROVE  \E m \in S : \A n \in S : m <= n
<1> DEFINE Less == {pair \in Nat \X Nat : pair[1] < pair[2]}
<1>1. IsWellFoundedOn(Less, Nat)
  BY NatLessThanWellFounded DEF OpToRel
<1>2. PICK m \in S : \A n \in S : <<n, m>> \notin Less
  BY <1>1, WFMin
<1>3. ASSUME NEW n \in S PROVE m <= n
  <2>1. n \in Nat /\ m \in Nat /\ ~(n < m)
    BY <1>2
  <2>2. QED
    BY <2>1
<1>4. QED
  BY <1>3

\* The least of a set of naturals is what Min says.
LEMMA MinIs ==
  ASSUME NEW S \in SUBSET Nat, S # {}
  PROVE  Ui!Min(S) \in S /\ \A n \in S : Ui!Min(S) <= n
<1>1. \E m \in S : \A n \in S : m <= n
  BY LeastExists
<1>2. QED
  BY <1>1 DEF Ui!Min

\* Induction, of a set: what holds of a number and of the one after each
\* that it holds of holds of all of them.
LEMMA UpTo ==
  ASSUME NEW N \in Nat, NEW a \in 0..N, NEW S, a \in S,
         \A n \in a..(N - 1) : n \in S => n + 1 \in S
  PROVE  \A n \in a..N : n \in S
<1> DEFINE Odd == {n \in a..N : n \notin S}
<1>1. SUFFICES ASSUME Odd # {} PROVE FALSE
  OBVIOUS
<1>2. PICK k \in Odd : \A n \in Odd : k <= n
  <2>1. Odd \in SUBSET Nat
    OBVIOUS
  <2>2. QED
    BY <1>1, <2>1, LeastExists
<1>3. k \in a..N /\ k # a /\ k \notin S
  OBVIOUS
<1>4. k - 1 \in a..(N - 1) /\ (k - 1) + 1 = k /\ ~(k <= k - 1)
  BY <1>3
<1>5. k - 1 \in S
  BY <1>2, <1>4
<1>6. QED
  BY <1>3, <1>4, <1>5

\* As a set that has an upper bound has a greatest number.
LEMMA MaxIs ==
  ASSUME NEW N \in Nat, NEW S \in SUBSET (0..N), S # {}
  PROVE  Ui!Max(S) \in S /\ \A n \in S : n <= Ui!Max(S)
<1> DEFINE T == {N - n : n \in S}
<1>1. T \in SUBSET Nat /\ T # {}
  <2>1. \A n \in S : N - n \in Nat
    OBVIOUS
  <2>2. T \subseteq Nat
    BY <2>1
  <2>3. PICK n \in S : TRUE
    OBVIOUS
  <2>4. N - n \in T
    BY <2>3
  <2>5. QED
    BY <2>2, <2>4
<1>2. PICK x \in T : \A y \in T : x <= y
  BY <1>1, LeastExists
<1>3. PICK m \in S : x = N - m
  OBVIOUS
<1>4. ASSUME NEW n \in S PROVE m >= n
  <2>1. N - n \in T /\ n \in Nat /\ m \in Nat
    OBVIOUS
  <2>2. N - m <= N - n
    BY <1>2, <1>3, <2>1
  <2>3. QED
    BY <2>1, <2>2
<1>5. S \subseteq Nat
  OBVIOUS
<1>6. \A n, k \in S : n >= k <=> k <= n
  BY <1>5
<1>7. \E k \in S : \A n \in S : k >= n
  BY <1>4
<1>8. QED
  BY <1>6, <1>7 DEF Ui!Max

-----------------------------------------------------------------------------
(* Recursive functions *)

\* f goes by steps from a base.
Goes(f, N, base, step) == f[0] = base /\ \A n \in 1..N : f[n] = step[<<n, f[n - 1]>>]

\* Such a function exists: it does up to 0, and from each number up to the next.
LEMMA RecursionExists ==
  ASSUME NEW N \in Nat, NEW S, NEW base \in S, NEW step \in [(1..N) \X S -> S]
  PROVE  \E f \in [0..N -> S] : Goes(f, N, base, step)
<1> DEFINE GoesTo(k) == \E f \in [0..k -> S] : f[0] = base /\ \A n \in 1..k : f[n] = step[<<n, f[n - 1]>>]
<1>1. GoesTo(0)
  <2> DEFINE f == [n \in 0..0 |-> base]
  <2>1. f \in [0..0 -> S] /\ f[0] = base
    OBVIOUS
  <2>2. \A n \in 1..0 : f[n] = step[<<n, f[n - 1]>>]
    OBVIOUS
  <2>3. QED
    BY <2>1, <2>2
<1>2. ASSUME NEW k \in 0..N, k # 0, GoesTo(k - 1) PROVE GoesTo(k)
  <2>1. PICK f \in [0..(k - 1) -> S] : f[0] = base /\ \A n \in 1..(k - 1) : f[n] = step[<<n, f[n - 1]>>]
    BY <1>2
  <2> DEFINE g == [n \in 0..k |-> IF n = k THEN step[<<k, f[k - 1]>>] ELSE f[n]]
  <2>2. step[<<k, f[k - 1]>>] \in S
    <3>1. f[k - 1] \in S /\ k \in 1..N
      BY <1>2
    <3>2. QED
      BY <3>1
  <2>3. g \in [0..k -> S]
    BY <2>2
  <2>4. g[0] = base
    BY <1>2, <2>1
  <2>5. ASSUME NEW n \in 1..k PROVE g[n] = step[<<n, g[n - 1]>>]
    <3>1. CASE n = k
      BY <3>1, <1>2
    <3>2. CASE n # k
      BY <3>2, <2>1
    <3>3. QED
      BY <3>1, <3>2
  <2>6. QED
    BY <2>3, <2>4, <2>5
<1>3. \A k \in 0..N : GoesTo(k)
  <2> DEFINE T == {k \in 0..N : GoesTo(k)}
  <2> HIDE DEF GoesTo
  <2>1. 0 \in T
    BY <1>1
  <2>2. \A k \in 0..(N - 1) : k \in T => k + 1 \in T
    <3>1. TAKE k \in 0..(N - 1)
    <3>2. HAVE k \in T
    <3>3. k + 1 \in 0..N /\ k + 1 # 0 /\ (k + 1) - 1 = k
      OBVIOUS
    <3>4. GoesTo(k + 1)
      BY <1>2, <3>2, <3>3
    <3>5. QED
      BY <3>3, <3>4
  <2> HIDE DEF T
  <2>3. \A k \in 0..N : k \in T
    BY <2>1, <2>2, UpTo
  <2>4. QED
    BY <2>3 DEF T
<1>4. GoesTo(N)
  <2> HIDE DEF GoesTo
  <2>1. QED
    BY <1>3
<1>5. QED
  BY <1>4 DEF Goes

\* The sums of the first numbers of a sequence.
LEMMA SumsAre ==
  ASSUME NEW numbers \in Seq(Int)
  PROVE  /\ Ui!Sums(numbers) \in [0..Len(numbers) -> Int]
         /\ Ui!Sums(numbers)[0] = 0
         /\ \A n \in 1..Len(numbers) : Ui!Sums(numbers)[n] = Ui!Sums(numbers)[n - 1] + numbers[n]
<1> DEFINE N == Len(numbers)
           Is(f) == f = [n \in 0..N |-> IF n = 0 THEN 0 ELSE f[n - 1] + numbers[n]]
           step == [x \in (1..N) \X Int |-> x[2] + numbers[x[1]]]
<1>1. N \in Nat /\ \A n \in 1..N : numbers[n] \in Int
  OBVIOUS
<1>2. step \in [(1..N) \X Int -> Int]
  BY <1>1
<1>3. \E f \in [0..N -> Int] : Goes(f, N, 0, step)
  <2>1. 0 \in Int
    OBVIOUS
  <2> HIDE DEF N, step
  <2>2. QED
    BY <1>1, <1>2, <2>1, RecursionExists, Zenon
<1>4. PICK f \in [0..N -> Int] : f[0] = 0 /\ \A n \in 1..N : f[n] = step[<<n, f[n - 1]>>]
  BY <1>3 DEF Goes
<1>5. \A n \in 1..N : f[n] = f[n - 1] + numbers[n]
  <2>1. TAKE n \in 1..N
  <2>2. f[n - 1] \in Int
    BY <1>1
  <2>3. QED
    BY <1>4, <2>2
<1>6. f = [n \in 0..N |-> IF n = 0 THEN 0 ELSE f[n - 1] + numbers[n]]
  BY <1>4, <1>5
<1>7. Ui!Sums(numbers) = CHOOSE g : Is(g)
  BY DEF Ui!Sums
<1>8. Is(CHOOSE g : Is(g))
  BY <1>6
<1>9. Is(Ui!Sums(numbers))
  BY <1>7, <1>8
<1> DEFINE sums == Ui!Sums(numbers)
<1>10. sums = [n \in 0..N |-> IF n = 0 THEN 0 ELSE sums[n - 1] + numbers[n]]
  BY <1>9
<1>11. DOMAIN sums = 0..N /\ sums[0] = 0 /\ \A n \in 1..N : sums[n] = sums[n - 1] + numbers[n]
  <2> HIDE DEF sums
  <2>1. QED
    BY <1>10, <1>1
<1>12. sums \in [0..N -> Int]
  <2> DEFINE T == {k \in 0..N : sums[k] \in Int}
  <2> HIDE DEF sums
  <2>1. 0 \in T
    BY <1>11
  <2>2. ASSUME NEW k \in 0..(N - 1), k \in T PROVE k + 1 \in T
    <3>1. k + 1 \in 1..N /\ (k + 1) - 1 = k
      OBVIOUS
    <3>2. QED
      BY <1>1, <1>11, <2>2, <3>1
  <2> HIDE DEF T
  <2>3. \A k \in 0..N : k \in T
    <3>1. 0 \in 0..N
      BY <1>1
    <3>2. QED
      BY <1>1, <2>1, <2>2, <3>1, UpTo
  <2>4. \A k \in 0..N : sums[k] \in Int
    BY <2>3 DEF T
  <2>5. QED
    BY <1>10, <2>4
<1>13. QED
  BY <1>11, <1>12

\* Of numbers of one at least, the sums grow as fast as the numbers added.
LEMMA SumsGrow ==
  ASSUME NEW numbers \in Seq(Int), \A i \in DOMAIN numbers : numbers[i] >= 1,
         NEW i \in 0..Len(numbers), NEW j \in i..Len(numbers)
  PROVE  Ui!Sums(numbers)[j] - Ui!Sums(numbers)[i] >= j - i
<1> DEFINE N == Len(numbers)
           sums == Ui!Sums(numbers)
           T == {k \in i..N : sums[k] - sums[i] >= k - i}
<1>1. N \in Nat /\ DOMAIN numbers = 1..N /\ \A n \in 1..N : numbers[n] \in Int
  OBVIOUS
<1>2. sums \in [0..N -> Int] /\ \A n \in 1..N : sums[n] = sums[n - 1] + numbers[n]
  BY SumsAre
<1> HIDE DEF sums, N
<1>3. i \in T
  BY <1>1, <1>2 DEF N
<1>4. ASSUME NEW k \in i..(N - 1), k \in T PROVE k + 1 \in T
  <2>1. k + 1 \in 1..N /\ (k + 1) - 1 = k /\ k + 1 \in i..N /\ k \in 0..N /\ i \in 0..N /\ k \in Int /\ i \in Int
    BY <1>1 DEF N
  <2>2. sums[k + 1] = sums[k] + numbers[k + 1] /\ numbers[k + 1] >= 1
    BY <1>1, <1>2, <2>1
  <2>3. sums[k] - sums[i] >= k - i
    BY <1>4
  <2>4. sums[k] \in Int /\ sums[i] \in Int /\ numbers[k + 1] \in Int
    BY <1>1, <1>2, <2>1
  <2>5. sums[k + 1] - sums[i] >= (k + 1) - i
    BY <2>1, <2>2, <2>3, <2>4
  <2>6. QED
    BY <2>1, <2>5
<1> HIDE DEF T
<1>5. \A k \in i..N : k \in T
  <2>1. i \in 0..N
    BY DEF N
  <2>2. QED
    BY <1>1, <1>3, <1>4, <2>1, UpTo
<1>6. j \in T
  BY <1>5 DEF N
<1>7. QED
  BY <1>6 DEF T, sums

\* Sequences that begin alike have the same sums so far.
LEMMA SumsAgree ==
  ASSUME NEW numbers \in Seq(Int), NEW others \in Seq(Int), NEW n \in Nat,
         n <= Len(numbers), n <= Len(others),
         \A i \in 1..n : numbers[i] = others[i]
  PROVE  \A k \in 0..n : Ui!Sums(numbers)[k] = Ui!Sums(others)[k]
<1> DEFINE a == Ui!Sums(numbers)
           b == Ui!Sums(others)
           T == {k \in 0..n : a[k] = b[k]}
<1>1. /\ a[0] = 0 /\ \A k \in 1..Len(numbers) : a[k] = a[k - 1] + numbers[k]
      /\ b[0] = 0 /\ \A k \in 1..Len(others) : b[k] = b[k - 1] + others[k]
  BY SumsAre
<1> HIDE DEF a, b
<1>2. 0 \in T
  BY <1>1
<1>3. ASSUME NEW k \in 0..(n - 1), k \in T PROVE k + 1 \in T
  <2>1. k + 1 \in 1..n /\ (k + 1) - 1 = k /\ k + 1 \in 1..Len(numbers) /\ k + 1 \in 1..Len(others) /\ k + 1 \in 0..n
    OBVIOUS
  <2>2. QED
    BY <1>1, <1>3, <2>1
<1> HIDE DEF T
<1>4. \A k \in 0..n : k \in T
  <2>1. 0 \in 0..n
    OBVIOUS
  <2>2. QED
    BY <1>2, <1>3, <2>1, UpTo
<1>5. QED
  BY <1>4 DEF T, a, b

\* Sequences that are alike from one place to another have sums that grow alike.
LEMMA SumsRunAlike ==
  ASSUME NEW numbers \in Seq(Int), NEW others \in Seq(Int), Len(others) = Len(numbers),
         NEW i \in 0..Len(numbers), NEW j \in i..Len(numbers),
         \A k \in (i + 1)..j : numbers[k] = others[k]
  PROVE  \A k \in i..j : Ui!Sums(numbers)[k] - Ui!Sums(numbers)[i] = Ui!Sums(others)[k] - Ui!Sums(others)[i]
<1> DEFINE N == Len(numbers)
           a == Ui!Sums(numbers)
           b == Ui!Sums(others)
           T == {k \in i..j : a[k] - a[i] = b[k] - b[i]}
<1>1. /\ N \in Nat /\ i \in Int /\ j \in Int /\ i <= j
      /\ \A n \in 1..N : numbers[n] \in Int /\ others[n] \in Int
  OBVIOUS
<1>2. /\ a \in [0..N -> Int] /\ \A k \in 1..N : a[k] = a[k - 1] + numbers[k]
      /\ b \in [0..N -> Int] /\ \A k \in 1..N : b[k] = b[k - 1] + others[k]
  BY SumsAre
<1>3. \A k \in i..j : k \in 0..N
  OBVIOUS
<1> HIDE DEF a, b, N
<1>4. i \in T
  <2>1. i \in i..j
    BY <1>1
  <2>2. a[i] \in Int /\ b[i] \in Int
    BY <1>2, <1>3, <2>1
  <2>3. QED
    BY <2>1, <2>2
<1>5. ASSUME NEW k \in i..(j - 1), k \in T PROVE k + 1 \in T
  <2>1. k + 1 \in i..j /\ k \in i..j /\ (k + 1) - 1 = k /\ k + 1 \in (i + 1)..j /\ i \in i..j
    BY <1>1
  <2>2. k + 1 \in 1..N /\ k \in 0..N /\ i \in 0..N
    <3>1. k + 1 \in 0..N /\ k + 1 >= 1
      BY <1>3, <2>1 DEF N
    <3>2. QED
      BY <1>1, <1>3, <2>1, <3>1
  <2>3. a[k + 1] = a[k] + numbers[k + 1] /\ b[k + 1] = b[k] + others[k + 1]
    BY <1>2, <2>1, <2>2
  <2>4. numbers[k + 1] = others[k + 1] /\ numbers[k + 1] \in Int
    BY <1>1, <2>1, <2>2
  <2>5. a[k] \in Int /\ a[i] \in Int /\ b[k] \in Int /\ b[i] \in Int
    BY <1>2, <2>2
  <2>6. a[k] - a[i] = b[k] - b[i]
    BY <1>5
  <2>7. a[k + 1] - a[i] = b[k + 1] - b[i]
    <3> DEFINE x == numbers[k + 1]
    <3>1. a[k + 1] = a[k] + x /\ b[k + 1] = b[k] + x /\ x \in Int
      BY <2>3, <2>4
    <3> HIDE DEF x
    <3>2. (a[k] + x) - a[i] = (b[k] + x) - b[i]
      <4> DEFINE ak == a[k]
                 ai == a[i]
                 bk == b[k]
                 bi == b[i]
      <4>1. ak \in Int /\ ai \in Int /\ bk \in Int /\ bi \in Int /\ ak - ai = bk - bi
        BY <2>5, <2>6
      <4> HIDE DEF ak, ai, bk, bi
      <4>2. (ak + x) - ai = (bk + x) - bi
        BY <3>1, <4>1, DifferencesKept
      <4>3. QED
        BY <4>2 DEF ak, ai, bk, bi
    <3>3. QED
      BY <3>1, <3>2
  <2>8. QED
    BY <2>1, <2>7
<1> HIDE DEF T
<1>6. \A k \in i..j : k \in T
  <2>1. i \in 0..j
    BY <1>1
  <2>2. j \in Nat
    BY <1>1
  <2>3. QED
    BY <1>4, <1>5, <2>1, <2>2, UpTo
<1>7. QED
  BY <1>6 DEF T, a, b

-----------------------------------------------------------------------------
(* The rows that lines take *)

\* The quotients of a greater number are no less.
LEMMA DivisionGrows ==
  ASSUME NEW a \in Int, NEW b \in Int, NEW w \in Nat \ {0}, a <= b
  PROVE  a \div w \in Int /\ b \div w \in Int /\ a \div w <= b \div w
<1> DEFINE p == a \div w
           q == b \div w
<1>1. p \in Int /\ q \in Int /\ w * p <= a /\ a < w * p + w /\ w * q <= b /\ b < w * q + w
  OBVIOUS
<1> HIDE DEF p, q
<1>2. SUFFICES ASSUME q < p PROVE FALSE
  BY <1>1 DEF p, q
<1>3. w * (q + 1) <= w * p
  BY <1>1, <1>2
<1>4. w * (q + 1) = w * q + w
  BY <1>1
<1>5. QED
  BY <1>1, <1>3, <1>4

\* A line takes a row at least, and no more if it fits one.
LEMMA TakenIs ==
  ASSUME NEW length \in Int, NEW width \in Nat \ {0}
  PROVE  /\ Ui!Taken(length, width) \in Int /\ Ui!Taken(length, width) >= 1
         /\ length <= width => Ui!Taken(length, width) = 1
<1> DEFINE q == (length + width - 1) \div width
<1>1. q \in Int
  BY DivisionGrows
<1>2. ASSUME length <= width PROVE q <= 1
  <2>1. length + width - 1 \in Int /\ width + width - 1 \in Int /\ length + width - 1 <= width + width - 1
    BY <1>2
  <2>2. q <= (width + width - 1) \div width
    BY <2>1, DivisionGrows
  <2>3. (width + width - 1) \div width = 1
    OBVIOUS
  <2>4. QED
    BY <2>2, <2>3
<1>3. Ui!Taken(length, width) = Ui!Max({1, q})
  BY DEF Ui!Taken
<1> HIDE DEF q
<1>4. QED
  BY <1>1, <1>2, <1>3, GreaterOfTwo

\* Rows taken by lines, of which each takes one at least.
Heights == {taken \in Seq(Int) : \A i \in DOMAIN taken : taken[i] >= 1}

\* The rows that lines take, as the program works them out.
LEMMA TakenRowsAre ==
  ASSUME NEW lengths \in Seq(Int), NEW width \in Nat \ {0}
  PROVE  Ui!TakenRows(lengths, width) \in Heights /\ Len(Ui!TakenRows(lengths, width)) = Len(lengths)
<1> DEFINE N == Len(lengths)
<1>1. DOMAIN lengths = 1..N /\ N \in Nat /\ \A i \in 1..N : lengths[i] \in Int
  OBVIOUS
<1>2. \A i \in 1..N : Ui!Taken(lengths[i], width) \in Int /\ Ui!Taken(lengths[i], width) >= 1
  BY <1>1, TakenIs
<1>3. Ui!TakenRows(lengths, width) = [i \in 1..N |-> Ui!Taken(lengths[i], width)]
  BY <1>1 DEF Ui!TakenRows
<1> HIDE DEF N
<1>4. QED
  BY <1>1, <1>2, <1>3 DEF Heights, N

\* The rows the first lines take.
LEMMA HeightsAre ==
  ASSUME NEW taken \in Heights
  PROVE  LET t == Ui!Sums(taken)
         IN  /\ t \in [0..Len(taken) -> Int]
             /\ \A n \in 1..Len(taken) : t[n] = t[n - 1] + taken[n]
             /\ \A i \in 0..Len(taken) : \A j \in i..Len(taken) : t[j] - t[i] >= j - i
<1>1. taken \in Seq(Int) /\ \A i \in DOMAIN taken : taken[i] >= 1
  BY DEF Heights
<1>2. QED
  BY <1>1, SumsAre, SumsGrow

\* The newest lines that fit start as early as they can.
LEMMA VisibleStartIs ==
  ASSUME NEW lengths \in Seq(Int), NEW height \in Nat, NEW width \in Nat \ {0}
  PROVE  LET t == Ui!Sums(Ui!TakenRows(lengths, width))
             start == Ui!VisibleStart(lengths, height, width)
         IN  /\ start \in 0..Len(lengths)
             /\ t[Len(lengths)] - t[start] <= height
             /\ \A s \in 0..Len(lengths) : t[Len(lengths)] - t[s] <= height => start <= s
<1> DEFINE N == Len(lengths)
           t == Ui!Sums(Ui!TakenRows(lengths, width))
           start == Ui!VisibleStart(lengths, height, width)
           Fit == {s \in 0..N : t[N] - t[s] <= height}
<1>1. N \in Nat
  OBVIOUS
<1>2. /\ t \in [0..N -> Int]
      /\ \A i \in 0..N : \A j \in i..N : t[j] - t[i] >= j - i
  BY TakenRowsAre, HeightsAre
<1> HIDE DEF t
<1>3. N \in 0..N /\ t[N] \in Int /\ t[N] - t[N] = 0
  BY <1>1, <1>2
<1>4. N \in Fit
  BY <1>1, <1>3
<1>5. CASE height = 0
  <2>1. start = N
    BY <1>5 DEF Ui!VisibleStart
  <2>2. ASSUME NEW s \in 0..N, t[N] - t[s] <= height PROVE N <= s
    <3>1. t[N] - t[s] >= N - s
      BY <1>1, <1>2
    <3>2. t[s] \in Int /\ s \in Int /\ N \in Int /\ t[N] \in Int
      BY <1>1, <1>2, <1>3
    <3>3. QED
      BY <1>5, <2>2, <3>1, <3>2
  <2>3. QED
    BY <1>3, <1>5, <2>1, <2>2 DEF t
<1>6. CASE height # 0
  <2>1. start = Ui!Min(Fit)
    BY <1>6 DEF Ui!VisibleStart, t
  <2>2. Fit \in SUBSET Nat /\ Fit # {}
    BY <1>4
  <2> HIDE DEF Fit, start
  <2>3. start \in Fit /\ \A s \in Fit : start <= s
    BY <2>1, <2>2, MinIs
  <2>4. QED
    BY <2>3 DEF Fit, t, start
<1>7. QED
  BY <1>5, <1>6

\* Each row of a pane shows the line that takes it.
LEMMA RowsAre ==
  ASSUME NEW taken \in Heights, NEW height \in Nat, NEW start \in 0..Len(taken)
  PROVE  LET t == Ui!Sums(taken)
             drawn == Ui!Rows(taken, start, height)
         IN  /\ \A r \in Int : r \in DOMAIN drawn <=> 1 <= r /\ r <= height /\ r <= t[Len(taken)] - t[start]
             /\ \A r \in DOMAIN drawn : r \in Int /\ drawn[r] \in (start + 1)..Len(taken)
             /\ \A r \in DOMAIN drawn : \A i \in (start + 1)..Len(taken) :
                  drawn[r] = i <=> t[i - 1] - t[start] < r /\ r <= t[i] - t[start]
<1> DEFINE N == Len(taken)
           t == Ui!Sums(taken)
           drawn == Ui!Rows(taken, start, height)
           m == Ui!Min({t[N] - t[start], height})
           At(r) == {i \in start..N : t[i] - t[start] >= r}
<1>1. N \in Nat /\ start \in Nat /\ start <= N
  BY DEF Heights
<1>2. /\ t \in [0..N -> Int]
      /\ \A i \in 0..N : \A j \in i..N : t[j] - t[i] >= j - i
  BY HeightsAre
<1>3. drawn = [r \in 1..m |-> Ui!Min(At(r))]
  BY DEF Ui!Rows
<1> HIDE DEF t
<1>4. t[N] \in Int /\ t[start] \in Int /\ \A i \in start..N : t[i] \in Int
  <2>1. \A i \in start..N : i \in 0..N
    BY <1>1
  <2>2. N \in 0..N /\ start \in 0..N
    BY <1>1
  <2> HIDE DEF N
  <2>3. QED
    BY <1>2, <2>1, <2>2
<1>5. m = IF t[N] - t[start] <= height THEN t[N] - t[start] ELSE height
  BY <1>4, LessOfTwo
<1> HIDE DEF m, drawn
<1>6. DOMAIN drawn = 1..m /\ m \in Int
  BY <1>3, <1>4, <1>5
<1>7. \A r \in Int : r \in DOMAIN drawn <=> 1 <= r /\ r <= height /\ r <= t[N] - t[start]
  BY <1>4, <1>5, <1>6
<1>8. ASSUME NEW r \in 1..m
      PROVE  /\ drawn[r] \in (start + 1)..N
             /\ t[drawn[r]] - t[start] >= r
             /\ \A i \in start..N : t[i] - t[start] >= r => drawn[r] <= i
  <2>1. N \in At(r)
    BY <1>1, <1>4, <1>5, <1>6
  <2>2. At(r) \in SUBSET Nat /\ At(r) # {}
    BY <1>1, <2>1
  <2>3. drawn[r] = Ui!Min(At(r))
    BY <1>3, <1>6
  <2>4. start \notin At(r)
    BY <1>4, <1>6
  <2>5. drawn[r] \in At(r) /\ \A i \in At(r) : drawn[r] <= i
    <3> HIDE DEF At
    <3>1. QED
      BY <2>2, <2>3, MinIs
  <2>6. drawn[r] \in (start + 1)..N
    BY <1>1, <2>4, <2>5
  <2>7. QED
    BY <2>5, <2>6
<1>9. ASSUME NEW r \in 1..m, NEW i \in (start + 1)..N
      PROVE  drawn[r] = i <=> t[i - 1] - t[start] < r /\ r <= t[i] - t[start]
  <2> DEFINE d == drawn[r]
  <2>1. /\ d \in (start + 1)..N /\ t[d] - t[start] >= r
        /\ \A k \in start..N : t[k] - t[start] >= r => d <= k
    BY <1>8
  <2> HIDE DEF d
  <2>2. /\ i - 1 \in start..N /\ i \in start..N /\ d \in start..N /\ i \in 0..N /\ d \in 0..N
        /\ i - 1 \in 0..N /\ i \in Int /\ d \in Int /\ r \in Int
    BY <1>1, <1>6, <2>1
  <2>3. t[i - 1] \in Int /\ t[i] \in Int /\ t[d] \in Int /\ t[start] \in Int
    BY <1>4, <2>2
  <2>4. ASSUME d = i PROVE t[i - 1] - t[start] < r /\ r <= t[i] - t[start]
    <3>1. ~(d <= i - 1)
      BY <2>2, <2>4
    <3>2. ~(t[i - 1] - t[start] >= r)
      BY <2>1, <2>2, <3>1
    <3>3. t[i] - t[start] >= r
      BY <2>1, <2>4
    <3>4. QED
      BY <2>2, <2>3, <3>2, <3>3
  <2>5. ASSUME t[i - 1] - t[start] < r, r <= t[i] - t[start] PROVE d = i
    <3>1. d <= i
      BY <2>1, <2>2, <2>3, <2>5
    <3>2. SUFFICES ASSUME d <= i - 1 PROVE FALSE
      BY <2>2, <3>1
    <3>3. i - 1 \in d..N
      BY <1>1, <2>2, <3>2
    <3>4. t[i - 1] - t[d] >= (i - 1) - d
      BY <1>2, <2>2, <3>3
    <3>5. QED
      BY <2>1, <2>2, <2>3, <2>5, <3>2, <3>4
  <2>6. QED
    BY <2>4, <2>5 DEF d
<1>10. QED
  BY <1>6, <1>7, <1>8, <1>9 DEF t, drawn

\* A line that takes as many rows as are counted, as those shown before it do,
\* is found by adding up the rows if and only if it is drawn on them.
LEMMA LinesAreHighlighted ==
  ASSUME NEW taken \in Heights, NEW counted \in Heights, Len(counted) = Len(taken), NEW height \in Nat,
         NEW start \in 0..Len(taken), NEW top \in Int,
         NEW covered \in SUBSET ((top + 1)..(top + height)),
         NEW i \in 1..Len(taken), \A k \in (start + 1)..i : taken[k] = counted[k]
  PROVE  i \in Ui!LinesOn(counted, start, top + 1, covered)
           <=> i \in Ui!Highlighted(Ui!Rows(taken, start, height), top, covered)
<1> DEFINE N == Len(taken)
           t == Ui!Sums(taken)
           c == Ui!Sums(counted)
           drawn == Ui!Rows(taken, start, height)
           On(n) == ((top + 1) + c[n - 1] - c[start])..((top + 1) + c[n] - c[start] - 1)
<1>1. N \in Nat /\ start \in Nat /\ start <= N /\ taken \in Seq(Int) /\ counted \in Seq(Int)
  BY DEF Heights
<1>2. t \in [0..N -> Int] /\ c \in [0..N -> Int] /\ \A k \in 0..N : \A j \in k..N : t[j] - t[k] >= j - k
  BY HeightsAre
<1>3. /\ \A r \in Int : r \in DOMAIN drawn <=> 1 <= r /\ r <= height /\ r <= t[N] - t[start]
      /\ \A r \in DOMAIN drawn : r \in Int /\ drawn[r] \in (start + 1)..N
      /\ \A r \in DOMAIN drawn : \A n \in (start + 1)..N :
           drawn[r] = n <=> t[n - 1] - t[start] < r /\ r <= t[n] - t[start]
  BY RowsAre
<1>4. Ui!LinesOn(counted, start, top + 1, covered) = {n \in (start + 1)..N : On(n) \cap covered # {}}
  BY DEF Ui!LinesOn
<1>5. Ui!Highlighted(drawn, top, covered) = {drawn[row] : row \in {r \in DOMAIN drawn : r + top \in covered}}
  BY DEF Ui!Highlighted
<1>6. CASE i \notin (start + 1)..N
  <2> HIDE DEF drawn
  <2>1. i \notin Ui!Highlighted(drawn, top, covered)
    BY <1>3, <1>5, <1>6
  <2>2. QED
    BY <1>4, <1>6, <2>1 DEF drawn
<1>7. CASE i \in (start + 1)..N
  <2>1. c[i - 1] - c[start] = t[i - 1] - t[start] /\ c[i] - c[start] = t[i] - t[start]
    <3>1. i \in start..N /\ i \in start..i /\ i - 1 \in start..i
      BY <1>1, <1>7
    <3>2. \A k \in start..i : t[k] - t[start] = c[k] - c[start]
      BY <1>1, <3>1, SumsRunAlike
    <3> HIDE DEF t, c
    <3>3. QED
      BY <3>1, <3>2
  <2> HIDE DEF t, c, drawn, N
  <2>2. /\ t[i - 1] \in Int /\ t[i] \in Int /\ t[start] \in Int /\ t[N] \in Int
        /\ c[i - 1] \in Int /\ c[i] \in Int /\ c[start] \in Int
        /\ t[i - 1] - t[start] >= 0 /\ t[i] <= t[N]
    <3>1. i - 1 \in 0..N /\ i \in 0..N /\ start \in 0..N /\ N \in 0..N /\ i - 1 \in start..N /\ N \in i..N /\ i \in Int
      BY <1>1, <1>7
    <3>2. /\ t[i - 1] \in Int /\ t[i] \in Int /\ t[start] \in Int /\ t[N] \in Int
          /\ c[i - 1] \in Int /\ c[i] \in Int /\ c[start] \in Int
      BY <1>2, <3>1
    <3>3. t[i - 1] - t[start] >= (i - 1) - start /\ t[N] - t[i] >= N - i
      BY <1>2, <3>1
    <3>4. (i - 1) - start \in Nat /\ N - i \in Nat
      BY <1>1, <1>7
    <3>5. t[i - 1] - t[start] >= 0 /\ t[i] <= t[N]
      <4> DEFINE a == (i - 1) - start
                 b == N - i
      <4> HIDE DEF a, b
      <4>1. t[i - 1] - t[start] >= a /\ t[N] - t[i] >= b /\ a \in Nat /\ b \in Nat
        BY <3>3, <3>4 DEF a, b
      <4>2. QED
        BY <3>2, <4>1
    <3>6. QED
      BY <3>2, <3>5
  <2>3. /\ (top + 1) + c[i - 1] - c[start] = (top + 1) + (t[i - 1] - t[start])
        /\ (top + 1) + c[i] - c[start] - 1 = top + (t[i] - t[start])
    <3> DEFINE c0 == c[start]
               c1 == c[i - 1]
               c2 == c[i]
               t0 == t[start]
               t1 == t[i - 1]
               t2 == t[i]
    <3>1. /\ c0 \in Int /\ c1 \in Int /\ c2 \in Int /\ t0 \in Int /\ t1 \in Int /\ t2 \in Int
          /\ c1 - c0 = t1 - t0 /\ c2 - c0 = t2 - t0
      BY <2>1, <2>2
    <3> HIDE DEF c0, c1, c2, t0, t1, t2
    <3>2. (top + 1) + c1 - c0 = (top + 1) + (t1 - t0) /\ (top + 1) + c2 - c0 - 1 = top + (t2 - t0)
      BY <3>1, DifferencesKept
    <3>3. QED
      BY <3>2 DEF c0, c1, c2, t0, t1, t2
  <2>4. ASSUME On(i) \cap covered # {}
        PROVE  i \in {drawn[row] : row \in {r \in DOMAIN drawn : r + top \in covered}}
    <3>1. PICK cell \in covered : cell \in On(i)
      BY <2>4
    <3> DEFINE r == cell - top
    <3>2. cell \in Int /\ top + 1 <= cell /\ cell <= top + height
      OBVIOUS
    <3>3. r \in Int /\ r + top = cell /\ 1 <= r /\ r <= height
      BY <3>2
    <3>4. t[i - 1] - t[start] < r /\ r <= t[i] - t[start]
      <4>1. (top + 1) + c[i - 1] - c[start] <= cell /\ cell <= (top + 1) + c[i] - c[start] - 1
        BY <2>2, <3>1, <3>2
      <4>2. (top + 1) + (t[i - 1] - t[start]) <= cell /\ cell <= top + (t[i] - t[start])
        BY <2>3, <4>1
      <4>3. QED
        BY <2>2, <3>2, <4>2
    <3> HIDE DEF r
    <3>5. r <= t[N] - t[start]
      BY <2>2, <3>3, <3>4
    <3>6. r \in DOMAIN drawn
      BY <1>3, <3>3, <3>5
    <3>7. drawn[r] = i
      BY <1>3, <1>7, <3>4, <3>6
    <3>8. QED
      BY <3>3, <3>6, <3>7
  <2>5. ASSUME NEW r \in DOMAIN drawn, r + top \in covered, drawn[r] = i
        PROVE  On(i) \cap covered # {}
    <3>1. r \in Int /\ t[i - 1] - t[start] < r /\ r <= t[i] - t[start]
      BY <1>3, <1>7, <2>5
    <3>2. r + top \in On(i)
      <4>1. (top + 1) + (t[i - 1] - t[start]) <= r + top /\ r + top <= top + (t[i] - t[start])
        BY <2>2, <3>1
      <4>2. r + top \in ((top + 1) + (t[i - 1] - t[start]))..(top + (t[i] - t[start]))
        BY <2>2, <3>1, <4>1
      <4>3. QED
        BY <2>3, <4>2
    <3>3. QED
      BY <2>5, <3>2
  <2>6. i \in Ui!LinesOn(counted, start, top + 1, covered) <=> On(i) \cap covered # {}
    BY <1>4, <1>7
  <2>7. i \in Ui!Highlighted(drawn, top, covered)
          <=> i \in {drawn[row] : row \in {r \in DOMAIN drawn : r + top \in covered}}
    BY <1>5
  <2> HIDE DEF On
  <2>8. QED
    BY <2>4, <2>5, <2>6, <2>7 DEF drawn
<1>8. QED
  BY <1>6, <1>7

\* If the newest line fits as it is estimated, it is drawn whole, less the rows
\* by which the lines from where the pane starts exceed their estimate.
LEMMA NewestIsDrawn ==
  ASSUME NEW taken \in Heights, NEW estimated \in Heights, Len(estimated) = Len(taken),
         taken # <<>>, NEW height \in Nat, estimated[Len(taken)] <= height,
         NEW start \in 0..Len(taken),
         Ui!Sums(estimated)[Len(taken)] - Ui!Sums(estimated)[start] <= height,
         \A s \in 0..Len(taken) : Ui!Sums(estimated)[Len(taken)] - Ui!Sums(estimated)[s] <= height => start <= s
  PROVE  LET drawn == Ui!Rows(taken, start, height)
             excess == (Ui!Sums(taken)[Len(taken)] - Ui!Sums(taken)[start])
                         - (Ui!Sums(estimated)[Len(taken)] - Ui!Sums(estimated)[start])
         IN  Cardinality({row \in DOMAIN drawn : drawn[row] = Len(taken)})
               >= taken[Len(taken)] - Ui!Max({excess, 0})
<1> DEFINE N == Len(taken)
           t == Ui!Sums(taken)
           e == Ui!Sums(estimated)
           drawn == Ui!Rows(taken, start, height)
           Its == {row \in DOMAIN drawn : drawn[row] = N}
           excess == (t[N] - t[start]) - (e[N] - e[start])
<1>1. /\ N \in Nat \ {0} /\ taken[N] \in Int /\ taken[N] >= 1 /\ estimated[N] \in Int
  <2>1. N \in Nat \ {0} /\ N \in DOMAIN taken /\ N \in DOMAIN estimated
    BY DEF Heights
  <2>2. QED
    BY <2>1 DEF Heights
<1>2. /\ t \in [0..N -> Int] /\ \A n \in 1..N : t[n] = t[n - 1] + taken[n]
      /\ \A i \in 0..N : \A j \in i..N : t[j] - t[i] >= j - i
  BY HeightsAre
<1>3. e \in [0..N -> Int] /\ \A n \in 1..N : e[n] = e[n - 1] + estimated[n]
  BY HeightsAre
<1>4. /\ start \in 0..N /\ e[N] - e[start] <= height /\ estimated[N] <= height
      /\ \A s \in 0..N : e[N] - e[s] <= height => start <= s
  OBVIOUS
<1>5. /\ \A r \in Int : r \in DOMAIN drawn <=> 1 <= r /\ r <= height /\ r <= t[N] - t[start]
      /\ \A r \in DOMAIN drawn : r \in Int
      /\ \A r \in DOMAIN drawn : \A i \in (start + 1)..N :
           drawn[r] = i <=> t[i - 1] - t[start] < r /\ r <= t[i] - t[start]
  BY RowsAre
<1> HIDE DEF t, e, drawn, Its, N
<1>6. start <= N - 1
  <2>1. N \in 1..N /\ N - 1 \in 0..N /\ N \in 0..N
    BY <1>1
  <2>2. e[N] = e[N - 1] + estimated[N] /\ e[N - 1] \in Int /\ e[N] \in Int
    BY <1>3, <2>1
  <2>3. e[N] - e[N - 1] <= height
    BY <1>1, <1>4, <2>2
  <2>4. QED
    BY <1>4, <2>1, <2>3
<1>7. /\ t[N] \in Int /\ t[N - 1] \in Int /\ t[start] \in Int /\ e[N] \in Int /\ e[start] \in Int
      /\ t[N - 1] - t[start] >= 0
      /\ t[N] = t[N - 1] + taken[N]
  <2>1. N \in 1..N /\ N \in 0..N /\ N - 1 \in 0..N /\ start \in 0..N /\ N - 1 \in start..N
    BY <1>1, <1>4, <1>6
  <2>2. t[N] \in Int /\ t[N - 1] \in Int /\ t[start] \in Int /\ e[N] \in Int /\ e[start] \in Int
    BY <1>2, <1>3, <2>1
  <2>3. t[N - 1] - t[start] >= (N - 1) - start
    BY <1>2, <2>1
  <2>4. (N - 1) - start >= 0 /\ (N - 1) - start \in Int
    BY <1>1, <1>4, <1>6
  <2>5. t[N - 1] - t[start] >= 0
    BY <2>2, <2>3, <2>4
  <2>6. t[N] = t[N - 1] + taken[N]
    BY <1>2, <2>1
  <2>7. QED
    BY <2>2, <2>5, <2>6
<1> DEFINE low == t[N - 1] - t[start] + 1
           high == IF t[N] - t[start] <= height THEN t[N] - t[start] ELSE height
<1>8. low \in Int /\ high \in Int /\ 1 <= low
  BY <1>7
<1>9. Its = low..high
  <2>1. N \in (start + 1)..N
    BY <1>1, <1>4, <1>6
  <2>2. ASSUME NEW r \in Its PROVE r \in low..high
    <3>1. r \in DOMAIN drawn /\ drawn[r] = N
      BY DEF Its
    <3>2. r \in Int /\ t[N - 1] - t[start] < r /\ r <= t[N] - t[start] /\ r <= height
      BY <1>5, <2>1, <3>1
    <3>3. QED
      BY <1>7, <3>2
  <2>3. ASSUME NEW r \in low..high PROVE r \in Its
    <3>1. r \in Int /\ t[N - 1] - t[start] < r /\ r <= t[N] - t[start] /\ 1 <= r /\ r <= height
      BY <1>7, <1>8
    <3>2. r \in DOMAIN drawn
      BY <1>5, <3>1
    <3>3. drawn[r] = N
      BY <1>5, <2>1, <3>1, <3>2
    <3>4. QED
      BY <3>2, <3>3 DEF Its
  <2>4. QED
    BY <2>2, <2>3
<1>10. Cardinality(Its) = IF low > high THEN 0 ELSE high - low + 1
  <2> HIDE DEF low, high
  <2>1. QED
    BY <1>8, <1>9, FS_Interval
<1>11. /\ excess \in Int
       /\ Ui!Max({excess, 0}) = IF excess >= 0 THEN excess ELSE 0
  <2>1. excess \in Int
    BY <1>7
  <2> HIDE DEF excess
  <2>2. QED
    BY <2>1, GreaterOfTwo
<1>12. taken[N] - Ui!Max({excess, 0}) <= IF low > high THEN 0 ELSE high - low + 1
  <2> DEFINE m == Ui!Max({excess, 0})
             d == t[N] - t[start]
             g == e[N] - e[start]
  <2>1. d \in Int /\ g \in Int /\ g <= height /\ taken[N] \in Int /\ low = d - taken[N] + 1
    <3>1. t[N] \in Int /\ t[N - 1] \in Int /\ t[start] \in Int /\ t[N] = t[N - 1] + taken[N] /\ taken[N] \in Int
      BY <1>1, <1>7
    <3>2. t[N - 1] - t[start] + 1 = (t[N] - t[start]) - taken[N] + 1
      BY <3>1
    <3>3. e[N] \in Int /\ e[start] \in Int /\ e[N] - e[start] <= height
      BY <1>4, <1>7
    <3>4. QED
      BY <3>1, <3>2, <3>3
  <2>2. m = IF d - g >= 0 THEN d - g ELSE 0
    BY <1>11
  <2>3. high = IF d <= height THEN d ELSE height
    OBVIOUS
  <2> HIDE DEF m, d, g, low, high, excess
  <2>4. taken[N] - m <= IF low > high THEN 0 ELSE high - low + 1
    BY <1>1, <2>1, <2>2, <2>3
  <2>5. QED
    BY <2>4 DEF m
<1>13. QED
  BY <1>10, <1>12 DEF Its, drawn, t, e, N

-----------------------------------------------------------------------------
(* The inductive invariant *)

Text == DOMAIN TextOf
Filled == {t \in Text : TextOf[t] # <<>>}
Signals == {s \in Seq(Text \X Text) : \A i, j \in DOMAIN s : s[i][1] = s[j][1] => i = j}
Bodies(f) == IF f = "Bus" THEN Filled ELSE [signals : Signals, raw : Text]
Keys(f) == {k \in Seq(Filled) : Len(k) = Len(ColumnCap[f])}
FeedRows(f) == [key : Keys(f), body : Bodies(f), rate : Nat, changed : SUBSET (Text \cup {"value"})]
Views == [scroll : Nat, follow : BOOLEAN]
Selected == [pane : Ui!Panes, anchor : Int, end : Int]
Modes == [paused : BOOLEAN, observer : BOOLEAN, filter : Seq(DOMAIN Bytes), editing : BOOLEAN]

\* A row marks the values that differ from those of an older one.
Marks(f, old, new) ==
  IF f = "Bus" THEN (new.changed = {}) <=> (old.body = new.body)
  ELSE \A s \in Ui!Range(new.body.signals) : s[1] \notin new.changed <=> s \in Ui!Range(old.body.signals)

\* Each row that is kept marks what differs from the one of its key before it.
Marked(f, kept) ==
  \A i, j \in DOMAIN kept :
    i < j /\ kept[i].key = kept[j].key /\ (\A k \in (i + 1)..(j - 1) : kept[k].key # kept[j].key)
    => Marks(f, kept[i], kept[j])

\* The last row that is kept of a key is the latest one of it.
LastOf(kept, last) ==
  \A i \in DOMAIN kept :
    (\A j \in (i + 1)..Len(kept) : kept[j].key # kept[i].key)
    => kept[i].key \in DOMAIN last /\ last[kept[i].key] = kept[i]

\* A feed: what is kept of it, its keys in their order, the latest row of
\* each, and the widths of its columns.
FeedIs(f, kept, keys, last, widths) ==
  /\ kept \in Seq(FeedRows(f)) /\ Len(kept) <= FeedCap
  /\ keys \in Seq(Keys(f))
  /\ last \in [Ui!Range(keys) -> FeedRows(f)]
  /\ IsFiniteSet(DOMAIN last) /\ Cardinality(DOMAIN last) = Len(keys)
  /\ widths \in Seq(Int) /\ Len(widths) = Len(ColumnCap[f])
  /\ Marked(f, kept) /\ LastOf(kept, last)

Arrived ==
  /\ rows = [p \in Ui!Panes \ {"Shell"} |-> rows[p]]
  /\ order = [f \in Ui!Feeds |-> order[f]]
  /\ latest = [f \in Ui!Feeds |-> latest[f]]
  /\ columns = [f \in Ui!Feeds |-> columns[f]]
  /\ shellOut \in [Ui!Nodes -> Seq(Lines)]
  /\ rows["Log"] \in Seq(Lines) /\ Len(rows["Log"]) <= LogCap
  /\ \A f \in Ui!Feeds : FeedIs(f, rows[f], order[f], latest[f], columns[f])

Screen ==
  /\ view \in [Ui!Panes -> Views] /\ mode \in [Ui!Feeds -> Modes]
  /\ canView \in Ui!CanViews /\ focus \in Ui!Panes /\ maximized \in BOOLEAN
  /\ current \in Ui!Nodes
  /\ ~(mode["Bus"].editing /\ mode["Can"].editing)
  /\ selection \in Seq(Selected)

Typing ==
  /\ input \in Seq(DOMAIN Bytes) /\ cursor \in Ui!Boundaries(input)
  /\ history \in Seq(Seq(DOMAIN Bytes)) /\ Len(history) <= HistoryCap
  /\ recalled \in 0..Len(history)

PanesIInv == Arrived /\ Screen /\ Typing

-----------------------------------------------------------------------------
(* What is drawn *)

\* A pane on the screen has a row and a column within its borders.
LEMMA PaneIs ==
  ASSUME Screen, NEW p \in DOMAIN Ui!PaneRects
  PROVE  /\ p \in Ui!Panes
         /\ Ui!PaneRects[p].top \in Nat
         /\ Ui!PaneRects[p].height \in Nat /\ Ui!PaneRects[p].height >= 3
         /\ Ui!InnerHeight(p) \in Nat \ {0} /\ Ui!InnerWidth(p) \in Nat \ {0}
         /\ Ui!OutputHeight(p) \in Nat
         /\ p # "Shell" => Ui!OutputHeight(p) = Ui!InnerHeight(p)
<1> DEFINE r == Ui!PaneRects[p]
<1>1. focus \in Ui!Panes
  BY DEF Screen
<1>2. p \in Ui!Panes /\ r \in Ui!Range(NormalRect) \cup {MaximizedRect}
  BY <1>1, PanesAssumption DEF Ui!PaneRects, Ui!Range
<1>3. r.top \in Nat /\ r.height \in Nat /\ r.height >= 3 /\ r.width \in Nat /\ r.width >= 3
  <2> HIDE DEF r
  <2>1. QED
    BY <1>2, PanesAssumption
<1>4. Ui!InnerHeight(p) = r.height - 2 /\ Ui!InnerWidth(p) = r.width - 2
  BY DEF Ui!InnerHeight, Ui!InnerWidth
<1>5. Ui!OutputHeight(p) = IF p = "Shell" THEN r.height - 3 ELSE r.height - 2
  BY <1>3, <1>4 DEF Ui!OutputHeight
<1> HIDE DEF r
<1>6. QED
  BY <1>2, <1>3, <1>4, <1>5 DEF r

\* All the rows of a feed are rows, as they came or by key.
LEMMA AllAre ==
  ASSUME Arrived, NEW f \in Ui!Feeds
  PROVE  Ui!All(f) \in Seq(FeedRows(f))
<1>1. /\ rows[f] \in Seq(FeedRows(f)) /\ order[f] \in Seq(Keys(f))
      /\ latest[f] \in [Ui!Range(order[f]) -> FeedRows(f)]
  BY DEF Arrived, FeedIs
<1> DEFINE all == [i \in DOMAIN order[f] |-> latest[f][order[f][i]]]
<1>2. all \in Seq(FeedRows(f))
  <2>1. DOMAIN order[f] = 1..Len(order[f]) /\ Len(order[f]) \in Nat
    BY <1>1
  <2>2. \A i \in DOMAIN order[f] : latest[f][order[f][i]] \in FeedRows(f)
    BY <1>1 DEF Ui!Range
  <2>3. QED
    BY <2>1, <2>2
<1>3. QED
  BY <1>1, <1>2 DEF Ui!All

\* So are those that a filter leaves.
LEMMA CandidatesAre ==
  ASSUME Arrived, NEW f \in Ui!Feeds
  PROVE  Ui!Candidates(f) \in Seq(FeedRows(f))
<1> DEFINE all == Ui!All(f)
           N == Len(all)
           S == FeedRows(f)
           Next1(n, kept) == IF Ui!Matches(f, all[n]) THEN Append(kept, all[n]) ELSE kept
           step == [x \in (1..N) \X Seq(S) |-> Next1(x[1], x[2])]
           Is(g) == g = [n \in 0..N |-> IF n = 0 THEN <<>> ELSE Next1(n, g[n - 1])]
<1>1. all \in Seq(S)
  BY AllAre
<1> HIDE DEF all, S
<1>2. N \in Nat /\ \A n \in 1..N : all[n] \in S
  BY <1>1
<1>3. \A n \in 1..N : \A kept \in Seq(S) : Next1(n, kept) \in Seq(S)
  BY <1>2
<1>4. step \in [(1..N) \X Seq(S) -> Seq(S)]
  <2> HIDE DEF Next1
  <2>1. QED
    BY <1>3
<1>5. \E g \in [0..N -> Seq(S)] : Goes(g, N, <<>>, step)
  <2>1. <<>> \in Seq(S)
    OBVIOUS
  <2> HIDE DEF N, step
  <2>2. QED
    BY <1>2, <1>4, <2>1, RecursionExists, Zenon
<1>6. PICK g \in [0..N -> Seq(S)] : g[0] = <<>> /\ \A n \in 1..N : g[n] = step[<<n, g[n - 1]>>]
  BY <1>5 DEF Goes
<1>7. \A n \in 1..N : g[n] = Next1(n, g[n - 1])
  <2>1. TAKE n \in 1..N
  <2>2. g[n - 1] \in Seq(S)
    BY <1>2
  <2> HIDE DEF Next1
  <2>3. QED
    BY <1>6, <2>2
<1>8. Is(g)
  <2> HIDE DEF Next1
  <2>1. QED
    BY <1>6, <1>7
<1>9. Ui!Kept(f) = CHOOSE k : Is(k)
  BY DEF Ui!Kept, all
<1>10. Is(Ui!Kept(f))
  <2> HIDE DEF Is
  <2>1. QED
    BY <1>8, <1>9
<1> DEFINE k == Ui!Kept(f)
<1>11. k[0] = <<>> /\ \A n \in 1..N : k[n] = Next1(n, k[n - 1])
  <2> HIDE DEF k, Next1
  <2>1. k = [n \in 0..N |-> IF n = 0 THEN <<>> ELSE Next1(n, k[n - 1])]
    BY <1>10 DEF k
  <2>2. QED
    BY <1>2, <2>1
<1> DEFINE T == {n \in 0..N : k[n] \in Seq(S)}
<1> HIDE DEF k, Next1
<1>12. 0 \in T /\ 0 \in 0..N
  <2>1. 0 \in 0..N
    BY <1>2
  <2>2. <<>> \in Seq(S)
    OBVIOUS
  <2>3. QED
    BY <1>11, <2>1, <2>2
<1>13. ASSUME NEW n \in 0..(N - 1), n \in T PROVE n + 1 \in T
  <2>1. n + 1 \in 1..N /\ (n + 1) - 1 = n /\ n + 1 \in 0..N
    BY <1>2
  <2>2. QED
    BY <1>3, <1>11, <1>13, <2>1
<1> HIDE DEF T
<1>14. \A n \in 0..N : n \in T
  BY <1>2, <1>12, <1>13, UpTo
<1>15. k[N] \in Seq(S)
  BY <1>2, <1>14 DEF T
<1>16. QED
  BY <1>15 DEF Ui!Candidates, k, all, S

-----------------------------------------------------------------------------
(* Their lines *)

\* What is added up is a number.
LEMMA SumIs ==
  ASSUME NEW numbers \in Seq(Int)
  PROVE  Ui!Sum(numbers) \in Int
  BY SumsAre DEF Ui!Sum

\* A remainder and a quotient.
LEMMA DivisionIs ==
  ASSUME NEW a \in Nat, NEW w \in Nat \ {0}
  PROVE  a \div w \in Nat /\ a % w \in 0..(w - 1)
  OBVIOUS

\* Each word of a line takes a column at least.
LEMMA WidthIs ==
  ASSUME NEW line \in Lines
  PROVE  LET letters == [i \in DOMAIN line |-> line[i][1] + line[i][2]]
         IN  /\ letters \in Seq(Int) /\ Len(letters) = Len(line)
             /\ \A i \in DOMAIN letters : letters[i] >= 1
             /\ Ui!Width(line) = Ui!Sums(letters)[Len(line)]
             /\ Ui!Width(line) \in Nat /\ Ui!Width(line) >= Len(line)
<1> DEFINE letters == [i \in DOMAIN line |-> line[i][1] + line[i][2]]
           N == Len(line)
<1>1. line \in Seq(Nat \X (Nat \ {0}))
  BY DEF Lines
<1>2. N \in Nat /\ DOMAIN line = 1..N /\ \A i \in 1..N : line[i][1] \in Nat /\ line[i][2] \in Nat \ {0}
  BY <1>1
<1>3. \A i \in 1..N : line[i][1] + line[i][2] \in Int /\ line[i][1] + line[i][2] >= 1
  BY <1>2
<1>4. letters \in Seq(Int) /\ Len(letters) = N /\ \A i \in DOMAIN letters : letters[i] >= 1
  BY <1>2, <1>3
<1>5. Ui!Width(line) = Ui!Sums(letters)[N]
  BY <1>4 DEF Ui!Width, Ui!Sum
<1>6. Ui!Sums(letters)[0] = 0 /\ Ui!Sums(letters)[N] \in Int /\ Ui!Sums(letters)[N] - Ui!Sums(letters)[0] >= N - 0
  <2> HIDE DEF letters
  <2>1. 0 \in 0..Len(letters) /\ N \in 0..Len(letters)
    BY <1>2, <1>4
  <2>2. QED
    BY <1>4, <2>1, SumsAre, SumsGrow
<1>7. QED
  BY <1>2, <1>4, <1>5, <1>6

\* So a line has a width.
LEMMA WidthIsNumber == \A line \in Lines : Ui!Width(line) \in Nat
  BY WidthIs

\* What is shown of a text is a line, and no empty one of a key or a value.
LEMMA TextIs ==
  /\ \A t \in Text : TextOf[t] \in Lines /\ Ui!Width(TextOf[t]) \in Nat
  /\ \A t \in Filled : t \in Text /\ TextOf[t] # <<>> /\ Ui!Width(TextOf[t]) >= 1
<1>1. \A t \in Text : TextOf[t] \in Lines
  BY PanesAssumption DEF Text
<1>2. \A t \in Text : Ui!Width(TextOf[t]) \in Nat /\ Ui!Width(TextOf[t]) >= Len(TextOf[t])
  BY <1>1, WidthIs
<1>3. \A t \in Filled : t \in Text /\ TextOf[t] # <<>> /\ TextOf[t] \in Lines
  BY <1>1 DEF Filled
<1>4. \A line \in Lines : line # <<>> => Len(line) \in Nat /\ Len(line) >= 1
  BY DEF Lines
<1>5. QED
  BY <1>1, <1>2, <1>3, <1>4

\* A line after blanks is a line, and so is one after a word.
LEMMA IndentedIs ==
  ASSUME NEW line \in Lines, NEW number \in Nat
  PROVE  /\ line # <<>> => Ui!Indented(number, line) \in Lines /\ Ui!Indented(number, line) # <<>>
         /\ number # 0 => Ui!Labelled(number, line) \in Lines /\ Ui!Labelled(number, line) # <<>>
<1>1. line \in Seq(Nat \X (Nat \ {0}))
  BY DEF Lines
<1>2. CASE line = <<>>
  BY <1>2 DEF Lines, Ui!Labelled
<1>3. CASE line # <<>>
  <2> DEFINE word == line[1]
             blanks == [word EXCEPT ![1] = @ + number]
             letters == [word EXCEPT ![2] = @ + number]
  <2>1. word \in Nat \X (Nat \ {0}) /\ 1 \in DOMAIN line
    BY <1>1, <1>3
  <2>2. PICK a \in Nat, b \in Nat \ {0} : word = <<a, b>>
    BY <2>1
  <2>3. blanks = <<a + number, b>> /\ letters = <<a, b + number>>
    BY <2>2
  <2>4. blanks \in Nat \X (Nat \ {0}) /\ letters \in Nat \X (Nat \ {0})
    BY <2>3
  <2>5. Ui!Indented(number, line) = [line EXCEPT ![1] = blanks] /\ Ui!Labelled(number, line) = [line EXCEPT ![1] = letters]
    BY <1>3 DEF Ui!Indented, Ui!Labelled
  <2> HIDE DEF blanks, letters, word
  <2>6. \A w \in Nat \X (Nat \ {0}) :
          [line EXCEPT ![1] = w] \in Seq(Nat \X (Nat \ {0})) /\ [line EXCEPT ![1] = w] # <<>>
    BY <1>1, <1>3
  <2>7. QED
    BY <2>4, <2>5, <2>6 DEF Lines
<1>4. QED
  BY <1>2, <1>3

\* One line after another is a line.
LEMMA LinesJoin ==
  ASSUME NEW a \in Lines, NEW b \in Lines
  PROVE  a \o b \in Lines /\ (b # <<>> => a \o b # <<>>)
<1>1. a \in Seq(Nat \X (Nat \ {0})) /\ b \in Seq(Nat \X (Nat \ {0}))
  BY DEF Lines
<1>2. a \o b \in Seq(Nat \X (Nat \ {0})) /\ Len(a \o b) = Len(a) + Len(b)
  BY <1>1, ConcatProperties
<1>3. b # <<>> => Len(a \o b) # 0
  BY <1>1, <1>2
<1>4. QED
  BY <1>2, <1>3 DEF Lines

\* The signals of a frame make a line, and so is it drawn.
LEMMA SignalsLineIs ==
  ASSUME NEW signals \in Signals
  PROVE  Ui!SignalsLine(signals) \in Lines /\ (signals # <<>> => Ui!SignalsLine(signals) # <<>>)
<1> DEFINE N == Len(signals)
           Word(n) == Ui!Indented(IF n = 1 THEN 0 ELSE 1,
                        Ui!Labelled(Ui!Width(TextOf[signals[n][1]]) + 1, TextOf[signals[n][2]]))
           Longer(n, line) == line \o Word(n)
           step == [x \in (1..N) \X Lines |-> Longer(x[1], x[2])]
           Is(g) == g = [n \in 0..N |-> IF n = 0 THEN <<>> ELSE Longer(n, g[n - 1])]
<1>1. signals \in Seq(Text \X Text)
  BY DEF Signals
<1>2. N \in Nat /\ \A n \in 1..N : signals[n][1] \in Text /\ signals[n][2] \in Text
  BY <1>1
<1>3. ASSUME NEW n \in 1..N PROVE Word(n) \in Lines /\ Word(n) # <<>>
  <2> DEFINE letters == Ui!Width(TextOf[signals[n][1]]) + 1
             value == TextOf[signals[n][2]]
             labelled == Ui!Labelled(letters, value)
             blanks == IF n = 1 THEN 0 ELSE 1
  <2>1. letters \in Nat /\ letters # 0 /\ value \in Lines
    <3>1. Ui!Width(TextOf[signals[n][1]]) \in Nat /\ value \in Lines
      BY <1>2, TextIs
    <3>2. QED
      BY <3>1
  <2>2. blanks \in Nat /\ Word(n) = Ui!Indented(blanks, labelled)
    OBVIOUS
  <2> HIDE DEF letters, value, blanks, Word
  <2>3. labelled \in Lines /\ labelled # <<>>
    BY <2>1, IndentedIs
  <2> HIDE DEF labelled
  <2>4. QED
    BY <2>2, <2>3, IndentedIs
<1> HIDE DEF N, Word
<1>4. \A n \in 1..N : \A line \in Lines : Longer(n, line) \in Lines
  BY <1>3, LinesJoin
<1> HIDE DEF Longer
<1>5. step \in [(1..N) \X Lines -> Lines]
  BY <1>4
<1>6. <<>> \in Lines
  BY DEF Lines
<1>7. \E g \in [0..N -> Lines] : Goes(g, N, <<>>, step)
  <2> HIDE DEF step
  <2>1. QED
    BY <1>2, <1>5, <1>6, RecursionExists, Zenon
<1>8. PICK g \in [0..N -> Lines] : g[0] = <<>> /\ \A n \in 1..N : g[n] = step[<<n, g[n - 1]>>]
  BY <1>7 DEF Goes
<1>9. \A n \in 1..N : g[n] = Longer(n, g[n - 1])
  <2>1. TAKE n \in 1..N
  <2>2. g[n - 1] \in Lines
    BY <1>2
  <2>3. QED
    BY <1>8, <2>2
<1>10. Is(g)
  BY <1>8, <1>9
<1> DEFINE line == CHOOSE k : Is(k)
<1>11. Ui!SignalsLine(signals) = line[N]
  BY DEF Ui!SignalsLine, N, Word, Longer
<1>12. Is(line)
  <2> HIDE DEF Is
  <2>1. QED
    BY <1>10
<1> HIDE DEF line
<1>13. line[0] = <<>> /\ \A n \in 1..N : line[n] = Longer(n, line[n - 1])
  <2>1. line = [n \in 0..N |-> IF n = 0 THEN <<>> ELSE Longer(n, line[n - 1])]
    BY <1>12
  <2>2. QED
    BY <1>2, <2>1
<1> DEFINE T == {n \in 0..N : line[n] \in Lines}
<1>14. 0 \in T /\ 0 \in 0..N
  BY <1>2, <1>6, <1>13
<1>15. ASSUME NEW n \in 0..(N - 1), n \in T PROVE n + 1 \in T
  <2>1. n + 1 \in 1..N /\ (n + 1) - 1 = n /\ n + 1 \in 0..N
    BY <1>2
  <2>2. QED
    BY <1>4, <1>13, <1>15, <2>1
<1> HIDE DEF T
<1>16. \A n \in 0..N : n \in T
  BY <1>2, <1>14, <1>15, UpTo
<1>17. \A n \in 0..N : line[n] \in Lines
  BY <1>16 DEF T
<1>18. line[N] \in Lines
  BY <1>2, <1>17
<1>19. ASSUME signals # <<>> PROVE line[N] # <<>>
  <2>1. N \in 1..N /\ N - 1 \in 0..N
    BY <1>1, <1>2, <1>19 DEF N
  <2>2. line[N] = line[N - 1] \o Word(N) /\ line[N - 1] \in Lines
    BY <1>13, <1>17, <2>1 DEF Longer
  <2>3. QED
    BY <1>3, <2>1, <2>2, LinesJoin
<1>20. QED
  BY <1>11, <1>18, <1>19

\* A word more takes no row away, and if it fits none more.
LEMMA WithWordIs ==
  ASSUME NEW place \in [rows : Nat \ {0}, used : Nat], NEW word \in Nat \X (Nat \ {0}), NEW width \in Nat \ {0}
  PROVE  /\ Ui!WithWord(place, word, width) \in [rows : Nat \ {0}, used : Nat]
         /\ place.used + (word[1] + word[2]) <= width
            => Ui!WithWord(place, word, width) = [rows |-> place.rows, used |-> place.used + (word[1] + word[2])]
<1> DEFINE used == place.used + word[1] + word[2]
           lead == IF place.used = 0 THEN word[1] ELSE Ui!Max({word[1] - (width - place.used) - 1, 0})
           begin == place.rows + (IF place.used = 0 THEN 0 ELSE 1) + lead \div (width + 1)
           end == (lead % (width + 1)) + word[2]
<1>1. place.rows \in Nat \ {0} /\ place.used \in Nat /\ word[1] \in Nat /\ word[2] \in Nat \ {0}
  OBVIOUS
<1>2. Ui!WithWord(place, word, width)
        = IF used <= width THEN [rows |-> place.rows, used |-> used]
          ELSE [rows |-> begin + (end - 1) \div width, used |-> ((end - 1) % width) + 1]
  BY DEF Ui!WithWord
<1>3. used \in Nat /\ used = place.used + (word[1] + word[2])
  BY <1>1
<1>4. lead \in Nat
  <2>1. Ui!Max({word[1] - (width - place.used) - 1, 0}) \in Nat
    <3> DEFINE over == word[1] - (width - place.used) - 1
    <3>1. over \in Int
      BY <1>1
    <3> HIDE DEF over
    <3>2. Ui!Max({over, 0}) = IF over >= 0 THEN over ELSE 0
      BY <3>1, GreaterOfTwo
    <3>3. QED
      BY <3>1, <3>2 DEF over
  <2>2. QED
    BY <1>1, <2>1
<1> HIDE DEF lead
<1>5. width + 1 \in Nat \ {0}
  OBVIOUS
<1>6. lead \div (width + 1) \in Nat /\ lead % (width + 1) \in Nat
  <2> DEFINE w == width + 1
  <2>1. w \in Nat \ {0}
    BY <1>5
  <2> HIDE DEF w
  <2>2. lead \div w \in Nat /\ lead % w \in 0..(w - 1)
    BY <1>4, <2>1, DivisionIs
  <2>3. lead % w \in Nat
    BY <2>1, <2>2
  <2>4. QED
    BY <2>2, <2>3 DEF w
<1>7. begin \in Nat \ {0} /\ end - 1 \in Nat
  <2> DEFINE q == lead \div (width + 1)
             r == lead % (width + 1)
  <2>1. q \in Nat /\ r \in Nat
    BY <1>6
  <2> HIDE DEF q, r
  <2>2. place.rows + (IF place.used = 0 THEN 0 ELSE 1) + q \in Nat \ {0} /\ (r + word[2]) - 1 \in Nat
    BY <1>1, <2>1
  <2>3. QED
    BY <2>2 DEF q, r
<1> HIDE DEF begin, end
<1>8. (end - 1) \div width \in Nat /\ (end - 1) % width \in Nat
  <2> DEFINE e == end - 1
  <2>1. e \in Nat
    BY <1>7
  <2> HIDE DEF e
  <2>2. e \div width \in Nat /\ e % width \in 0..(width - 1)
    BY <2>1, DivisionIs
  <2>3. QED
    BY <2>2 DEF e
<1> DEFINE q == (end - 1) \div width
           r == (end - 1) % width
<1>9. begin + q \in Nat \ {0} /\ r + 1 \in Nat
  <2>1. q \in Nat /\ r \in Nat
    BY <1>8
  <2> HIDE DEF q, r
  <2>2. QED
    BY <1>7, <2>1
<1> HIDE DEF q, r, used
<1>10. QED
  BY <1>1, <1>2, <1>3, <1>9 DEF q, r

\* A line takes a row at least as it is drawn, and no more if it fits one.
LEMMA WrappedIs ==
  ASSUME NEW line \in Lines, NEW width \in Nat \ {0}
  PROVE  /\ Ui!WrappedRows(line, width) \in Int /\ Ui!WrappedRows(line, width) >= 1
         /\ Ui!Width(line) <= width => Ui!WrappedRows(line, width) = 1
<1> DEFINE N == Len(line)
           S == [rows : Nat \ {0}, used : Nat]
           empty == [rows |-> 1, used |-> 0]
           With(n, a) == Ui!WithWord(a, line[n], width)
           step == [x \in (1..N) \X S |-> With(x[1], x[2])]
           Is(g) == g = [n \in 0..N |-> IF n = 0 THEN empty ELSE With(n, g[n - 1])]
<1>1. N \in Nat /\ DOMAIN line = 1..N /\ \A n \in 1..N : line[n] \in Nat \X (Nat \ {0})
  <2>1. line \in Seq(Nat \X (Nat \ {0}))
    BY DEF Lines
  <2>2. QED
    BY <2>1
<1>2. empty \in S
  OBVIOUS
<1> HIDE DEF S
<1>3. \A n \in 1..N : \A a \in S : With(n, a) \in S
  BY <1>1, WithWordIs DEF S
<1> HIDE DEF With, N, empty
<1>4. step \in [(1..N) \X S -> S]
  BY <1>3
<1>5. \E g \in [0..N -> S] : Goes(g, N, empty, step)
  <2> HIDE DEF step
  <2>1. QED
    BY <1>1, <1>2, <1>4, RecursionExists, Zenon
<1>6. PICK g \in [0..N -> S] : g[0] = empty /\ \A n \in 1..N : g[n] = step[<<n, g[n - 1]>>]
  BY <1>5 DEF Goes
<1>7. \A n \in 1..N : g[n] = With(n, g[n - 1])
  <2>1. TAKE n \in 1..N
  <2>2. g[n - 1] \in S
    BY <1>1
  <2>3. QED
    BY <1>6, <2>2
<1>8. Is(g)
  BY <1>6, <1>7
<1> DEFINE wrapped == CHOOSE k : Is(k)
<1>9. Ui!WrappedRows(line, width) = wrapped[N].rows
  BY DEF Ui!WrappedRows, N, With, empty
<1>10. Is(wrapped)
  <2> HIDE DEF Is
  <2>1. QED
    BY <1>8
<1> HIDE DEF wrapped
<1>11. wrapped[0] = empty /\ \A n \in 1..N : wrapped[n] = With(n, wrapped[n - 1])
  <2>1. wrapped = [n \in 0..N |-> IF n = 0 THEN empty ELSE With(n, wrapped[n - 1])]
    BY <1>10
  <2>2. QED
    BY <1>1, <2>1
<1>12. \A n \in 0..N : wrapped[n] \in S
  <2> DEFINE T == {n \in 0..N : wrapped[n] \in S}
  <2>1. 0 \in T /\ 0 \in 0..N
    BY <1>1, <1>2, <1>11
  <2>2. ASSUME NEW n \in 0..(N - 1), n \in T PROVE n + 1 \in T
    <3>1. n + 1 \in 1..N /\ (n + 1) - 1 = n /\ n + 1 \in 0..N
      BY <1>1
    <3>2. QED
      BY <1>3, <1>11, <2>2, <3>1
  <2> HIDE DEF T
  <2>3. \A n \in 0..N : n \in T
    BY <1>1, <2>1, <2>2, UpTo
  <2>4. QED
    BY <2>3 DEF T
<1>13. N \in 0..N /\ wrapped[N].rows \in Nat \ {0}
  <2>1. N \in 0..N /\ wrapped[N] \in S
    BY <1>1, <1>12
  <2>2. QED
    BY <2>1 DEF S
<1>14. ASSUME Ui!Width(line) <= width PROVE wrapped[N].rows = 1
  <2> DEFINE letters == [i \in DOMAIN line |-> line[i][1] + line[i][2]]
             sums == Ui!Sums(letters)
             T == {n \in 0..N : wrapped[n] = [rows |-> 1, used |-> sums[n]]}
  <2>1. /\ letters \in Seq(Int) /\ Len(letters) = N /\ \A i \in DOMAIN letters : letters[i] >= 1
        /\ Ui!Width(line) = sums[N] /\ Ui!Width(line) \in Nat
    BY WidthIs DEF N
  <2>2. \A n \in 1..N : letters[n] = line[n][1] + line[n][2]
    BY <1>1
  <2> HIDE DEF letters
  <2>3. sums \in [0..N -> Int] /\ sums[0] = 0 /\ \A n \in 1..N : sums[n] = sums[n - 1] + letters[n]
    BY <2>1, SumsAre
  <2>4. ASSUME NEW n \in 0..N PROVE sums[n] \in Nat /\ sums[n] <= width
    <3>1. n \in Int /\ N \in Int /\ 0 <= n /\ n <= N /\ 0 \in 0..Len(letters) /\ n \in 0..Len(letters)
          /\ N \in n..Len(letters) /\ n \in 0..Len(letters)
      BY <1>1, <2>1
    <3>2. sums[n] - sums[0] >= n - 0 /\ sums[N] - sums[n] >= N - n
      BY <2>1, <3>1, SumsGrow
    <3>3. sums[n] \in Int /\ sums[N] \in Int /\ sums[0] = 0 /\ sums[N] <= width
      BY <1>13, <1>14, <2>1, <2>3
    <3> HIDE DEF sums
    <3>4. QED
      BY <3>1, <3>2, <3>3
  <2> HIDE DEF sums
  <2>5. 0 \in T /\ 0 \in 0..N
    BY <1>1, <1>11, <2>3 DEF empty
  <2>6. ASSUME NEW n \in 0..(N - 1), n \in T PROVE n + 1 \in T
    <3>1. n + 1 \in 1..N /\ (n + 1) - 1 = n /\ n + 1 \in 0..N /\ n \in 0..N
      BY <1>1
    <3> DEFINE place == [rows |-> 1, used |-> sums[n]]
               word == line[n + 1]
    <3>2. wrapped[n] = place /\ wrapped[n + 1] = Ui!WithWord(place, word, width)
      <4>1. wrapped[n] = place
        BY <2>6
      <4>2. QED
        BY <1>11, <3>1, <4>1 DEF With
    <3>3. place \in [rows : Nat \ {0}, used : Nat] /\ word \in Nat \X (Nat \ {0}) /\ place.used = sums[n] /\ place.rows = 1
      BY <1>1, <2>4, <3>1
    <3>4. sums[n + 1] = sums[n] + (word[1] + word[2]) /\ sums[n + 1] <= width
      BY <2>2, <2>3, <2>4, <3>1
    <3> HIDE DEF place, word
    <3>5. Ui!WithWord(place, word, width) = [rows |-> 1, used |-> sums[n + 1]]
      <4>1. place.used + (word[1] + word[2]) = sums[n + 1]
        BY <3>3, <3>4
      <4>2. Ui!WithWord(place, word, width) = [rows |-> place.rows, used |-> place.used + (word[1] + word[2])]
        BY <3>3, <3>4, <4>1, WithWordIs
      <4>3. QED
        BY <3>3, <4>1, <4>2
    <3>6. QED
      BY <3>1, <3>2, <3>5
  <2>7. \A n \in 0..N : n \in T
    <3> HIDE DEF T
    <3>1. QED
      BY <1>1, <2>5, <2>6, UpTo
  <2>8. wrapped[N] = [rows |-> 1, used |-> sums[N]]
    BY <1>13, <2>7
  <2>9. QED
    BY <2>8
<1>15. QED
  BY <1>9, <1>13, <1>14

\* A column has a width, and so have those before the body of a row.
LEMMA PrefixIs ==
  ASSUME Arrived, NEW f \in Ui!Feeds
  PROVE  /\ DOMAIN columns[f] = 1..Len(ColumnCap[f]) /\ Len(ColumnCap[f]) \in Nat \ {0}
         /\ \A i \in DOMAIN columns[f] : Ui!ColumnWidth(f, i) \in Nat \ {0}
         /\ Ui!Prefix(f) \in Int
<1> DEFINE widths == columns[f]
           numbers == [i \in DOMAIN widths |-> Ui!ColumnWidth(f, i) + 2]
<1>1. widths \in Seq(Int) /\ Len(widths) = Len(ColumnCap[f])
  BY DEF Arrived, FeedIs
<1>2. ColumnCap[f] \in Seq(Nat) /\ ColumnCap[f] # <<>>
  BY PanesAssumption
<1> HIDE DEF widths
<1>3. DOMAIN widths = 1..Len(widths) /\ Len(widths) \in Nat \ {0} /\ \A i \in DOMAIN widths : widths[i] \in Int
  BY <1>1, <1>2
<1>4. \A i \in DOMAIN widths : Ui!ColumnWidth(f, i) \in Nat \ {0}
  <2>1. TAKE i \in DOMAIN widths
  <2>2. Ui!ColumnWidth(f, i) = Ui!Max({widths[i], 1}) /\ widths[i] \in Int
    BY <1>3 DEF Ui!ColumnWidth, widths
  <2>3. Ui!Max({widths[i], 1}) = IF widths[i] >= 1 THEN widths[i] ELSE 1
    BY <2>2, GreaterOfTwo
  <2>4. QED
    BY <2>2, <2>3
<1>5. numbers \in Seq(Int)
  BY <1>3, <1>4
<1>6. Ui!Sum(numbers) \in Int
  <2> HIDE DEF numbers
  <2>1. QED
    BY <1>5, SumIs
<1>7. Ui!Prefix(f) = Ui!Sum(numbers) + 9 + 2
  BY DEF Ui!Prefix, Ui!RateWidth, widths
<1>8. QED
  BY <1>1, <1>3, <1>4, <1>6, <1>7 DEF widths

\* The columns of a key make a line, and what is left of the last is a number.
LEMMA KeyLineIs ==
  ASSUME Arrived, NEW f \in Ui!Feeds, NEW key \in Keys(f)
  PROVE  Ui!KeyLine(f, key).line \in Lines /\ Ui!KeyLine(f, key).left \in Nat
<1> DEFINE letters == [i \in DOMAIN key |-> Ui!Min({Ui!Width(TextOf[key[i]]), Ui!ColumnWidth(f, i)})]
           left == [i \in DOMAIN key |-> Ui!ColumnWidth(f, i) - letters[i]]
           line == [i \in DOMAIN key |-> <<IF i = 1 THEN 0 ELSE left[i - 1] + 2, letters[i]>>]
           N == Len(key)
<1>1. key \in Seq(Filled) /\ N = Len(ColumnCap[f])
  BY DEF Keys
<1>2. /\ DOMAIN key = 1..N /\ N \in Nat \ {0} /\ \A i \in 1..N : key[i] \in Filled
      /\ \A i \in 1..N : Ui!ColumnWidth(f, i) \in Nat \ {0}
  BY <1>1, PrefixIs
<1>3. ASSUME NEW i \in 1..N PROVE letters[i] \in Nat \ {0} /\ left[i] \in Nat
  <2> DEFINE width == Ui!Width(TextOf[key[i]])
             column == Ui!ColumnWidth(f, i)
  <2>1. width \in Int /\ width >= 1 /\ column \in Nat \ {0}
    <3>1. key[i] \in Filled /\ key[i] \in Text
      BY <1>2, TextIs
    <3>2. QED
      BY <1>2, <3>1, TextIs
  <2>2. letters[i] = Ui!Min({width, column}) /\ left[i] = column - letters[i]
    BY <1>2
  <2> HIDE DEF width, column, letters, left
  <2>3. Ui!Min({width, column}) = IF width <= column THEN width ELSE column
    BY <2>1, LessOfTwo
  <2>4. QED
    BY <2>1, <2>2, <2>3
<1>4. Ui!KeyLine(f, key) = [line |-> line, left |-> left[N]]
  BY DEF Ui!KeyLine
<1> HIDE DEF letters, left
<1>5. ASSUME NEW i \in 1..N PROVE (IF i = 1 THEN 0 ELSE left[i - 1] + 2) \in Nat
  <2>1. CASE i = 1
    BY <2>1
  <2>2. CASE i # 1
    <3>1. i - 1 \in 1..N
      BY <1>2, <2>2
    <3>2. left[i - 1] \in Nat
      BY <1>3, <3>1
    <3>3. QED
      BY <2>2, <3>2
  <2>3. QED
    BY <2>1, <2>2
<1>6. line \in Seq(Nat \X (Nat \ {0}))
  BY <1>2, <1>3, <1>5
<1>7. N \in 1..N
  BY <1>2
<1>8. QED
  BY <1>3, <1>4, <1>6, <1>7 DEF Lines

\* And what is shown of a value makes one, which is not empty.
LEMMA BodyLineIs ==
  ASSUME Screen, NEW f \in Ui!Feeds, NEW body \in Bodies(f)
  PROVE  Ui!BodyLine(f, body) \in Lines /\ Ui!BodyLine(f, body) # <<>>
<1>1. CASE f = "Bus"
  <2>1. body \in Filled
    BY <1>1 DEF Bodies
  <2>2. TextOf[body] \in Lines /\ TextOf[body] # <<>>
    BY <2>1, TextIs
  <2>3. QED
    BY <1>1, <2>2 DEF Ui!BodyLine
<1>2. CASE f = "Can"
  <2> DEFINE signals == Ui!SignalsLine(body.signals)
             raw == Ui!Labelled(4, TextOf[body.raw])
  <2>1. body.signals \in Signals /\ body.raw \in Text
    BY <1>2 DEF Bodies
  <2>2. signals \in Lines /\ (body.signals # <<>> => signals # <<>>)
    BY <2>1, SignalsLineIs
  <2>3. raw \in Lines /\ raw # <<>>
    <3>1. TextOf[body.raw] \in Lines /\ 4 \in Nat /\ 4 # 0
      BY <2>1, TextIs
    <3>2. QED
      BY <3>1, IndentedIs
  <2>4. Ui!NoDecode \in Lines /\ Ui!Bar \in Lines
    BY DEF Ui!NoDecode, Ui!Bar, Lines
  <2>5. Ui!BodyLine(f, body) =
          CASE canView = "raw" -> raw
            [] canView = "decoded" ->
                 IF body.signals = <<>> THEN Ui!NoDecode \o Ui!Indented(1, raw) ELSE signals
            [] canView = "both" ->
                 IF body.signals = <<>> THEN raw ELSE signals \o Ui!Bar \o Ui!Indented(1, raw)
    BY <1>2 DEF Ui!BodyLine
  <2> HIDE DEF signals, raw
  <2>6. Ui!Indented(1, raw) \in Lines /\ Ui!Indented(1, raw) # <<>>
    BY <2>3, IndentedIs
  <2>7. Ui!NoDecode \o Ui!Indented(1, raw) \in Lines /\ Ui!NoDecode \o Ui!Indented(1, raw) # <<>>
    BY <2>4, <2>6, LinesJoin
  <2>8. signals \o Ui!Bar \in Lines
    BY <2>2, <2>4, LinesJoin
  <2>9. (signals \o Ui!Bar) \o Ui!Indented(1, raw) \in Lines /\ (signals \o Ui!Bar) \o Ui!Indented(1, raw) # <<>>
    BY <2>6, <2>8, LinesJoin
  <2> DEFINE undecoded == Ui!NoDecode \o Ui!Indented(1, raw)
             both == (signals \o Ui!Bar) \o Ui!Indented(1, raw)
  <2>10. undecoded \in Lines /\ undecoded # <<>> /\ both \in Lines /\ both # <<>>
    BY <2>7, <2>9
  <2>11. Ui!BodyLine(f, body) =
          CASE canView = "raw" -> raw
            [] canView = "decoded" -> IF body.signals = <<>> THEN undecoded ELSE signals
            [] canView = "both" -> IF body.signals = <<>> THEN raw ELSE both
    BY <2>5
  <2>12. canView \in {"both", "decoded", "raw"}
    BY DEF Screen, Ui!CanViews
  <2> HIDE DEF undecoded, both
  <2>13. QED
    BY <2>2, <2>3, <2>10, <2>11, <2>12
<1>3. QED
  BY <1>1, <1>2 DEF Ui!Feeds

\* A row of a feed is drawn as a line.
LEMMA RowLineIs ==
  ASSUME Arrived, Screen, NEW f \in Ui!Feeds, NEW given \in FeedRows(f)
  PROVE  Ui!RowLine(f, given) \in Lines
<1> DEFINE key == Ui!KeyLine(f, given.key)
           body == Ui!BodyLine(f, given.body)
           rate == given.rate
           blank == key.left + 2 + Ui!RateWidth + 2
           word == <<key.left + 2 + Ui!Max({Ui!RateWidth - rate, 0}), rate>>
<1>1. given.key \in Keys(f) /\ given.body \in Bodies(f) /\ rate \in Nat
  BY DEF FeedRows
<1>2. key.line \in Lines /\ key.left \in Nat
  BY <1>1, KeyLineIs
<1>3. body \in Lines /\ body # <<>>
  BY <1>1, BodyLineIs
<1>4. Ui!RowLine(f, given) = key.line \o (IF rate = 0 THEN Ui!Indented(blank, body) ELSE <<word>> \o Ui!Indented(2, body))
  BY DEF Ui!RowLine
<1> HIDE DEF key, body, rate
<1>5. blank \in Nat
  BY <1>2 DEF Ui!RateWidth
<1>6. ASSUME rate # 0 PROVE <<word>> \in Lines
  <2>1. Ui!Max({9 - rate, 0}) \in Nat
    <3>1. 9 - rate \in Int
      BY <1>1
    <3>2. Ui!Max({9 - rate, 0}) = IF 9 - rate >= 0 THEN 9 - rate ELSE 0
      BY <3>1, GreaterOfTwo
    <3>3. QED
      BY <3>1, <3>2
  <2>2. word \in Nat \X (Nat \ {0})
    BY <1>1, <1>2, <1>6, <2>1 DEF Ui!RateWidth
  <2> HIDE DEF word
  <2>3. QED
    BY <2>2 DEF Lines
<1> HIDE DEF blank, word
<1>7. Ui!Indented(blank, body) \in Lines /\ Ui!Indented(2, body) \in Lines
  BY <1>3, <1>5, IndentedIs
<1>8. CASE rate = 0
  BY <1>2, <1>4, <1>7, <1>8, LinesJoin
<1>9. CASE rate # 0
  <2>1. <<word>> \o Ui!Indented(2, body) \in Lines
    BY <1>6, <1>7, <1>9, LinesJoin
  <2>2. QED
    BY <1>2, <1>4, <1>9, <2>1, LinesJoin
<1>10. QED
  BY <1>8, <1>9

\* The signals of a frame have a length.
LEMMA SignalsLengthIs ==
  ASSUME NEW signals \in Signals
  PROVE  Ui!SignalsLength(signals) \in Int
<1> DEFINE numbers == [i \in DOMAIN signals |-> Ui!Width(TextOf[signals[i][1]]) + Ui!Width(TextOf[signals[i][2]]) + 2]
<1>1. signals \in Seq(Text \X Text)
  BY DEF Signals
<1>2. DOMAIN signals = 1..Len(signals) /\ Len(signals) \in Nat /\ \A i \in DOMAIN signals : signals[i] \in Text \X Text
  BY <1>1
<1>3. \A i \in DOMAIN signals : Ui!Width(TextOf[signals[i][1]]) + Ui!Width(TextOf[signals[i][2]]) + 2 \in Int
  <2>1. TAKE i \in DOMAIN signals
  <2>2. Ui!Width(TextOf[signals[i][1]]) \in Nat /\ Ui!Width(TextOf[signals[i][2]]) \in Nat
    BY <1>2, TextIs
  <2>3. QED
    BY <2>2
<1>4. numbers \in Seq(Int)
  BY <1>2, <1>3
<1>5. Ui!Sum(numbers) \in Int
  <2> HIDE DEF numbers
  <2>1. QED
    BY <1>4, SumIs
<1>6. Ui!SignalsLength(signals) = Ui!Sum(numbers) - (IF signals = <<>> THEN 0 ELSE 1)
  BY DEF Ui!SignalsLength
<1>7. QED
  BY <1>5, <1>6

\* And the body of a row an estimate.
LEMMA EstimatedBodyIs ==
  ASSUME Screen, NEW f \in Ui!Feeds, NEW body \in Bodies(f)
  PROVE  Ui!EstimatedBody(f, body) \in Int
<1>1. CASE f = "Bus"
  <2>1. Ui!Width(TextOf[body]) \in Nat
    BY <1>1, TextIs DEF Bodies
  <2>2. QED
    BY <1>1, <2>1 DEF Ui!EstimatedBody
<1>2. CASE f = "Can"
  <2> DEFINE signals == Ui!SignalsLength(body.signals)
             raw == Ui!Width(TextOf[body.raw])
  <2>1. body.signals \in Signals /\ body.raw \in Text
    BY <1>2 DEF Bodies
  <2>2. signals \in Int /\ raw \in Int
    BY <2>1, TextIs, SignalsLengthIs
  <2>3. Ui!EstimatedBody(f, body) = Ui!EstimatedCan(signals, raw)
    BY <1>2 DEF Ui!EstimatedBody
  <2> HIDE DEF signals, raw
  <2>4. /\ Ui!Max({signals, raw + 4}) = IF signals >= raw + 4 THEN signals ELSE raw + 4
        /\ Ui!Max({signals, raw + 16}) = IF signals >= raw + 16 THEN signals ELSE raw + 16
    BY <2>2, GreaterOfTwo
  <2>5. canView \in {"both", "decoded", "raw"}
    BY DEF Screen, Ui!CanViews
  <2>6. QED
    BY <2>2, <2>3, <2>4, <2>5 DEF Ui!EstimatedCan
<1>3. QED
  BY <1>1, <1>2 DEF Ui!Feeds

\* The lines of a pane and their estimates, one for one.
LEMMA LinesOfAre ==
  ASSUME Arrived, Screen, NEW p \in Ui!Panes
  PROVE  /\ Ui!LinesOf(p) \in Seq(Lines) /\ Ui!Estimated(p) \in Seq(Int)
         /\ Len(Ui!Estimated(p)) = Len(Ui!LinesOf(p))
<1>1. CASE p \in {"Log", "Shell"}
  <2> DEFINE kept == Ui!LinesOf(p)
  <2>1. kept \in Seq(Lines)
    <3>1. rows["Log"] \in Seq(Lines) /\ shellOut[current] \in Seq(Lines)
      BY DEF Arrived, Screen
    <3>2. QED
      BY <1>1, <3>1 DEF Ui!LinesOf
  <2>2. Ui!Estimated(p) = [i \in DOMAIN kept |-> Ui!Width(kept[i])]
    BY <1>1 DEF Ui!Estimated, Ui!Feeds
  <2> HIDE DEF kept
  <2>3. DOMAIN kept = 1..Len(kept) /\ Len(kept) \in Nat /\ \A i \in DOMAIN kept : Ui!Width(kept[i]) \in Int
    <3>1. DOMAIN kept = 1..Len(kept) /\ Len(kept) \in Nat /\ \A i \in DOMAIN kept : kept[i] \in Lines
      BY <2>1
    <3>2. QED
      BY <3>1, WidthIsNumber
  <2>4. QED
    BY <2>1, <2>2, <2>3 DEF kept
<1>2. CASE p \in Ui!Feeds
  <2> DEFINE candidates == Ui!Candidates(p)
             N == Len(candidates)
  <2>1. candidates \in Seq(FeedRows(p)) /\ Ui!Prefix(p) \in Int
    BY <1>2, CandidatesAre, PrefixIs
  <2>2. /\ Ui!LinesOf(p) = [i \in DOMAIN candidates |-> Ui!RowLine(p, candidates[i])]
        /\ Ui!Estimated(p) = [i \in DOMAIN candidates |-> Ui!Prefix(p) + Ui!EstimatedBody(p, candidates[i].body)]
    BY <1>2 DEF Ui!LinesOf, Ui!Estimated, Ui!Feeds
  <2> HIDE DEF candidates
  <2>3. DOMAIN candidates = 1..N /\ N \in Nat /\ \A i \in 1..N : candidates[i] \in FeedRows(p)
    BY <2>1
  <2>4. \A i \in 1..N : Ui!RowLine(p, candidates[i]) \in Lines
    BY <1>2, <2>3, RowLineIs
  <2>5. \A i \in 1..N : Ui!Prefix(p) + Ui!EstimatedBody(p, candidates[i].body) \in Int
    <3>1. TAKE i \in 1..N
    <3>2. candidates[i].body \in Bodies(p)
      BY <2>3 DEF FeedRows
    <3>3. Ui!EstimatedBody(p, candidates[i].body) \in Int
      BY <1>2, <3>2, EstimatedBodyIs
    <3>4. QED
      BY <2>1, <3>3
  <2>6. QED
    BY <2>2, <2>3, <2>4, <2>5
<1>3. QED
  BY <1>1, <1>2 DEF Ui!Panes

\* The rows they take, as they are drawn and as a selection counts them.
LEMMA DrawnRowsAre ==
  ASSUME Arrived, Screen, NEW p \in DOMAIN Ui!PaneRects
  PROVE  LET kept == Ui!LinesOf(p)
             taken == Ui!DrawnRows(p)
             counted == Ui!VisibleLines(p).taken
         IN  /\ taken \in Heights /\ Len(taken) = Len(kept) /\ DOMAIN taken = DOMAIN kept
             /\ counted \in Heights /\ Len(counted) = Len(kept)
             /\ \A i \in DOMAIN kept : Ui!Width(kept[i]) <= Ui!InnerWidth(p) => taken[i] = 1 /\ counted[i] = 1
             /\ Ui!VisibleLines(p).start = Ui!Start(p, Ui!InnerHeight(p))
<1> DEFINE kept == Ui!LinesOf(p)
           N == Len(kept)
           width == Ui!InnerWidth(p)
           widths == [i \in DOMAIN kept |-> Ui!Width(kept[i])]
           taken == [i \in DOMAIN kept |-> Ui!WrappedRows(kept[i], width)]
           counted == Ui!TakenRows(widths, width)
<1>1. p \in Ui!Panes /\ width \in Nat \ {0}
  BY PaneIs
<1>2. kept \in Seq(Lines)
  BY <1>1, LinesOfAre
<1>3. /\ Ui!DrawnRows(p) = taken
      /\ Ui!VisibleLines(p).taken = counted /\ Ui!VisibleLines(p).start = Ui!Start(p, Ui!InnerHeight(p))
  BY DEF Ui!DrawnRows, Ui!VisibleLines
<1> HIDE DEF kept, width
<1>4. DOMAIN kept = 1..N /\ N \in Nat /\ \A i \in 1..N : kept[i] \in Lines
  BY <1>2
<1>5. ASSUME NEW i \in 1..N
      PROVE  /\ Ui!WrappedRows(kept[i], width) \in Int /\ Ui!WrappedRows(kept[i], width) >= 1
             /\ Ui!Width(kept[i]) <= width => Ui!WrappedRows(kept[i], width) = 1
             /\ Ui!Width(kept[i]) \in Int
             /\ Ui!Width(kept[i]) <= width => Ui!Taken(Ui!Width(kept[i]), width) = 1
  <2>1. kept[i] \in Lines
    BY <1>4
  <2>2. Ui!Width(kept[i]) \in Int
    BY <2>1, WidthIsNumber
  <2>3. QED
    BY <1>1, <2>1, <2>2, WrappedIs, TakenIs
<1>6. taken \in Heights /\ Len(taken) = N /\ DOMAIN taken = DOMAIN kept
  BY <1>4, <1>5 DEF Heights
<1>7. widths \in Seq(Int) /\ Len(widths) = N
  BY <1>4, <1>5
<1>8. counted \in Heights /\ Len(counted) = N
  <2> HIDE DEF widths
  <2>1. QED
    BY <1>1, <1>7, TakenRowsAre
<1>9. \A i \in DOMAIN kept : counted[i] = Ui!Taken(Ui!Width(kept[i]), width)
  BY DEF Ui!TakenRows
<1> HIDE DEF counted
<1>10. \A i \in DOMAIN kept : Ui!Width(kept[i]) <= width => taken[i] = 1 /\ counted[i] = 1
  BY <1>4, <1>5, <1>9
<1> HIDE DEF taken, N
<1>11. QED
  BY <1>3, <1>6, <1>8, <1>10 DEF kept, width, N

\* A pane shows its lines from its scroll position, or from the newest up.
LEMMA DisplayStartIs ==
  ASSUME NEW v \in Views, NEW bottom \in Nat
  PROVE  /\ Ui!DisplayStart(v, bottom) \in 0..bottom
         /\ v.follow => Ui!DisplayStart(v, bottom) = bottom
         /\ ~v.follow => Ui!DisplayStart(v, bottom) = IF v.scroll <= bottom THEN v.scroll ELSE bottom
<1>1. v.scroll \in Nat /\ v.follow \in BOOLEAN
  BY DEF Views
<1>2. Ui!Min({v.scroll, bottom}) = IF v.scroll <= bottom THEN v.scroll ELSE bottom
  BY <1>1, LessOfTwo
<1>3. QED
  BY <1>1, <1>2 DEF Ui!DisplayStart

\* And starts at one of its lines.
LEMMA BottomIs ==
  ASSUME Arrived, Screen, NEW p \in DOMAIN Ui!PaneRects, NEW height \in Nat
  PROVE  LET bottom == Ui!PaneBottomStart(p, height, Ui!InnerWidth(p))
         IN  /\ bottom \in Nat /\ bottom \in 0..Len(Ui!LinesOf(p))
             /\ Ui!Start(p, height) = Ui!DisplayStart(view[p], bottom)
             /\ Ui!Start(p, height) \in 0..Len(Ui!LinesOf(p))
<1> DEFINE width == Ui!InnerWidth(p)
           bottom == Ui!PaneBottomStart(p, height, width)
           N == Len(Ui!LinesOf(p))
<1>1. p \in Ui!Panes /\ width \in Nat \ {0}
  BY PaneIs
<1>2. Ui!Estimated(p) \in Seq(Int) /\ Len(Ui!Estimated(p)) = N /\ N \in Nat
  BY <1>1, LinesOfAre
<1>3. bottom \in 0..N
  BY <1>1, <1>2, VisibleStartIs DEF Ui!PaneBottomStart
<1>4. view[p] \in Views
  BY <1>1 DEF Screen
<1>5. Ui!Start(p, height) = Ui!DisplayStart(view[p], bottom)
  BY DEF Ui!Start
<1> HIDE DEF bottom, N
<1>6. bottom \in Nat
  BY <1>3
<1>7. Ui!DisplayStart(view[p], bottom) \in 0..bottom
  BY <1>4, <1>6, DisplayStartIs
<1>8. Ui!DisplayStart(view[p], bottom) \in 0..N
  BY <1>2, <1>3, <1>7
<1>9. QED
  BY <1>3, <1>5, <1>6, <1>8 DEF bottom, N

\* What a selection covers is within the borders of its pane.
LEMMA CoveredIs ==
  ASSUME Screen, NEW p \in DOMAIN Ui!PaneRects, NEW low \in Int, NEW high \in Int
  PROVE  Ui!Covered(p, low, high)
           \in SUBSET ((Ui!PaneRects[p].top + 1)..(Ui!PaneRects[p].top + Ui!InnerHeight(p)))
<1> DEFINE top == Ui!PaneRects[p].top
           height == Ui!PaneRects[p].height
<1>1. top \in Nat /\ height \in Nat
  BY PaneIs
<1>2. Ui!InnerHeight(p) = height - 2
  BY DEF Ui!InnerHeight
<1>3. Ui!Covered(p, low, high) = Ui!Max({low, top + 1})..Ui!Min({high, top + height - 2})
  BY DEF Ui!Covered
<1> HIDE DEF top, height
<1>4. /\ Ui!Max({low, top + 1}) \in Int /\ Ui!Max({low, top + 1}) >= top + 1
      /\ Ui!Min({high, top + height - 2}) \in Int /\ Ui!Min({high, top + height - 2}) <= top + height - 2
  BY <1>1, GreaterOfTwo, LessOfTwo
<1>5. QED
  BY <1>1, <1>2, <1>3, <1>4 DEF top

\* The ends of a selection are rows.
LEMMA EndsAre ==
  ASSUME Screen, NEW p \in DOMAIN Ui!PaneRects, NEW e \in Ui!SelectionEnds(p)
  PROVE  e[1] \in Int /\ e[2] \in Int
<1> DEFINE top == Ui!PaneRects[p].top
           last == top + Ui!PaneRects[p].height - 1
           OfSelection == {<<Ui!Min({s.anchor, s.end}), Ui!Max({s.anchor, s.end})>> : s \in Ui!Range(selection)}
<1>1. top \in Nat /\ last \in Int
  BY PaneIs
<1>2. Ui!SelectionEnds(p) = {<<row, row>> : row \in top..last} \cup {<<top, last>>} \cup OfSelection
  BY DEF Ui!SelectionEnds
<1>3. CASE e \in {<<row, row>> : row \in top..last} \cup {<<top, last>>}
  BY <1>1, <1>3
<1>4. CASE e \in OfSelection
  <2>1. PICK s \in Ui!Range(selection) : e = <<Ui!Min({s.anchor, s.end}), Ui!Max({s.anchor, s.end})>>
    BY <1>4
  <2>2. s \in Selected
    <3>1. PICK i \in DOMAIN selection : s = selection[i]
      BY DEF Ui!Range
    <3>2. selection \in Seq(Selected)
      BY DEF Screen
    <3>3. i \in 1..Len(selection)
      BY <3>2
    <3>4. QED
      BY <3>1, <3>2, <3>3, ElementOfSeq
  <2>3. s.anchor \in Int /\ s.end \in Int
    BY <2>2 DEF Selected
  <2>4. Ui!Min({s.anchor, s.end}) \in Int /\ Ui!Max({s.anchor, s.end}) \in Int
    BY <2>3, GreaterOfTwo, LessOfTwo
  <2>5. QED
    BY <2>1, <2>4
<1>5. QED
  BY <1>2, <1>3, <1>4

\* A selection copies the lines that it highlights, of those that agree.
LEMMA CopiesTrue ==
  ASSUME Arrived, Screen
  PROVE  Ui!CopiesWhatIsHighlighted
<1>1. ASSUME NEW p \in DOMAIN Ui!PaneRects \ {"Shell"}, NEW e \in Ui!SelectionEnds(p)
      PROVE  LET covered == Ui!Covered(p, e[1], e[2])
                 agreeing == Ui!Agreeing(p, Ui!VisibleLines(p))
             IN  Ui!SelectionLines(p, Ui!VisibleLines(p), covered) \cap agreeing
                   = Ui!Highlighted(Ui!Drawn(p), Ui!PaneRects[p].top, covered) \cap agreeing
  <2> DEFINE top == Ui!PaneRects[p].top
             height == Ui!InnerHeight(p)
             start == Ui!Start(p, height)
             taken == Ui!DrawnRows(p)
             visible == Ui!VisibleLines(p)
             counted == visible.taken
             covered == Ui!Covered(p, e[1], e[2])
             agreeing == Ui!Agreeing(p, visible)
             copied == Ui!SelectionLines(p, visible, covered)
             highlighted == Ui!Highlighted(Ui!Drawn(p), top, covered)
  <2>1. /\ p # "Shell" /\ top \in Int /\ Ui!PaneRects[p].height \in Nat /\ Ui!PaneRects[p].height >= 3
        /\ height \in Nat /\ Ui!OutputHeight(p) = height
    BY PaneIs
  <2>2. /\ taken \in Heights /\ counted \in Heights /\ Len(counted) = Len(taken)
        /\ visible.start = start /\ start \in 0..Len(taken)
    <3>1. /\ taken \in Heights /\ counted \in Heights /\ visible.start = start
          /\ Len(taken) = Len(Ui!LinesOf(p)) /\ Len(counted) = Len(Ui!LinesOf(p))
      BY DrawnRowsAre
    <3>2. start \in 0..Len(Ui!LinesOf(p))
      <4> HIDE DEF height
      <4>1. QED
        BY <2>1, BottomIs
    <3>3. QED
      BY <3>1, <3>2
  <2>3. Ui!Drawn(p) = Ui!Rows(taken, start, height)
    BY <2>1 DEF Ui!Drawn
  <2>4. covered \in SUBSET ((top + 1)..(top + height))
    <3>1. e[1] \in Int /\ e[2] \in Int
      BY EndsAre
    <3>2. QED
      BY <3>1, CoveredIs
  <2>5. copied = Ui!LinesOn(counted, start, top + 1, covered)
    BY <2>1, <2>2 DEF Ui!SelectionLines
  <2>6. agreeing = {i \in DOMAIN taken : \A k \in (start + 1)..i : taken[k] = counted[k]}
    BY <2>2 DEF Ui!Agreeing
  <2>7. highlighted = Ui!Highlighted(Ui!Rows(taken, start, height), top, covered)
    BY <2>3
  <2> HIDE DEF top, height, start, taken, visible, covered, agreeing, copied, highlighted
  <2>8. ASSUME NEW i \in agreeing PROVE i \in copied <=> i \in highlighted
    <3>1. i \in 1..Len(taken) /\ \A k \in (start + 1)..i : taken[k] = counted[k]
      BY <2>2, <2>6 DEF Heights
    <3>2. QED
      BY <2>1, <2>2, <2>4, <2>5, <2>7, <3>1, LinesAreHighlighted
  <2>9. copied \cap agreeing = highlighted \cap agreeing
    BY <2>8
  <2>10. QED
    BY <2>9 DEF copied, highlighted, agreeing, covered, visible, top
<1>2. QED
  BY <1>1 DEF Ui!CopiesWhatIsHighlighted

\* Both modules count alike.
LEMMA CountIs ==
  ASSUME NEW S
  PROVE  Ui!Cardinality(S) = Cardinality(S)
  BY DEF Ui!Cardinality, Cardinality

\* A pane that follows shows its newest line, but for what exceeds its estimate.
LEMMA FollowsTrue ==
  ASSUME Arrived, Screen
  PROVE  Ui!FollowsTheNewest
<1> DEFINE Rows(p) == Ui!TakenRows(Ui!Estimated(p), Ui!InnerWidth(p))
           First(p) == Ui!Start(p, Ui!OutputHeight(p))
           Newest(p) == Len(Ui!DrawnRows(p))
           Excess(p) == (Ui!Sums(Ui!DrawnRows(p))[Newest(p)] - Ui!Sums(Ui!DrawnRows(p))[First(p)])
                          - (Ui!Sums(Rows(p))[Newest(p)] - Ui!Sums(Rows(p))[First(p)])
<1>1. ASSUME NEW p \in DOMAIN Ui!PaneRects,
             view[p].follow, Newest(p) > 0, Rows(p)[Newest(p)] <= Ui!OutputHeight(p)
      PROVE  Ui!Cardinality({row \in DOMAIN Ui!Drawn(p) : Ui!Drawn(p)[row] = Newest(p)})
               >= Ui!DrawnRows(p)[Newest(p)] - Ui!Max({Excess(p), 0})
  <2> DEFINE height == Ui!OutputHeight(p)
             width == Ui!InnerWidth(p)
             guess == Ui!Estimated(p)
             taken == Ui!DrawnRows(p)
             estimated == Rows(p)
             start == First(p)
             bottom == Ui!VisibleStart(guess, height, width)
  <2>1. p \in Ui!Panes /\ height \in Nat /\ width \in Nat \ {0}
    BY PaneIs
  <2>2. /\ taken \in Heights /\ Len(taken) = Len(Ui!LinesOf(p))
        /\ guess \in Seq(Int) /\ Len(guess) = Len(taken)
    BY <2>1, DrawnRowsAre, LinesOfAre
  <2>3. Ui!Drawn(p) = Ui!Rows(taken, start, height)
    BY DEF Ui!Drawn
  <2>4. start = bottom
    BY <1>1 DEF Ui!Start, Ui!DisplayStart, Ui!PaneBottomStart
  <2>5. estimated = Ui!TakenRows(guess, width)
    OBVIOUS
  <2>6. taken # <<>> /\ estimated[Len(taken)] <= height
    BY <1>1
  <2> HIDE DEF height, width, guess, taken, estimated, start
  <2>7. estimated \in Heights /\ Len(estimated) = Len(taken)
    BY <2>1, <2>2, <2>5, TakenRowsAre
  <2>8. /\ start \in 0..Len(taken)
        /\ Ui!Sums(estimated)[Len(taken)] - Ui!Sums(estimated)[start] <= height
        /\ \A s \in 0..Len(taken) :
             Ui!Sums(estimated)[Len(taken)] - Ui!Sums(estimated)[s] <= height => start <= s
    BY <2>1, <2>2, <2>4, <2>5, VisibleStartIs
  <2>9. Cardinality({row \in DOMAIN Ui!Drawn(p) : Ui!Drawn(p)[row] = Len(taken)})
          >= taken[Len(taken)]
               - Ui!Max({(Ui!Sums(taken)[Len(taken)] - Ui!Sums(taken)[start])
                           - (Ui!Sums(estimated)[Len(taken)] - Ui!Sums(estimated)[start]), 0})
    BY <2>1, <2>2, <2>3, <2>6, <2>7, <2>8, NewestIsDrawn
  <2>10. QED
    BY <2>9, CountIs DEF taken, estimated, start
<1>2. QED
  BY <1>1 DEF Ui!FollowsTheNewest

\* A line that fits its pane takes a row.
LEMMA FittingTrue ==
  ASSUME Arrived, Screen
  PROVE  Ui!FittingLinesTakeARow
  BY DrawnRowsAre DEF Ui!FittingLinesTakeARow

\* Keys scroll, and a pause freezes, from the rows that are shown.
LEMMA ScrollsTrue ==
  ASSUME Arrived, Screen
  PROVE  Ui!ScrollsFromTheScreen
<1>1. SUFFICES ASSUME NEW p \in DOMAIN Ui!PaneRects \ {"Shell"}, NEW bottom \in {Ui!DrawnBottomStart(p)}
               PROVE  LET shown_ == Ui!DisplayStart(view[p], bottom)
                          ShownAfter(key) == Ui!DisplayStart(Ui!ScrollView(key, bottom, view[p]), bottom)
                      IN /\ ShownAfter("Up") = Ui!Max({shown_ - 1, 0}) /\ ShownAfter("Down") = Ui!Min({shown_ + 1, bottom})
                         /\ ShownAfter("PageUp") = Ui!Max({shown_ - PageRows, 0})
                         /\ ShownAfter("PageDown") = Ui!Min({shown_ + PageRows, bottom})
                         /\ p \in Ui!Feeds /\ ~mode[p].paused => Ui!DisplayStart(Ui!PausedView(p), bottom) = shown_
  BY DEF Ui!ScrollsFromTheScreen
<1> DEFINE v == view[p]
           s == Ui!DisplayStart(v, bottom)
<1>2. p \in Ui!Panes /\ Ui!InnerHeight(p) \in Nat /\ Ui!InnerWidth(p) \in Nat \ {0}
  BY PaneIs
<1>3. bottom = Ui!DrawnBottomStart(p) /\ bottom = Ui!PaneBottomStart(p, Ui!InnerHeight(p), Ui!InnerWidth(p))
  BY DEF Ui!DrawnBottomStart
<1>4. bottom \in Nat
  BY <1>2, <1>3, BottomIs
<1>5. v \in Views
  BY <1>2 DEF Screen
<1>6. s \in 0..bottom
  BY <1>4, <1>5, DisplayStartIs
<1> HIDE DEF s
<1>7. ASSUME NEW target \in Nat, NEW back \in BOOLEAN, back => target >= bottom
      PROVE  Ui!DisplayStart([scroll |-> Ui!Min({target, bottom}), follow |-> back], bottom) = Ui!Min({target, bottom})
  <2>1. Ui!Min({target, bottom}) = IF target <= bottom THEN target ELSE bottom
    BY <1>4, LessOfTwo
  <2> DEFINE w == [scroll |-> Ui!Min({target, bottom}), follow |-> back]
  <2>2. w \in Views /\ w.scroll = Ui!Min({target, bottom}) /\ w.follow = back
    BY <1>4, <2>1 DEF Views
  <2> HIDE DEF w
  <2>3. Ui!DisplayStart(w, bottom) = Ui!Min({target, bottom})
    BY <1>4, <1>7, <2>1, <2>2, DisplayStartIs
  <2>4. QED
    BY <2>3 DEF w
<1>8. PageRows \in Nat
  BY PanesAssumption
<1>9. /\ Ui!ScrollView("Up", bottom, v) = [scroll |-> Ui!Min({Ui!Max({s - 1, 0}), bottom}), follow |-> FALSE]
      /\ Ui!ScrollView("PageUp", bottom, v) = [scroll |-> Ui!Min({Ui!Max({s - PageRows, 0}), bottom}), follow |-> FALSE]
      /\ Ui!ScrollView("Down", bottom, v) = [scroll |-> Ui!Min({s + 1, bottom}), follow |-> s + 1 >= bottom]
      /\ Ui!ScrollView("PageDown", bottom, v) = [scroll |-> Ui!Min({s + PageRows, bottom}), follow |-> s + PageRows >= bottom]
  <2>1. /\ Ui!Target("Up", s) = Ui!Max({s - 1, 0}) /\ Ui!Target("PageUp", s) = Ui!Max({s - PageRows, 0})
        /\ Ui!Target("Down", s) = s + 1 /\ Ui!Target("PageDown", s) = s + PageRows
    BY DEF Ui!Target, Ui!UpKeys, Ui!DownKeys, Ui!TopKeys
  <2>2. {"Up", "PageUp", "Down", "PageDown"} \subseteq Ui!ScrollKeys
    BY DEF Ui!ScrollKeys, Ui!UpKeys, Ui!DownKeys, Ui!TopKeys
  <2> DEFINE Back(key) == key \in Ui!DownKeys \cup {"PageDown"} /\ Ui!Target(key, s) >= bottom
  <2>3. \A key \in Ui!ScrollKeys :
          Ui!ScrollView(key, bottom, v) = [scroll |-> Ui!Min({Ui!Target(key, s), bottom}), follow |-> Back(key)]
    BY DEF Ui!ScrollView, s
  <2>4. Back("Up") = FALSE /\ Back("PageUp") = FALSE
    BY DEF Ui!DownKeys
  <2>5. Back("Down") = (s + 1 >= bottom) /\ Back("PageDown") = (s + PageRows >= bottom)
    BY <2>1 DEF Ui!DownKeys
  <2> HIDE DEF Back
  <2>6. QED
    BY <2>1, <2>2, <2>3, <2>4, <2>5
<1>10. ASSUME NEW by \in Nat
       PROVE  /\ Ui!Max({s - by, 0}) \in Nat
              /\ Ui!Min({Ui!Max({s - by, 0}), bottom}) = Ui!Max({s - by, 0})
              /\ s + by \in Nat
  <2>1. Ui!Max({s - by, 0}) = IF s - by >= 0 THEN s - by ELSE 0
    BY <1>4, <1>6, GreaterOfTwo
  <2>2. Ui!Max({s - by, 0}) \in Nat /\ Ui!Max({s - by, 0}) <= bottom
    BY <1>4, <1>6, <2>1
  <2>3. QED
    BY <1>4, <1>6, <2>2, LessOfTwo
<1>11. ASSUME NEW by \in Nat
       PROVE  /\ Ui!DisplayStart([scroll |-> Ui!Min({Ui!Max({s - by, 0}), bottom}), follow |-> FALSE], bottom) = Ui!Max({s - by, 0})
              /\ Ui!DisplayStart([scroll |-> Ui!Min({s + by, bottom}), follow |-> s + by >= bottom], bottom) = Ui!Min({s + by, bottom})
  <2>1. Ui!Max({s - by, 0}) \in Nat /\ s + by \in Nat /\ Ui!Min({Ui!Max({s - by, 0}), bottom}) = Ui!Max({s - by, 0})
    BY <1>10
  <2>2. (s + by >= bottom) \in BOOLEAN
    OBVIOUS
  <2>3. QED
    BY <1>7, <2>1, <2>2
<1>12. ASSUME p \in Ui!Feeds, ~mode[p].paused
       PROVE  Ui!DisplayStart(Ui!PausedView(p), bottom) = s
  <2> DEFINE w == [scroll |-> s, follow |-> FALSE]
  <2>1. Ui!PausedView(p) = w
    BY <1>3, <1>12 DEF Ui!PausedView, s
  <2>2. w \in Views /\ w.scroll = s /\ w.follow = FALSE
    BY <1>4, <1>6 DEF Views
  <2> HIDE DEF w
  <2>3. QED
    BY <1>4, <1>6, <2>1, <2>2, DisplayStartIs
<1>13. 1 \in Nat
  OBVIOUS
<1>14. /\ Ui!DisplayStart(Ui!ScrollView("Up", bottom, v), bottom) = Ui!Max({s - 1, 0})
       /\ Ui!DisplayStart(Ui!ScrollView("Down", bottom, v), bottom) = Ui!Min({s + 1, bottom})
  BY <1>9, <1>11, <1>13
<1>15. /\ Ui!DisplayStart(Ui!ScrollView("PageUp", bottom, v), bottom) = Ui!Max({s - PageRows, 0})
       /\ Ui!DisplayStart(Ui!ScrollView("PageDown", bottom, v), bottom) = Ui!Min({s + PageRows, bottom})
  BY <1>8, <1>9, <1>11
<1>16. QED
  BY <1>12, <1>14, <1>15 DEF s

\* Each row marks the values that changed.
LEMMA MarksTrue ==
  ASSUME Arrived
  PROVE  Ui!MarksChanges
<1>1. ASSUME NEW f \in Ui!Feeds PROVE Marked(f, rows[f])
  BY DEF Arrived, FeedIs
<1>2. QED
  BY <1>1 DEF Ui!MarksChanges, Marked, Marks

\* The observer has each key once, with its latest row.
LEMMA ObservesTrue ==
  ASSUME Arrived
  PROVE  Ui!ObservesTheLatest
<1>1. ASSUME NEW f \in Ui!Feeds
      PROVE  /\ Ui!Range(order[f]) = DOMAIN latest[f]
             /\ Ui!Cardinality(DOMAIN latest[f]) = Len(order[f])
             /\ LastOf(rows[f], latest[f])
  BY CountIs DEF Arrived, FeedIs
<1>2. QED
  BY <1>1 DEF Ui!ObservesTheLatest, LastOf

\* The places kept in texts and lists exist.
LEMMA PlacesTrue ==
  ASSUME PanesIInv
  PROVE  Ui!PlacesExist
<1>1. /\ cursor \in Ui!Boundaries(input) /\ recalled \in 0..Len(history) /\ Len(history) <= HistoryCap
      /\ ~(mode["Bus"].editing /\ mode["Can"].editing)
  BY DEF PanesIInv, Typing, Screen
<1>2. Len(rows["Log"]) <= LogCap /\ \A f \in Ui!Feeds : Len(rows[f]) <= FeedCap
  BY DEF PanesIInv, Arrived, FeedIs
<1>3. QED
  BY <1>1, <1>2 DEF Ui!PlacesExist, Ui!Panes, Ui!Feeds

\* The inductive invariant is enough.
LEMMA PanesAreTrueThen ==
  ASSUME PanesIInv
  PROVE  PanesAreTrue
  BY CopiesTrue, FollowsTrue, FittingTrue, ScrollsTrue, MarksTrue, ObservesTrue, PlacesTrue
     DEF PanesIInv, PanesAreTrue, Ui!PanesAreTrue

-----------------------------------------------------------------------------
(* What arrives *)

\* A buffer with a line more, its oldest one dropped if need be.
Pushed(p, S, buffer, line, cap) ==
  /\ p \in Seq(S) /\ Len(p) <= cap /\ Len(p) \in Nat \ {0} /\ p[Len(p)] = line
  /\ \E d \in {0, 1} :
       Len(p) = Len(buffer) + 1 - d /\ \A i \in 1..(Len(p) - 1) : p[i] = buffer[i + d]

\* A buffer takes a line in, and drops its oldest one once it is full.
LEMMA PushIs ==
  ASSUME NEW S, NEW buffer \in Seq(S), NEW line \in S, NEW cap \in Nat \ {0}, Len(buffer) <= cap
  PROVE  Pushed(Ui!Push(buffer, line, cap), S, buffer, line, cap)
<1>1. CASE Len(buffer) = cap
  <2>1. buffer # <<>>
    BY <1>1
  <2>2. /\ Tail(buffer) \in Seq(S) /\ Len(Tail(buffer)) = Len(buffer) - 1
        /\ \A i \in 1..Len(Tail(buffer)) : Tail(buffer)[i] = buffer[i + 1]
    BY <2>1, HeadTailProperties
  <2> DEFINE tail == Tail(buffer)
             p == Append(tail, line)
  <2>3. Ui!Push(buffer, line, cap) = p
    BY <1>1 DEF Ui!Push
  <2> HIDE DEF tail
  <2>4. tail \in Seq(S) /\ Len(tail) = cap - 1 /\ \A i \in 1..Len(tail) : tail[i] = buffer[i + 1]
    BY <1>1, <2>2 DEF tail
  <2>5. p \in Seq(S) /\ Len(p) = cap /\ p[Len(p)] = line /\ \A i \in 1..(Len(p) - 1) : p[i] = tail[i]
    BY <2>4
  <2>6. Len(p) = Len(buffer) + 1 - 1 /\ \A i \in 1..(Len(p) - 1) : p[i] = buffer[i + 1]
    BY <1>1, <2>4, <2>5
  <2> HIDE DEF p
  <2>7. QED
    BY <2>3, <2>5, <2>6 DEF Pushed
<1>2. CASE Len(buffer) # cap
  <2> DEFINE p == Append(buffer, line)
  <2>1. Ui!Push(buffer, line, cap) = p
    BY <1>2 DEF Ui!Push
  <2>2. /\ p \in Seq(S) /\ Len(p) = Len(buffer) + 1 /\ p[Len(p)] = line /\ Len(p) \in Nat \ {0}
        /\ \A i \in 1..(Len(p) - 1) : p[i] = buffer[i]
    OBVIOUS
  <2>3. Len(p) <= cap
    BY <1>2, <2>2
  <2>4. Len(p) = Len(buffer) + 1 - 0 /\ \A i \in 1..(Len(p) - 1) : p[i] = buffer[i + 0]
    BY <2>2
  <2> HIDE DEF p
  <2>5. QED
    BY <2>1, <2>2, <2>3, <2>4 DEF Pushed
<1>3. QED
  BY <1>1, <1>2

\* What is marked is what differs, since a frame's signals have different names.
LEMMA ChangedMarks ==
  ASSUME NEW f \in Ui!Feeds, NEW old \in FeedRows(f), NEW new \in FeedRows(f),
         new.changed = Ui!Changed(f, old.body, new.body)
  PROVE  Marks(f, old, new)
<1>1. CASE f = "Bus"
  BY <1>1 DEF Ui!Changed, Marks
<1>2. CASE f = "Can"
  <2> DEFINE was == old.body.signals
             is == new.body.signals
  <2>1. was \in Signals /\ is \in Signals
    BY <1>2 DEF FeedRows, Bodies
  <2>2. new.changed = {s[1] : s \in Ui!Range(is) \ Ui!Range(was)}
    BY <1>2 DEF Ui!Changed, Ui!DiffPairs
  <2>3. ASSUME NEW s \in Ui!Range(is) PROVE s[1] \notin new.changed <=> s \in Ui!Range(was)
    <3>1. ASSUME s \in Ui!Range(was), s[1] \in new.changed PROVE FALSE
      <4>1. PICK other \in Ui!Range(is) \ Ui!Range(was) : other[1] = s[1]
        BY <2>2, <3>1
      <4>2. PICK i \in DOMAIN is, j \in DOMAIN is : is[i] = s /\ is[j] = other
        BY DEF Ui!Range
      <4>3. i = j
        BY <2>1, <4>1, <4>2 DEF Signals
      <4>4. QED
        BY <3>1, <4>1, <4>2, <4>3
    <3>2. ASSUME s \notin Ui!Range(was) PROVE s[1] \in new.changed
      BY <2>2, <3>2
    <3>3. QED
      BY <3>1, <3>2
  <2>4. QED
    BY <1>2, <2>3 DEF Marks
<1>3. QED
  BY <1>1, <1>2 DEF Ui!Feeds

\* What is marked is names.
LEMMA ChangedIs ==
  ASSUME NEW f \in Ui!Feeds, NEW old \in FeedRows(f), NEW body \in Bodies(f)
  PROVE  Ui!Changed(f, old.body, body) \in SUBSET (Text \cup {"value"})
<1>1. CASE f = "Bus"
  BY <1>1 DEF Ui!Changed
<1>2. CASE f = "Can"
  <2>1. body.signals \in Seq(Text \X Text)
    BY <1>2 DEF Bodies, Signals
  <2>2. \A s \in Ui!Range(body.signals) : s[1] \in Text
    BY <2>1 DEF Ui!Range
  <2>3. Ui!Changed(f, old.body, body) \subseteq {s[1] : s \in Ui!Range(body.signals)}
    BY <1>2 DEF Ui!Changed, Ui!DiffPairs
  <2>4. QED
    BY <2>2, <2>3
<1>3. QED
  BY <1>1, <1>2 DEF Ui!Feeds

\* The row that a key and a body become, and the latest rows with it.
RowOf(f, last, key, body, rate) ==
  [key |-> key, body |-> body, rate |-> IF key \in DOMAIN last THEN rate ELSE 0,
   changed |-> IF key \in DOMAIN last THEN Ui!Changed(f, last[key].body, body) ELSE {}]
WithRow(last, key, row) == [k \in DOMAIN last \cup {key} |-> IF k = key THEN row ELSE last[k]]

\* A feed takes a row in and is still one: a row that is dropped is older
\* than the last one of its key.
LEMMA FeedGrows ==
  ASSUME NEW f \in Ui!Feeds, NEW kept, NEW keys, NEW last, NEW widths, FeedIs(f, kept, keys, last, widths),
         NEW key \in Keys(f), NEW body \in Bodies(f), NEW rate \in Nat, NEW widths2 \in Seq(Int), Len(widths2) = Len(ColumnCap[f])
  PROVE  LET row == RowOf(f, last, key, body, rate)
         IN  FeedIs(f, Ui!Push(kept, row, FeedCap), IF key \in DOMAIN last THEN keys ELSE Append(keys, key),
                    WithRow(last, key, row), widths2)
<1> DEFINE row == RowOf(f, last, key, body, rate)
           p == Ui!Push(kept, row, FeedCap)
           keys2 == IF key \in DOMAIN last THEN keys ELSE Append(keys, key)
           last2 == WithRow(last, key, row)
           N == Len(p)
<1>1. /\ kept \in Seq(FeedRows(f)) /\ Len(kept) <= FeedCap /\ keys \in Seq(Keys(f))
      /\ last \in [Ui!Range(keys) -> FeedRows(f)]
      /\ IsFiniteSet(DOMAIN last) /\ Cardinality(DOMAIN last) = Len(keys)
      /\ Marked(f, kept) /\ LastOf(kept, last)
  BY DEF FeedIs
<1>2. row \in FeedRows(f)
  <2>1. CASE key \in DOMAIN last
    <3>1. last[key] \in FeedRows(f)
      BY <1>1, <2>1
    <3>2. Ui!Changed(f, last[key].body, body) \in SUBSET (Text \cup {"value"})
      BY <3>1, ChangedIs
    <3>3. QED
      BY <2>1, <3>2 DEF RowOf, FeedRows
  <2>2. CASE key \notin DOMAIN last
    BY <2>2 DEF RowOf, FeedRows
  <2>3. QED
    BY <2>1, <2>2
<1>3. row.key = key /\ row.body = body /\ (key \in DOMAIN last => row.changed = Ui!Changed(f, last[key].body, row.body))
  BY DEF RowOf
<1> HIDE DEF row
<1>4. FeedCap \in Nat \ {0}
  BY PanesAssumption
<1>5. /\ p \in Seq(FeedRows(f)) /\ N <= FeedCap /\ N \in Nat \ {0} /\ p[N] = row
      /\ \E d \in {0, 1} : N = Len(kept) + 1 - d /\ \A i \in 1..(N - 1) : p[i] = kept[i + d]
  <2>1. Pushed(p, FeedRows(f), kept, row, FeedCap)
    BY <1>1, <1>2, <1>4, PushIs
  <2> HIDE DEF p
  <2>2. QED
    BY <2>1 DEF Pushed
<1>6. PICK d \in {0, 1} : N = Len(kept) + 1 - d /\ \A i \in 1..(N - 1) : p[i] = kept[i + d]
  BY <1>5
<1>7. DOMAIN p = 1..N /\ DOMAIN kept = 1..Len(kept) /\ Len(kept) \in Nat /\ N = Len(p)
  BY <1>1, <1>5
<1> HIDE DEF p, N
\* The last row kept of a key other than the new one's, and of the new one's.
<1>8. ASSUME NEW i \in 1..(N - 1), \A j \in (i + 1)..(N - 1) : p[j].key # p[i].key
      PROVE  p[i].key \in DOMAIN last /\ last[p[i].key] = p[i]
  <2>1. i + d \in DOMAIN kept /\ p[i] = kept[i + d]
    <3>1. i \in Int /\ 1 <= i /\ i <= N - 1 /\ d \in Int /\ 0 <= d /\ N \in Int
      BY <1>5
    <3>2. Len(kept) = N - 1 + d
      BY <1>6, <1>7, <3>1
    <3>3. i + d \in 1..Len(kept)
      BY <3>1, <3>2
    <3>4. QED
      BY <1>6, <1>7, <3>3
  <2>2. ASSUME NEW j \in (i + d + 1)..Len(kept) PROVE kept[j].key # kept[i + d].key
    <3>1. j - d \in (i + 1)..(N - 1) /\ j - d \in 1..(N - 1) /\ (j - d) + d = j
      BY <1>5, <1>6, <1>7
    <3>2. p[j - d] = kept[j]
      BY <1>6, <3>1
    <3>3. QED
      BY <1>8, <2>1, <3>1, <3>2
  <2>3. QED
    BY <1>1, <2>1, <2>2 DEF LastOf
<1>9. Marked(f, p)
  <2> SUFFICES ASSUME NEW i \in 1..N, NEW j \in 1..N, i < j, p[i].key = p[j].key,
                      \A k \in (i + 1)..(j - 1) : p[k].key # p[j].key
               PROVE  Marks(f, p[i], p[j])
    BY <1>7 DEF Marked
  <2>1. CASE j < N
    <3>1. /\ i + d \in DOMAIN kept /\ j + d \in DOMAIN kept /\ i + d < j + d
          /\ i \in 1..(N - 1) /\ j \in 1..(N - 1)
      BY <1>5, <1>6, <1>7, <2>1
    <3>2. p[i] = kept[i + d] /\ p[j] = kept[j + d]
      BY <1>6, <3>1
    <3>3. ASSUME NEW k \in (i + d + 1)..(j + d - 1) PROVE kept[k].key # kept[j + d].key
      <4>1. k - d \in (i + 1)..(j - 1) /\ k - d \in 1..(N - 1) /\ (k - d) + d = k
        BY <1>5, <1>6, <2>1
      <4>2. p[k - d] = kept[k]
        BY <1>6, <4>1
      <4>3. QED
        BY <3>2, <4>1, <4>2
    <3>4. QED
      BY <1>1, <3>1, <3>2, <3>3 DEF Marked
  <2>2. CASE j = N
    <3>1. i \in 1..(N - 1) /\ \A k \in (i + 1)..(N - 1) : p[k].key # p[i].key
      BY <1>5, <2>2
    <3>2. p[i].key \in DOMAIN last /\ last[p[i].key] = p[i]
      BY <1>8, <3>1
    <3>3. p[j] = row /\ p[i].key = key
      BY <1>3, <1>5, <2>2
    <3>4. p[i] \in FeedRows(f) /\ row.changed = Ui!Changed(f, p[i].body, row.body)
      BY <1>1, <1>3, <3>2, <3>3
    <3>5. QED
      BY <1>2, <3>3, <3>4, ChangedMarks
  <2>5. N \in Int
    BY <1>5
  <2>3. j < N \/ j = N
    BY <2>5
  <2>4. QED
    BY <2>1, <2>2, <2>3, Zenon
<1>10. LastOf(p, last2)
  <2> SUFFICES ASSUME NEW i \in 1..N, \A j \in (i + 1)..N : p[j].key # p[i].key
               PROVE  p[i].key \in DOMAIN last2 /\ last2[p[i].key] = p[i]
    BY <1>7 DEF LastOf
  <2>1. CASE i = N
    BY <1>3, <1>5, <2>1 DEF WithRow
  <2>2. CASE i # N
    <3>1. i \in 1..(N - 1) /\ N \in (i + 1)..N /\ \A j \in (i + 1)..(N - 1) : j \in (i + 1)..N
      BY <1>5, <2>2
    <3>2. p[i].key \in DOMAIN last /\ last[p[i].key] = p[i]
      BY <1>8, <3>1
    <3>3. p[i].key # key
      BY <1>3, <1>5, <3>1
    <3>4. QED
      BY <3>2, <3>3 DEF WithRow
  <2>3. QED
    BY <2>1, <2>2
<1>11. /\ keys2 \in Seq(Keys(f)) /\ last2 \in [Ui!Range(keys2) -> FeedRows(f)]
       /\ IsFiniteSet(DOMAIN last2) /\ Cardinality(DOMAIN last2) = Len(keys2)
  <2>1. DOMAIN last2 = DOMAIN last \cup {key} /\ \A k \in DOMAIN last2 : last2[k] \in FeedRows(f)
    BY <1>1, <1>2 DEF WithRow
  <2>2. /\ IsFiniteSet(DOMAIN last2)
        /\ Cardinality(DOMAIN last2) = IF key \in DOMAIN last THEN Cardinality(DOMAIN last) ELSE Cardinality(DOMAIN last) + 1
    <3> DEFINE old == DOMAIN last
    <3>1. IsFiniteSet(old)
      BY <1>1
    <3> HIDE DEF old
    <3>2. /\ IsFiniteSet(old \cup {key})
          /\ Cardinality(old \cup {key}) = IF key \in old THEN Cardinality(old) ELSE Cardinality(old) + 1
      BY <3>1, FS_AddElement
    <3>3. QED
      BY <2>1, <3>2 DEF old
  <2>3. keys2 \in Seq(Keys(f)) /\ Len(keys2) = IF key \in DOMAIN last THEN Len(keys) ELSE Len(keys) + 1
    BY <1>1
  <2>4. Ui!Range(keys2) = DOMAIN last2
    <3>1. CASE key \in DOMAIN last
      BY <1>1, <2>1, <3>1
    <3>2. CASE key \notin DOMAIN last
      <4>1. /\ DOMAIN keys2 = 1..(Len(keys) + 1) /\ DOMAIN keys = 1..Len(keys) /\ Len(keys) \in Nat
            /\ keys2[Len(keys) + 1] = key /\ \A i \in 1..Len(keys) : keys2[i] = keys[i]
        BY <1>1, <3>2
      <4>2. Ui!Range(keys2) = Ui!Range(keys) \cup {key}
        <5> HIDE DEF keys2
        <5>1. \A i \in DOMAIN keys2 : keys2[i] \in Ui!Range(keys) \cup {key}
          BY <4>1 DEF Ui!Range
        <5>2. \A i \in DOMAIN keys : i \in DOMAIN keys2 /\ keys2[i] = keys[i]
          BY <4>1
        <5>3. Len(keys) + 1 \in DOMAIN keys2
          BY <4>1
        <5>4. QED
          BY <4>1, <5>1, <5>2, <5>3 DEF Ui!Range
      <4>3. QED
        BY <1>1, <2>1, <4>2
    <3>3. QED
      BY <3>1, <3>2
  <2>5. last2 = [k \in DOMAIN last2 |-> last2[k]]
    BY DEF WithRow
  <2> HIDE DEF keys2, last2
  <2>6. last2 \in [Ui!Range(keys2) -> FeedRows(f)]
    BY <2>1, <2>4, <2>5
  <2>7. QED
    BY <1>1, <2>2, <2>3, <2>6
<1>12. FeedIs(f, p, keys2, last2, widths2)
  <2> HIDE DEF keys2, last2
  <2>1. QED
    BY <1>5, <1>7, <1>9, <1>10, <1>11 DEF FeedIs
<1>13. QED
  BY <1>12 DEF row, p

\* What is not touched stays as it is.
LEMMA ArrivedKept ==
  ASSUME Arrived, UNCHANGED <<rows, shellOut, order, latest, columns>>
  PROVE  Arrived'
  BY DEF Arrived

\* Of the screen as well.
LEMMA ScreenKept ==
  ASSUME Screen, UNCHANGED <<view, mode, canView, focus, maximized, current, selection>>
  PROVE  Screen'
  BY DEF Screen

\* And of the input.
LEMMA TypingKept ==
  ASSUME Typing, UNCHANGED <<input, cursor, history, recalled>>
  PROVE  Typing'
<1>1. Ui!Boundaries(input)' = Ui!Boundaries(input)
  BY DEF Ui!Boundaries, Ui!Places
<1>2. QED
  BY <1>1 DEF Typing

\* A line of the log arrives.
LEMMA PushLogKeeps ==
  ASSUME Arrived, NEW line \in Lines, Ui!PushLog(line), UNCHANGED <<shellOut, order, latest, columns>>
  PROVE  Arrived'
<1> DEFINE log == Ui!Push(rows["Log"], line, LogCap)
<1>1. LogCap \in Nat \ {0}
  BY PanesAssumption
<1>2. rows["Log"] \in Seq(Lines) /\ Len(rows["Log"]) <= LogCap
  BY DEF Arrived
<1>3. log \in Seq(Lines) /\ Len(log) <= LogCap
  BY <1>1, <1>2, PushIs DEF Pushed
<1>4. rows' = [rows EXCEPT !["Log"] = log]
  BY DEF Ui!PushLog
<1>5. rows = [p \in Ui!Panes \ {"Shell"} |-> rows[p]]
  BY DEF Arrived
<1> HIDE DEF log
<1>6. rows' = [p \in Ui!Panes \ {"Shell"} |-> IF p = "Log" THEN log ELSE rows[p]]
  BY <1>4, <1>5
<1>7. rows'["Log"] = log /\ \A f \in Ui!Feeds : rows'[f] = rows[f]
  BY <1>6 DEF Ui!Panes, Ui!Feeds
<1>8. rows' = [p \in Ui!Panes \ {"Shell"} |-> rows'[p]]
  BY <1>6
<1>9. \A f \in Ui!Feeds : FeedIs(f, rows'[f], order'[f], latest'[f], columns'[f])
  BY <1>7 DEF Arrived
<1>10. QED
  BY <1>3, <1>7, <1>8, <1>9 DEF Arrived

\* A line of a shell arrives.
LEMMA PushShellKeeps ==
  ASSUME Arrived, NEW n \in Ui!Nodes, NEW line \in Lines, Ui!PushShell(n, line),
         UNCHANGED <<rows, order, latest, columns>>
  PROVE  Arrived'
<1> DEFINE out_ == Ui!Push(shellOut[n], line, ShellCap)
<1>1. shellOut \in [Ui!Nodes -> Seq(Lines)]
  BY DEF Arrived
<1>2. out_ \in Seq(Lines)
  <2> DEFINE buffer == shellOut[n]
  <2>1. buffer \in Seq(Lines)
    BY <1>1
  <2> HIDE DEF buffer
  <2>2. ASSUME buffer # <<>> PROVE Tail(buffer) \in Seq(Lines)
    BY <2>1, <2>2, HeadTailProperties
  <2>3. ShellCap # 0 /\ Len(<<>>) = 0
    BY PanesAssumption
  <2>4. CASE Len(buffer) = ShellCap
    <3>1. Tail(buffer) \in Seq(Lines)
      BY <2>2, <2>3, <2>4
    <3>2. QED
      BY <2>4, <3>1 DEF Ui!Push, buffer
  <2>5. CASE Len(buffer) # ShellCap
    BY <2>1, <2>5 DEF Ui!Push, buffer
  <2>6. QED
    BY <2>4, <2>5
<1>3. shellOut' = [shellOut EXCEPT ![n] = out_]
  BY DEF Ui!PushShell
<1> HIDE DEF out_
<1>4. shellOut' \in [Ui!Nodes -> Seq(Lines)]
  BY <1>1, <1>2, <1>3
<1>5. QED
  BY <1>4 DEF Arrived

\* A row of a feed arrives.
LEMMA PushFeedKeeps ==
  ASSUME Arrived, NEW f \in Ui!Feeds, NEW key \in Keys(f), NEW body \in Bodies(f),
         NEW rate \in Nat, Ui!PushFeed(f, key, body, rate), UNCHANGED shellOut
  PROVE  Arrived'
<1>1. CASE mode[f].paused
  <2>1. UNCHANGED <<rows, order, latest, columns>>
    BY <1>1 DEF Ui!PushFeed
  <2>2. QED
    BY <2>1, ArrivedKept
<1>2. CASE ~mode[f].paused
  <2> DEFINE row == RowOf(f, latest[f], key, body, rate)
             kept == Ui!Push(rows[f], row, FeedCap)
             keys == IF key \in DOMAIN latest[f] THEN order[f] ELSE Append(order[f], key)
             last == WithRow(latest[f], key, row)
             widths == [i \in DOMAIN columns[f] |->
                         Ui!Max({columns[f][i], Ui!Min({Ui!Width(TextOf[key[i]]), ColumnCap[f][i]})})]
  <2>1. FeedIs(f, rows[f], order[f], latest[f], columns[f])
    BY DEF Arrived
  <2>2. widths \in Seq(Int) /\ Len(widths) = Len(ColumnCap[f])
    <3>1. columns[f] \in Seq(Int) /\ Len(columns[f]) = Len(ColumnCap[f])
      BY <2>1 DEF FeedIs
    <3>2. ColumnCap[f] \in Seq(Nat) /\ key \in Seq(Filled) /\ Len(key) = Len(ColumnCap[f])
      BY PanesAssumption DEF Keys
    <3> DEFINE N == Len(ColumnCap[f])
    <3>3. /\ N \in Nat /\ DOMAIN columns[f] = 1..N
          /\ \A i \in 1..N : columns[f][i] \in Int /\ ColumnCap[f][i] \in Int /\ key[i] \in Filled
      BY <3>1, <3>2
    <3>4. \A x \in Filled : Ui!Width(TextOf[x]) \in Int
      BY TextIs DEF Filled
    <3>5. \A i \in 1..N : Ui!Min({Ui!Width(TextOf[key[i]]), ColumnCap[f][i]}) \in Int
      BY <3>3, <3>4, LessOfTwo
    <3>6. \A i \in 1..N : Ui!Max({columns[f][i], Ui!Min({Ui!Width(TextOf[key[i]]), ColumnCap[f][i]})}) \in Int
      BY <3>3, <3>5, GreaterOfTwo
    <3> DEFINE Wide(i) == Ui!Max({columns[f][i], Ui!Min({Ui!Width(TextOf[key[i]]), ColumnCap[f][i]})})
    <3>7. widths = [i \in 1..N |-> Wide(i)]
      BY <3>3
    <3>8. \A i \in 1..N : Wide(i) \in Int
      BY <3>6
    <3> HIDE DEF widths, Wide
    <3>9. QED
      BY <3>3, <3>7, <3>8
  <2>3. FeedIs(f, kept, keys, last, widths)
    <3> HIDE DEF widths
    <3>1. QED
      BY <2>1, <2>2, FeedGrows
  <2>4. /\ rows' = [rows EXCEPT ![f] = kept]
        /\ order' = IF key \in DOMAIN latest[f] THEN order ELSE [order EXCEPT ![f] = keys]
        /\ latest' = [latest EXCEPT ![f] = last]
        /\ columns' = [columns EXCEPT ![f] = widths]
    BY <1>2 DEF Ui!PushFeed, RowOf, WithRow
  <2>5. /\ rows = [p \in Ui!Panes \ {"Shell"} |-> rows[p]]
        /\ order = [g \in Ui!Feeds |-> order[g]]
        /\ latest = [g \in Ui!Feeds |-> latest[g]]
        /\ columns = [g \in Ui!Feeds |-> columns[g]]
    BY DEF Arrived
  <2> HIDE DEF row, kept, last, widths
  <2>6. rows' = [p \in Ui!Panes \ {"Shell"} |-> IF p = f THEN kept ELSE rows[p]]
    BY <2>4, <2>5
  <2>7. order' = [g \in Ui!Feeds |-> IF g = f THEN keys ELSE order[g]]
    <3>1. CASE key \in DOMAIN latest[f]
      <4>1. order' = order /\ keys = order[f]
        BY <2>4, <3>1
      <4>2. QED
        BY <2>5, <4>1
    <3>2. CASE key \notin DOMAIN latest[f]
      <4>1. order' = [order EXCEPT ![f] = keys]
        BY <2>4, <3>2
      <4> HIDE DEF keys
      <4>2. QED
        BY <2>5, <4>1
    <3>3. QED
      BY <3>1, <3>2
  <2> HIDE DEF keys
  <2>8. latest' = [g \in Ui!Feeds |-> IF g = f THEN last ELSE latest[g]]
    BY <2>4, <2>5
  <2>9. columns' = [g \in Ui!Feeds |-> IF g = f THEN widths ELSE columns[g]]
    BY <2>4, <2>5
  <2>10. ASSUME NEW g \in Ui!Feeds PROVE FeedIs(g, rows'[g], order'[g], latest'[g], columns'[g])
    <3>1. CASE g = f
      <4>1. rows'[g] = kept /\ order'[g] = keys /\ latest'[g] = last /\ columns'[g] = widths
        BY <2>6, <2>7, <2>8, <2>9, <3>1 DEF Ui!Panes, Ui!Feeds
      <4>2. QED
        BY <2>3, <3>1, <4>1
    <3>2. CASE g # f
      <4>1. rows'[g] = rows[g] /\ order'[g] = order[g] /\ latest'[g] = latest[g] /\ columns'[g] = columns[g]
        BY <2>6, <2>7, <2>8, <2>9, <3>2 DEF Ui!Panes, Ui!Feeds
      <4>2. QED
        BY <4>1 DEF Arrived
    <3>3. QED
      BY <3>1, <3>2
  <2>11. rows'["Log"] = rows["Log"]
    BY <2>6 DEF Ui!Panes, Ui!Feeds
  <2>12. /\ rows' = [p \in Ui!Panes \ {"Shell"} |-> rows'[p]]
         /\ order' = [g \in Ui!Feeds |-> order'[g]]
         /\ latest' = [g \in Ui!Feeds |-> latest'[g]]
         /\ columns' = [g \in Ui!Feeds |-> columns'[g]]
    BY <2>6, <2>7, <2>8, <2>9
  <2>13. QED
    BY <2>10, <2>11, <2>12 DEF Arrived
<1>3. QED
  BY <1>1, <1>2

\* Whatever arrives.
LEMMA ReceiveKeeps ==
  ASSUME PanesIInv, NEW u \in DOMAIN Uses, Ui!Receive(Uses[u].sent)
  PROVE  PanesIInv'
<1> DEFINE sent_ == Uses[u].sent
<1>1. /\ sent_.nodes \subseteq Ui!Nodes /\ sent_.log \subseteq Lines /\ sent_.shell \subseteq Lines
      /\ \A f \in Ui!Feeds : \A row \in sent_[f] : row.key \in Keys(f) /\ row.body \in Bodies(f) /\ row.rate \in Nat
  <2>1. sent_.nodes \subseteq Ui!Nodes /\ sent_.log \subseteq Lines /\ sent_.shell \subseteq Lines
    BY PanesAssumption
  <2>2. ASSUME NEW f \in Ui!Feeds, NEW row \in sent_[f] PROVE row.key \in Keys(f) /\ row.rate \in Nat
    <3>1. /\ row.key \in Seq(DOMAIN TextOf) /\ Len(row.key) = Len(ColumnCap[f]) /\ row.rate \in Nat
          /\ \A i \in DOMAIN row.key : TextOf[row.key[i]] # <<>>
      BY PanesAssumption
    <3>2. row.key \in Seq(Filled)
      BY <3>1 DEF Filled, Text
    <3>3. QED
      BY <3>1, <3>2 DEF Keys
  <2>3. ASSUME NEW row \in sent_["Bus"] PROVE row.body \in Bodies("Bus")
    BY PanesAssumption DEF Bodies, Filled, Text
  <2>4. ASSUME NEW row \in sent_["Can"] PROVE row.body \in Bodies("Can")
    <3>1. /\ row.body \in [signals : Seq((DOMAIN TextOf) \X (DOMAIN TextOf)), raw : DOMAIN TextOf]
          /\ \A i, j \in DOMAIN row.body.signals : row.body.signals[i][1] = row.body.signals[j][1] => i = j
      BY PanesAssumption
    <3>2. QED
      BY <3>1 DEF Bodies, Signals, Text
  <2>5. QED
    BY <2>1, <2>2, <2>3, <2>4 DEF Ui!Feeds
<1> HIDE DEF sent_
<1>2. Ui!Receive(sent_)
  BY DEF sent_
<1>3. UNCHANGED <<view, mode, canView, focus, maximized, current, selection>> /\ UNCHANGED <<input, cursor, history, recalled>>
  BY <1>2 DEF Ui!Receive, Ui!typing
<1>4. Arrived /\ Screen /\ Typing
  BY DEF PanesIInv
<1>5. Arrived'
  <2>1. CASE \E line \in sent_.log : Ui!PushLog(line) /\ UNCHANGED <<shellOut, up, order, latest, columns>>
    BY <1>1, <1>4, <2>1, PushLogKeeps
  <2>2. CASE \E n \in sent_.nodes, line \in sent_.shell :
               Ui!PushShell(n, line) /\ UNCHANGED <<rows, up, order, latest, columns>>
    <3>1. PICK n \in sent_.nodes, line \in sent_.shell :
            Ui!PushShell(n, line) /\ UNCHANGED <<rows, up, order, latest, columns>>
      BY <2>2
    <3>2. n \in Ui!Nodes /\ line \in Lines
      BY <1>1
    <3>3. QED
      BY <1>4, <3>1, <3>2, PushShellKeeps
  <2>3. CASE \E f \in Ui!Feeds : \E row \in sent_[f] :
               Ui!PushFeed(f, row.key, row.body, row.rate) /\ UNCHANGED <<shellOut, up>>
    <3>1. PICK f \in Ui!Feeds : \E row \in sent_[f] : Ui!PushFeed(f, row.key, row.body, row.rate) /\ UNCHANGED <<shellOut, up>>
      BY <2>3
    <3>2. PICK row \in sent_[f] : Ui!PushFeed(f, row.key, row.body, row.rate) /\ UNCHANGED <<shellOut, up>>
      BY <3>1
    <3>3. row.key \in Keys(f) /\ row.body \in Bodies(f) /\ row.rate \in Nat
      BY <1>1
    <3>4. QED
      BY <1>4, <3>2, <3>3, PushFeedKeeps
  <2>4. CASE \E n \in sent_.nodes, connected_ \in BOOLEAN : Ui!Connection(n, connected_, sent_)
    <3>1. \E line \in sent_.log : Ui!PushLog(line) /\ UNCHANGED <<shellOut, order, latest, columns>>
      BY <2>4 DEF Ui!Connection
    <3>2. QED
      BY <1>1, <1>4, <3>1, PushLogKeeps
  <2>5. QED
    BY <1>2, <2>1, <2>2, <2>3, <2>4 DEF Ui!Receive
<1>6. QED
  BY <1>3, <1>4, <1>5, ScreenKept, TypingKept DEF PanesIInv

-----------------------------------------------------------------------------
(* The places in a text *)

\* The places between the characters of a text grow by their bytes.
LEMMA PlacesAre ==
  ASSUME NEW text \in Seq(DOMAIN Bytes)
  PROVE  LET at_ == Ui!Places(text)
         IN  /\ at_ \in [0..Len(text) -> Int] /\ at_[0] = 0
             /\ \A n \in 1..Len(text) : at_[n] = at_[n - 1] + Bytes[text[n]]
             /\ \A i \in 0..Len(text) : \A j \in i..Len(text) : at_[j] - at_[i] >= j - i
<1> DEFINE numbers == [i \in DOMAIN text |-> Bytes[text[i]]]
           N == Len(text)
<1>1. DOMAIN text = 1..N /\ N \in Nat /\ \A i \in 1..N : text[i] \in DOMAIN Bytes
  OBVIOUS
<1>2. \A i \in 1..N : Bytes[text[i]] \in Int /\ Bytes[text[i]] >= 1
  BY <1>1, PanesAssumption
<1>3. numbers \in Seq(Int) /\ Len(numbers) = N /\ \A i \in 1..N : numbers[i] = Bytes[text[i]]
  BY <1>1, <1>2
<1>4. \A i \in DOMAIN numbers : numbers[i] >= 1
  BY <1>1, <1>2
<1>5. Ui!Places(text) = Ui!Sums(numbers)
  BY DEF Ui!Places
<1> HIDE DEF numbers
<1>6. \A i \in 0..Len(numbers) : \A j \in i..Len(numbers) : Ui!Sums(numbers)[j] - Ui!Sums(numbers)[i] >= j - i
  BY <1>3, <1>4, SumsGrow
<1>7. /\ Ui!Sums(numbers) \in [0..Len(numbers) -> Int] /\ Ui!Sums(numbers)[0] = 0
      /\ \A n \in 1..Len(numbers) : Ui!Sums(numbers)[n] = Ui!Sums(numbers)[n - 1] + numbers[n]
  BY <1>3, SumsAre
<1>8. QED
  BY <1>3, <1>5, <1>6, <1>7

\* Texts that begin alike have the same first places.
LEMMA PlacesAgree ==
  ASSUME NEW text \in Seq(DOMAIN Bytes), NEW other \in Seq(DOMAIN Bytes), NEW n \in Nat,
         n <= Len(text), n <= Len(other), \A i \in 1..n : text[i] = other[i]
  PROVE  Ui!Places(text)[n] = Ui!Places(other)[n]
<1> DEFINE a == [i \in DOMAIN text |-> Bytes[text[i]]]
           b == [i \in DOMAIN other |-> Bytes[other[i]]]
<1>1. /\ DOMAIN text = 1..Len(text) /\ \A i \in 1..Len(text) : text[i] \in DOMAIN Bytes
      /\ DOMAIN other = 1..Len(other) /\ \A i \in 1..Len(other) : other[i] \in DOMAIN Bytes
      /\ Len(text) \in Nat /\ Len(other) \in Nat
  OBVIOUS
<1>2. \A key \in DOMAIN Bytes : Bytes[key] \in Int
  BY PanesAssumption
<1>3. a \in Seq(Int) /\ b \in Seq(Int) /\ Len(a) = Len(text) /\ Len(b) = Len(other)
  BY <1>1, <1>2
<1>4. \A i \in 1..n : a[i] = b[i]
  BY <1>1
<1>5. Ui!Places(text) = Ui!Sums(a) /\ Ui!Places(other) = Ui!Sums(b)
  BY DEF Ui!Places
<1>6. n \in 0..n
  OBVIOUS
<1> HIDE DEF a, b
<1>7. QED
  BY <1>3, <1>4, <1>5, <1>6, SumsAgree

\* A text has its places from 0 to its length.
LEMMA BoundariesAre ==
  ASSUME NEW text \in Seq(DOMAIN Bytes)
  PROVE  /\ 0 \in Ui!Boundaries(text) /\ Ui!Length(text) \in Ui!Boundaries(text)
         /\ Ui!Length(text) \in Nat
         /\ Ui!Boundaries(text) \in SUBSET (0..Ui!Length(text))
<1> DEFINE at_ == Ui!Places(text)
           N == Len(text)
<1>1. /\ at_ \in [0..N -> Int] /\ at_[0] = 0
      /\ \A i \in 0..N : \A j \in i..N : at_[j] - at_[i] >= j - i
  BY PlacesAre
<1>2. N \in Nat
  OBVIOUS
<1>3. Ui!Length(text) = at_[N] /\ Ui!Boundaries(text) = {at_[i] : i \in 0..N}
  BY DEF Ui!Length, Ui!Boundaries
<1> HIDE DEF at_, N
<1>4. 0 \in 0..N /\ N \in 0..N
  BY <1>2
<1>5. ASSUME NEW i \in 0..N PROVE at_[i] \in 0..at_[N]
  <2>1. i \in 0..N /\ N \in i..N /\ i \in Int /\ 0 <= i /\ i <= N /\ N \in Int
    BY <1>2
  <2>2. at_[i] - at_[0] >= i - 0 /\ at_[N] - at_[i] >= N - i
    BY <1>1, <1>4, <2>1
  <2>3. at_[i] \in Int /\ at_[N] \in Int
    BY <1>1, <1>4
  <2>4. at_[i] >= 0
    <3>1. at_[0] = 0 /\ at_[i] - at_[0] >= i - 0
      BY <1>1, <2>2
    <3>2. QED
      BY <2>1, <2>3, <3>1
  <2>5. at_[i] <= at_[N]
    BY <2>1, <2>2, <2>3
  <2>6. QED
    BY <2>3, <2>4, <2>5
<1>6. at_[N] \in Nat
  BY <1>1, <1>4, <1>5
<1>7. QED
  BY <1>1, <1>3, <1>4, <1>5, <1>6

\* The place before another is the one of a character less.
LEMMA BeforeIs ==
  ASSUME NEW text \in Seq(DOMAIN Bytes), NEW place
  PROVE  /\ Ui!Before(text, place) \in Ui!Boundaries(text)
         /\ \A i \in 1..Len(text) :
              place = Ui!Places(text)[i] => Ui!Before(text, place) = Ui!Places(text)[i - 1]
<1> DEFINE S == {b \in Ui!Boundaries(text) : b < place} \cup {0}
           at_ == Ui!Places(text)
           N == Len(text)
<1>1. /\ 0 \in Ui!Boundaries(text) /\ Ui!Length(text) \in Nat
      /\ Ui!Boundaries(text) \in SUBSET (0..Ui!Length(text))
  BY BoundariesAre
<1>2. S \in SUBSET (0..Ui!Length(text)) /\ S # {} /\ S \subseteq Ui!Boundaries(text)
  BY <1>1
<1>3. Ui!Before(text, place) = Ui!Max(S)
  BY DEF Ui!Before
<1>4. Ui!Max(S) \in S /\ \A n \in S : n <= Ui!Max(S)
  <2> HIDE DEF S
  <2>1. QED
    BY <1>1, <1>2, MaxIs
<1>5. ASSUME NEW i \in 1..N, place = at_[i] PROVE Ui!Max(S) = at_[i - 1]
  <2>1. /\ at_ \in [0..N -> Int] /\ at_[0] = 0
        /\ \A k \in 0..N : \A j \in k..N : at_[j] - at_[k] >= j - k
    BY PlacesAre
  <2>2. Ui!Boundaries(text) = {at_[k] : k \in 0..N} /\ N \in Nat
    BY DEF Ui!Boundaries
  <2> HIDE DEF at_, N
  <2>3. i \in 0..N /\ i - 1 \in 0..N /\ i \in (i - 1)..N /\ i \in Int
    BY <2>2
  <2>4. at_[i] \in Int /\ at_[i - 1] \in Int /\ at_[i] - at_[i - 1] >= i - (i - 1)
    BY <2>1, <2>3
  <2>5. at_[i - 1] < at_[i]
    BY <2>3, <2>4
  <2>6. at_[i - 1] \in S
    BY <1>5, <2>2, <2>3, <2>5
  <2>7. ASSUME NEW b \in S PROVE b <= at_[i - 1]
    <3>1. PICK k \in 0..N : b = at_[k]
      BY <1>2, <2>2
    <3>2. CASE k <= i - 1
      <4>1. i - 1 \in k..N /\ k \in Int
        BY <2>2, <2>3, <3>2
      <4>2. at_[i - 1] - at_[k] >= (i - 1) - k /\ at_[k] \in Int
        BY <2>1, <4>1
      <4>3. QED
        BY <2>3, <2>4, <3>1, <3>2, <4>1, <4>2
    <3>3. CASE ~(k <= i - 1)
      <4>1. k \in i..N /\ k \in Int /\ k # 0
        BY <2>2, <2>3, <3>3
      <4>2. at_[k] - at_[i] >= k - i /\ at_[k] \in Int
        BY <2>1, <2>3, <4>1
      <4>3. ~(at_[k] < at_[i])
        BY <2>3, <2>4, <4>1, <4>2
      <4>4. at_[k] = 0
        BY <1>5, <3>1, <4>3
      <4>5. at_[i - 1] >= 0
        <5>1. 0 \in 0..N /\ i - 1 \in 0..N
          BY <2>2, <2>3
        <5>2. at_[i - 1] - at_[0] >= (i - 1) - 0
          BY <2>1, <5>1
        <5>3. QED
          BY <2>1, <2>3, <2>4, <5>2
      <4>6. QED
        BY <3>1, <4>4, <4>5
    <3>4. QED
      BY <3>2, <3>3
  <2>8. Ui!Max(S) <= at_[i - 1] /\ at_[i - 1] <= Ui!Max(S) /\ Ui!Max(S) \in Int
    BY <1>2, <1>4, <2>6, <2>7
  <2> HIDE DEF S
  <2>9. QED
    BY <2>4, <2>8
<1>6. QED
  BY <1>2, <1>3, <1>4, <1>5

\* The place after another is one.
LEMMA AfterIs ==
  ASSUME NEW text \in Seq(DOMAIN Bytes), NEW place
  PROVE  Ui!After(text, place) \in Ui!Boundaries(text)
<1> DEFINE S == {b \in Ui!Boundaries(text) : b > place} \cup {Ui!Length(text)}
<1>1. /\ Ui!Length(text) \in Ui!Boundaries(text) /\ Ui!Length(text) \in Nat
      /\ Ui!Boundaries(text) \in SUBSET (0..Ui!Length(text))
  BY BoundariesAre
<1>2. S \in SUBSET Nat /\ S # {} /\ S \subseteq Ui!Boundaries(text)
  BY <1>1
<1>3. Ui!After(text, place) = Ui!Min(S)
  BY DEF Ui!After
<1> HIDE DEF S
<1>4. QED
  BY <1>2, <1>3, MinIs

\* A place has a number of characters before it.
LEMMA CharactersBeforeIs ==
  ASSUME NEW text \in Seq(DOMAIN Bytes), NEW place \in Ui!Boundaries(text)
  PROVE  /\ Ui!CharactersBefore(text, place) \in 0..Len(text)
         /\ Ui!Places(text)[Ui!CharactersBefore(text, place)] = place
<1>1. \E i \in 0..Len(text) : Ui!Places(text)[i] = place
  BY DEF Ui!Boundaries
<1>2. QED
  BY <1>1 DEF Ui!CharactersBefore

\* A character inserted at a place leaves the cursor behind it.
LEMMA InsertKeeps ==
  ASSUME NEW text \in Seq(DOMAIN Bytes), NEW place \in Ui!Boundaries(text), NEW key \in DOMAIN Bytes
  PROVE  LET longer == Ui!InsertAt(text, Ui!CharactersBefore(text, place) + 1, key)
         IN  longer \in Seq(DOMAIN Bytes) /\ place + Bytes[key] \in Ui!Boundaries(longer)
<1> DEFINE c == Ui!CharactersBefore(text, place)
           N == Len(text)
           left == SubSeq(text, 1, c)
           right == SubSeq(text, c + 1, N)
           longer == Ui!InsertAt(text, c + 1, key)
<1>1. c \in 0..N /\ Ui!Places(text)[c] = place /\ N \in Nat
  BY CharactersBeforeIs
<1>2. longer = left \o <<key>> \o right
  <2>1. (c + 1) - 1 = c
    BY <1>1
  <2> HIDE DEF c
  <2>2. QED
    BY <2>1 DEF Ui!InsertAt
<1> HIDE DEF c, longer
<1>3. /\ left \in Seq(DOMAIN Bytes) /\ Len(left) = c /\ \A i \in 1..c : left[i] = text[i]
      /\ right \in Seq(DOMAIN Bytes) /\ Len(right) \in Nat
  <2>1. \A i \in 1..N : text[i] \in DOMAIN Bytes
    OBVIOUS
  <2>2. c \in Int /\ N \in Int /\ 1..c \subseteq 1..N /\ (c + 1)..N \subseteq 1..N /\ 0 <= c
    BY <1>1
  <2> HIDE DEF N
  <2>3. left \in Seq(DOMAIN Bytes) /\ right \in Seq(DOMAIN Bytes)
    BY <2>1, <2>2, SubSeqProperties
  <2>4. Len(left) = (IF 1 <= c THEN c - 1 + 1 ELSE 0) /\ \A i \in 1..(c - 1 + 1) : left[i] = text[1 + i - 1]
    BY <2>1, <2>2, SubSeqProperties
  <2>5. \A i \in 1..c : i \in 1..(c - 1 + 1) /\ 1 + i - 1 = i
    BY <2>2
  <2>6. QED
    BY <2>2, <2>3, <2>4, <2>5
<1> HIDE DEF left, right
<1>4. /\ longer \in Seq(DOMAIN Bytes) /\ Len(longer) \in Nat /\ c + 1 <= Len(longer)
      /\ \A i \in 1..c : longer[i] = text[i]
      /\ longer[c + 1] = key
  <2> DEFINE start == left \o <<key>>
  <2>1. /\ start \in Seq(DOMAIN Bytes) /\ Len(start) = c + 1 /\ start[c + 1] = key
        /\ \A i \in 1..c : start[i] = left[i]
    BY <1>1, <1>3
  <2> HIDE DEF start
  <2>2. /\ start \o right \in Seq(DOMAIN Bytes) /\ Len(start \o right) = c + 1 + Len(right)
        /\ \A i \in 1..(c + 1) : (start \o right)[i] = start[i]
    BY <1>1, <1>3, <2>1
  <2>3. longer = start \o right
    BY <1>2 DEF start
  <2>4. c + 1 \in 1..(c + 1) /\ \A i \in 1..c : i \in 1..(c + 1)
    BY <1>1
  <2>5. QED
    BY <1>1, <1>3, <2>1, <2>2, <2>3, <2>4
<1>5. Ui!Places(longer)[c] = place
  <2>1. c \in Nat /\ c <= Len(text) /\ c <= Len(longer)
    BY <1>1, <1>4
  <2>2. Ui!Places(text)[c] = Ui!Places(longer)[c]
    BY <1>4, <2>1, PlacesAgree
  <2>3. QED
    BY <1>1, <2>2
<1>6. Ui!Places(longer)[c + 1] = place + Bytes[key]
  <2>1. c + 1 \in 1..Len(longer) /\ (c + 1) - 1 = c
    BY <1>1, <1>4
  <2>2. \A n \in 1..Len(longer) : Ui!Places(longer)[n] = Ui!Places(longer)[n - 1] + Bytes[longer[n]]
    BY <1>4, PlacesAre
  <2>3. QED
    BY <1>4, <1>5, <2>1, <2>2
<1>7. c + 1 \in 0..Len(longer)
  BY <1>1, <1>4
<1>8. QED
  BY <1>4, <1>6, <1>7 DEF Ui!Boundaries, longer, c

\* And one that is removed, before it.
LEMMA RemoveKeeps ==
  ASSUME NEW text \in Seq(DOMAIN Bytes), NEW place \in Ui!Boundaries(text), place > 0
  PROVE  LET shorter == Ui!RemoveAt(text, Ui!CharactersBefore(text, place))
         IN  shorter \in Seq(DOMAIN Bytes) /\ Ui!Before(text, place) \in Ui!Boundaries(shorter)
<1> DEFINE c == Ui!CharactersBefore(text, place)
           N == Len(text)
           left == SubSeq(text, 1, c - 1)
           right == SubSeq(text, c + 1, N)
           shorter == Ui!RemoveAt(text, c)
<1>1. c \in 0..N /\ Ui!Places(text)[c] = place /\ N \in Nat
  BY CharactersBeforeIs
<1>2. shorter = left \o right
  BY DEF Ui!RemoveAt
<1> HIDE DEF c, shorter
<1>3. c \in 1..N
  <2>1. Ui!Places(text)[0] = 0
    BY PlacesAre
  <2>2. c # 0
    BY <1>1, <2>1
  <2>3. QED
    BY <1>1, <2>2
<1>4. /\ left \in Seq(DOMAIN Bytes) /\ Len(left) = c - 1 /\ \A i \in 1..(c - 1) : left[i] = text[i]
      /\ right \in Seq(DOMAIN Bytes) /\ Len(right) \in Nat
  <2>1. \A i \in 1..N : text[i] \in DOMAIN Bytes
    OBVIOUS
  <2>2. c \in Int /\ N \in Int /\ 1..(c - 1) \subseteq 1..N /\ (c + 1)..N \subseteq 1..N /\ 1 <= c
    BY <1>3
  <2> HIDE DEF N
  <2>3. left \in Seq(DOMAIN Bytes) /\ right \in Seq(DOMAIN Bytes)
    BY <2>1, <2>2, SubSeqProperties
  <2>4. /\ Len(left) = (IF 1 <= c - 1 THEN (c - 1) - 1 + 1 ELSE 0)
        /\ \A i \in 1..((c - 1) - 1 + 1) : left[i] = text[1 + i - 1]
    BY <2>1, <2>2, SubSeqProperties
  <2>5. \A i \in 1..(c - 1) : i \in 1..((c - 1) - 1 + 1) /\ 1 + i - 1 = i
    BY <2>2
  <2>6. QED
    BY <2>2, <2>3, <2>4, <2>5
<1> HIDE DEF left, right
<1>5. /\ shorter \in Seq(DOMAIN Bytes) /\ Len(shorter) \in Nat /\ c - 1 <= Len(shorter)
      /\ \A i \in 1..(c - 1) : shorter[i] = text[i]
  <2>1. /\ left \o right \in Seq(DOMAIN Bytes) /\ Len(left \o right) = (c - 1) + Len(right)
        /\ \A i \in 1..(c - 1) : (left \o right)[i] = left[i]
    BY <1>3, <1>4
  <2>2. QED
    BY <1>2, <1>3, <1>4, <2>1
<1>6. Ui!Places(shorter)[c - 1] = Ui!Places(text)[c - 1]
  <2>1. c - 1 \in Nat /\ c - 1 <= Len(text) /\ c - 1 <= Len(shorter)
    BY <1>3, <1>5
  <2>2. QED
    BY <1>5, <2>1, PlacesAgree
<1>7. Ui!Before(text, place) = Ui!Places(text)[c - 1]
  BY <1>1, <1>3, BeforeIs
<1>8. c - 1 \in 0..Len(shorter)
  BY <1>3, <1>5
<1>9. QED
  BY <1>5, <1>6, <1>7, <1>8 DEF Ui!Boundaries, shorter, c

-----------------------------------------------------------------------------
(* The keys *)

\* The newest lines of a pane start somewhere, or it is not on the screen.
LEMMA DrawnBottomIs ==
  ASSUME Arrived, Screen, NEW p \in Ui!Panes
  PROVE  Ui!DrawnBottomStart(p) \in Nat
<1>1. CASE p \in DOMAIN Ui!PaneRects
  BY <1>1, PaneIs, BottomIs DEF Ui!DrawnBottomStart
<1>2. CASE p \notin DOMAIN Ui!PaneRects
  BY <1>2 DEF Ui!DrawnBottomStart
<1>3. QED
  BY <1>1, <1>2

\* A key leaves a view.
LEMMA ScrollViewIs ==
  ASSUME NEW key, NEW bottom \in Nat, NEW v \in Views
  PROVE  Ui!ScrollView(key, bottom, v) \in Views
<1>1. CASE key \notin Ui!ScrollKeys
  BY <1>1 DEF Ui!ScrollView
<1>2. CASE key \in Ui!ScrollKeys
  <2> DEFINE s == Ui!DisplayStart(v, bottom)
             t == Ui!Target(key, s)
  <2>1. s \in 0..bottom /\ PageRows \in Nat
    BY DisplayStartIs, PanesAssumption
  <2> HIDE DEF s
  <2>2. Ui!Max({s - 1, 0}) \in Nat /\ Ui!Max({s - PageRows, 0}) \in Nat /\ s + 1 \in Nat /\ s + PageRows \in Nat
    BY <2>1, GreaterOfTwo
  <2>3. t \in Nat
    BY <1>2, <2>2 DEF Ui!Target, Ui!ScrollKeys, Ui!UpKeys, Ui!DownKeys, Ui!TopKeys
  <2> DEFINE back == key \in Ui!DownKeys \cup {"PageDown"} /\ t >= bottom
  <2>4. Ui!ScrollView(key, bottom, v) = [scroll |-> Ui!Min({t, bottom}), follow |-> back]
    BY <1>2 DEF Ui!ScrollView, s
  <2> HIDE DEF t
  <2>5. Ui!Min({t, bottom}) \in Nat
    BY <2>3, LessOfTwo
  <2>6. back \in BOOLEAN
    OBVIOUS
  <2> HIDE DEF back
  <2>7. QED
    BY <2>4, <2>5, <2>6 DEF Views
<1>3. QED
  BY <1>1, <1>2

\* And so does a pause.
LEMMA PausedViewIs ==
  ASSUME Arrived, Screen, NEW f \in Ui!Feeds
  PROVE  Ui!PausedView(f) \in Views
<1>1. view[f] \in Views /\ f \in Ui!Panes
  BY DEF Screen, Ui!Panes
<1>2. Ui!DrawnBottomStart(f) \in Nat
  BY <1>1, DrawnBottomIs
<1>3. Ui!DisplayStart(view[f], Ui!DrawnBottomStart(f)) \in Nat
  BY <1>1, <1>2, DisplayStartIs
<1>4. [view[f] EXCEPT !.follow = TRUE] \in Views
  BY <1>1 DEF Views
<1>5. QED
  BY <1>3, <1>4 DEF Ui!PausedView, Views

\* A key edits the filter of one feed.
LEMMA EditFilterKeeps ==
  ASSUME Screen, Ui!Editing, NEW key, Ui!EditFilter(key),
         UNCHANGED <<view, canView, focus, maximized, current, selection>>
  PROVE  Screen'
<1>1. CASE mode' = mode
  BY <1>1, ScreenKept
<1>2. CASE mode' # mode
  <2> DEFINE e == Ui!EditedFeed
             feed == mode[e]
             edited ==
               CASE key = "Esc" -> [feed EXCEPT !.filter = <<>>, !.editing = FALSE]
                 [] key \in {"Enter", "AltEnter"} -> [feed EXCEPT !.editing = FALSE]
                 [] key = "Backspace" -> [feed EXCEPT !.filter = IF @ = <<>> THEN @ ELSE Ui!Front(@)]
                 [] key \in DOMAIN Bytes /\ Len(feed.filter) < MaxInput -> [feed EXCEPT !.filter = Append(@, key)]
                 [] OTHER -> feed
  <2>0. {"Esc", "Enter", "AltEnter", "Backspace"} \cap DOMAIN Bytes = {}
    BY PanesAssumption
  <2>1. mode' = [mode EXCEPT ![e] = edited]
    BY <1>2 DEF Ui!EditFilter
  <2>2. e \in Ui!Feeds /\ mode \in [Ui!Feeds -> Modes]
    BY DEF Ui!EditedFeed, Ui!Feeds, Screen
  <2>3. feed \in Modes
    BY <2>2
  <2>4. edited \in Modes /\ (edited.editing => feed.editing)
    <3> HIDE DEF feed
    <3>1. CASE key = "Esc"
      <4>1. edited = [feed EXCEPT !.filter = <<>>, !.editing = FALSE]
        BY <2>0, <3>1
      <4>2. <<>> \in Seq(DOMAIN Bytes)
        OBVIOUS
      <4>3. QED
        BY <2>3, <4>1, <4>2 DEF Modes
    <3>2. CASE key \in {"Enter", "AltEnter"}
      <4>1. edited = [feed EXCEPT !.editing = FALSE]
        BY <2>0, <3>2
      <4> HIDE DEF edited
      <4>2. QED
        BY <2>3, <4>1 DEF Modes
    <3>3. CASE key = "Backspace"
      <4>1. feed.filter \in Seq(DOMAIN Bytes)
        BY <2>3 DEF Modes
      <4>2. Ui!Front(feed.filter) \in Seq(DOMAIN Bytes)
        <5>1. Len(feed.filter) - 1 \in Int /\ 1 \in Int /\ \A j \in 1..(Len(feed.filter) - 1) : feed.filter[j] \in DOMAIN Bytes
          BY <4>1
        <5>2. QED
          BY <5>1, SubSeqProperties DEF Ui!Front
      <4> DEFINE shorter == IF feed.filter = <<>> THEN feed.filter ELSE Ui!Front(feed.filter)
      <4>3. edited = [feed EXCEPT !.filter = shorter]
        BY <2>0, <3>3
      <4>4. shorter \in Seq(DOMAIN Bytes)
        BY <4>1, <4>2
      <4> HIDE DEF shorter
      <4>5. QED
        BY <2>3, <4>3, <4>4 DEF Modes
    <3>4. CASE key \notin {"Esc", "Enter", "AltEnter", "Backspace"} /\ key \in DOMAIN Bytes /\ Len(feed.filter) < MaxInput
      <4>1. edited = [feed EXCEPT !.filter = Append(feed.filter, key)]
        BY <3>4
      <4>2. Append(feed.filter, key) \in Seq(DOMAIN Bytes)
        BY <2>3, <3>4 DEF Modes
      <4>3. QED
        BY <2>3, <4>1, <4>2 DEF Modes
    <3>5. CASE key \notin {"Esc", "Enter", "AltEnter", "Backspace"} /\ ~(key \in DOMAIN Bytes /\ Len(feed.filter) < MaxInput)
      BY <2>3, <3>5
    <3>6. QED
      BY <3>1, <3>2, <3>3, <3>4, <3>5
  <2> HIDE DEF edited
  <2>5. mode' \in [Ui!Feeds -> Modes]
    BY <2>1, <2>2, <2>4
  <2>6. \A f \in Ui!Feeds : mode'[f].editing => mode[f].editing
    BY <2>1, <2>2, <2>4
  <2>7. QED
    BY <2>5, <2>6 DEF Screen, Ui!Feeds
<1>3. QED
  BY <1>1, <1>2

\* The keys of a feed: one filter at most is edited.
LEMMA FeedKeyKeeps ==
  ASSUME Screen, ~Ui!Editing, focus \in Ui!Feeds, NEW key \in Ui!FeedKeys, Ui!FeedKey(key),
         UNCHANGED <<focus, maximized, current, selection>>
  PROVE  Screen'
<1>1. /\ mode \in [Ui!Feeds -> Modes] /\ view \in [Ui!Panes -> Views]
      /\ \A f \in Ui!Feeds : ~mode[f].editing
  BY DEF Screen, Ui!Editing
<1>2. Ui!Following \in Views /\ focus \in Ui!Panes
  BY DEF Ui!Following, Views, Screen
<1>3. CASE key = "o"
  <2> DEFINE m == [mode[focus] EXCEPT !.observer = ~@]
  <2>1. m \in Modes /\ m.editing = mode[focus].editing
    BY <1>1 DEF Modes
  <2>2. mode' = [mode EXCEPT ![focus] = m] /\ view' = [view EXCEPT ![focus] = Ui!Following] /\ canView' = canView
    BY <1>3 DEF Ui!FeedKey
  <2> HIDE DEF m
  <2>3. mode' \in [Ui!Feeds -> Modes] /\ view' \in [Ui!Panes -> Views] /\ \A f \in Ui!Feeds : ~mode'[f].editing
    BY <1>1, <1>2, <2>1, <2>2
  <2>4. QED
    BY <2>2, <2>3 DEF Screen, Ui!Feeds
<1>4. CASE key = "/"
  <2> DEFINE m == [mode[focus] EXCEPT !.editing = TRUE, !.filter = <<>>]
  <2>1. m \in Modes
    <3>1. mode[focus] \in Modes /\ <<>> \in Seq(DOMAIN Bytes)
      BY <1>1
    <3>2. QED
      BY <3>1 DEF Modes
  <2>2. mode' = [mode EXCEPT ![focus] = m] /\ view' = view /\ canView' = canView
    BY <1>4 DEF Ui!FeedKey
  <2> HIDE DEF m
  <2>3. mode' \in [Ui!Feeds -> Modes] /\ \A f \in Ui!Feeds : f # focus => ~mode'[f].editing
    BY <1>1, <2>1, <2>2
  <2>4. ~(mode'["Bus"].editing /\ mode'["Can"].editing)
    BY <2>3 DEF Ui!Feeds
  <2>5. QED
    BY <2>2, <2>3, <2>4 DEF Screen
<1>5. CASE key = "i"
  <2>1. canView' \in Ui!CanViews /\ view' = view /\ mode' = mode
    BY <1>5 DEF Ui!FeedKey, Ui!CanViews, Screen
  <2>2. QED
    BY <2>1 DEF Screen
<1>6. QED
  BY <1>3, <1>4, <1>5 DEF Ui!FeedKeys

\* The shell of a node that is gone to is followed.
LEMMA FollowShellKeeps ==
  ASSUME Screen, NEW node \in Ui!Nodes, Ui!FollowShell(node)
  PROVE  current' \in Ui!Nodes /\ view' \in [Ui!Panes -> Views]
<1> DEFINE v == [view["Shell"] EXCEPT !.follow = TRUE]
<1>1. view \in [Ui!Panes -> Views] /\ "Shell" \in Ui!Panes
  BY DEF Screen, Ui!Panes
<1>2. v \in Views
  BY <1>1 DEF Views
<1>3. view' = [view EXCEPT !["Shell"] = v] /\ current' = node
  BY DEF Ui!FollowShell
<1> HIDE DEF v
<1>4. QED
  BY <1>1, <1>2, <1>3

\* From node to node.
LEMMA CycleKeeps ==
  ASSUME Screen, NEW delta \in {-1, 1}, Ui!Cycle(delta)
  PROVE  current' \in Ui!Nodes /\ view' \in [Ui!Panes -> Views]
<1> DEFINE n == Len(NodeOrder)
           place == CHOOSE i \in 1..n : NodeOrder[i] = current
           next == ((place - 1 + delta + n) % n) + 1
<1>1. current \in Ui!Nodes /\ view \in [Ui!Panes -> Views] /\ NodeOrder \in Seq(STRING) /\ NodeOrder # <<>>
  BY PanesAssumption DEF Screen
<1>2. n \in Nat \ {0} /\ DOMAIN NodeOrder = 1..n
  BY <1>1
<1>3. CASE n < 2
  BY <1>1, <1>3 DEF Ui!Cycle
<1>4. CASE ~(n < 2)
  <2>1. \E i \in 1..n : NodeOrder[i] = current
    BY <1>1, <1>2 DEF Ui!Nodes, Ui!Range
  <2>2. place \in 1..n
    BY <2>1
  <2>3. Ui!FollowShell(NodeOrder[next])
    BY <1>4 DEF Ui!Cycle
  <2> HIDE DEF place, n
  <2>4. place - 1 + delta + n \in Int /\ n \in Int /\ n > 0
    BY <1>2, <2>2
  <2> DEFINE x == place - 1 + delta + n
  <2> HIDE DEF x
  <2>5. x % n \in 0..(n - 1)
    <3>1. x \in Int
      BY <2>4 DEF x
    <3>2. QED
      BY <2>4, <3>1
  <2>6. next \in 1..n
    <3>1. next = (x % n) + 1
      BY DEF x
    <3>2. QED
      BY <1>2, <2>5, <3>1
  <2> HIDE DEF next
  <2>7. NodeOrder[next] \in Ui!Nodes
    BY <1>2, <2>6 DEF Ui!Nodes, Ui!Range
  <2>8. QED
    BY <2>3, <2>7, FollowShellKeeps
<1>5. QED
  BY <1>3, <1>4

\* And to a node.
LEMMA JumpKeeps ==
  ASSUME Screen, NEW key \in DOMAIN Ui!Tabs, Ui!Jump(key)
  PROVE  current' \in Ui!Nodes /\ view' \in [Ui!Panes -> Views]
<1>1. current \in Ui!Nodes /\ view \in [Ui!Panes -> Views] /\ NodeOrder \in Seq(STRING)
  BY PanesAssumption DEF Screen
<1>2. CASE Ui!Tabs[key] <= Len(NodeOrder)
  <2>1. Ui!Tabs[key] \in {1, 2, 3}
    BY DEF Ui!Tabs
  <2>2. Ui!Tabs[key] \in DOMAIN NodeOrder
    BY <1>1, <1>2, <2>1
  <2>3. NodeOrder[Ui!Tabs[key]] \in Ui!Nodes
    BY <2>2 DEF Ui!Nodes, Ui!Range
  <2>4. QED
    BY <1>2, <2>3, FollowShellKeeps DEF Ui!Jump
<1>3. CASE ~(Ui!Tabs[key] <= Len(NodeOrder))
  BY <1>1, <1>3 DEF Ui!Jump
<1>4. QED
  BY <1>2, <1>3

\* The keys of every pane.
LEMMA GlobalKeyKeeps ==
  ASSUME Screen, NEW key, Ui!GlobalKey(key), UNCHANGED <<mode, canView, focus, selection>>
  PROVE  Screen'
<1>1. current' \in Ui!Nodes /\ view' \in [Ui!Panes -> Views] /\ maximized' \in BOOLEAN
  <2>1. current \in Ui!Nodes /\ view \in [Ui!Panes -> Views] /\ maximized \in BOOLEAN
    BY DEF Screen
  <2>2. CASE UNCHANGED <<current, view, maximized>>
    BY <2>1, <2>2
  <2>3. CASE Ui!Cycle(1) /\ UNCHANGED maximized
    BY <2>1, <2>3, CycleKeeps
  <2>4. CASE Ui!Cycle(-1) /\ UNCHANGED maximized
    BY <2>1, <2>4, CycleKeeps
  <2>5. CASE key \in DOMAIN Ui!Tabs /\ Ui!Jump(key) /\ UNCHANGED maximized
    BY <2>1, <2>5, JumpKeeps
  <2>6. CASE maximized' = ~maximized /\ UNCHANGED <<current, view>>
    BY <2>1, <2>6
  <2>7. QED
    BY <2>2, <2>3, <2>4, <2>5, <2>6 DEF Ui!GlobalKey
<1>2. QED
  BY <1>1 DEF Screen

\* A view that follows again is one.
LEMMA Refollows ==
  ASSUME Screen, NEW p \in Ui!Panes
  PROVE  [view EXCEPT ![p].follow = TRUE] \in [Ui!Panes -> Views]
<1> DEFINE v == [view[p] EXCEPT !.follow = TRUE]
<1>1. view \in [Ui!Panes -> Views]
  BY DEF Screen
<1>2. v \in Views
  BY <1>1 DEF Views
<1>3. [view EXCEPT ![p].follow = TRUE] = [view EXCEPT ![p] = v]
  OBVIOUS
<1> HIDE DEF v
<1>4. QED
  BY <1>1, <1>2, <1>3

\* The scroll keys of a feed.
LEMMA ScrollFeedKeeps ==
  ASSUME Arrived, Screen, focus \in Ui!Feeds, NEW key, Ui!ScrollFeed(focus, key),
         UNCHANGED <<canView, focus, maximized, current, selection>>
  PROVE  Screen'
<1>1. /\ mode \in [Ui!Feeds -> Modes] /\ view \in [Ui!Panes -> Views] /\ focus \in Ui!Panes
      /\ ~(mode["Bus"].editing /\ mode["Can"].editing)
  BY DEF Screen
<1> DEFINE Paused(m) == /\ m \in Modes /\ m.editing = mode[focus].editing
                        /\ mode' = [mode EXCEPT ![focus] = m]
<1>2. ASSUME NEW m, Paused(m), view' \in [Ui!Panes -> Views] PROVE Screen'
  <2>1. mode' \in [Ui!Feeds -> Modes] /\ \A f \in Ui!Feeds : mode'[f].editing = mode[f].editing
    BY <1>1, <1>2
  <2>2. ~(mode'["Bus"].editing /\ mode'["Can"].editing)
    BY <1>1, <2>1 DEF Ui!Feeds
  <2>3. QED
    BY <1>2, <2>1, <2>2 DEF Screen
<1>3. CASE key \in {"q", "Esc"}
  <2>1. UNCHANGED <<view, mode>>
    BY <1>3 DEF Ui!ScrollFeed
  <2>2. QED
    BY <2>1, ScreenKept
<1>4. CASE key \in {"space", "p"}
  <2> DEFINE m == [mode[focus] EXCEPT !.paused = ~@]
  <2>1. mode' = [mode EXCEPT ![focus] = m] /\ view' = [view EXCEPT ![focus] = Ui!PausedView(focus)]
    BY <1>4 DEF Ui!ScrollFeed
  <2>2. m \in Modes /\ m.editing = mode[focus].editing
    BY <1>1 DEF Modes
  <2>3. Ui!PausedView(focus) \in Views
    BY PausedViewIs
  <2>4. view' \in [Ui!Panes -> Views]
    BY <1>1, <2>1, <2>3
  <2> HIDE DEF m
  <2>5. QED
    BY <1>2, <2>1, <2>2, <2>4
<1>5. CASE key \in {"End", "G"}
  <2> DEFINE m == [mode[focus] EXCEPT !.paused = FALSE]
  <2>1. mode' = [mode EXCEPT ![focus] = m] /\ view' = [view EXCEPT ![focus].follow = TRUE]
    BY <1>5 DEF Ui!ScrollFeed
  <2>2. m \in Modes /\ m.editing = mode[focus].editing
    BY <1>1 DEF Modes
  <2>3. view' \in [Ui!Panes -> Views]
    BY <1>1, <2>1, Refollows
  <2> HIDE DEF m
  <2>4. QED
    BY <1>2, <2>1, <2>2, <2>3
<1>6. CASE key \notin {"q", "Esc", "space", "p", "End", "G"}
  <2> DEFINE v == Ui!ScrollView(key, Ui!DrawnBottomStart(focus), view[focus])
  <2>1. mode' = mode /\ view' = [view EXCEPT ![focus] = v]
    BY <1>6 DEF Ui!ScrollFeed
  <2>2. v \in Views
    BY <1>1, DrawnBottomIs, ScrollViewIs
  <2> HIDE DEF v
  <2>3. view' \in [Ui!Panes -> Views]
    BY <1>1, <2>1, <2>2
  <2>4. QED
    BY <2>1, <2>3 DEF Screen
<1>7. QED
  BY <1>3, <1>4, <1>5, <1>6

\* And of the log.
LEMMA ScrollLogKeeps ==
  ASSUME Arrived, Screen, NEW key, Ui!ScrollLog(key),
         UNCHANGED <<mode, canView, focus, maximized, current, selection>>
  PROVE  Screen'
<1>1. view \in [Ui!Panes -> Views] /\ "Log" \in Ui!Panes
  BY DEF Screen, Ui!Panes
<1>2. view' \in [Ui!Panes -> Views]
  <2>1. CASE key \in {"q", "Esc"}
    BY <1>1, <2>1 DEF Ui!ScrollLog
  <2>2. CASE key \in {"End", "G"}
    BY <1>1, <2>2, Refollows DEF Ui!ScrollLog
  <2>3. CASE key \notin {"q", "Esc", "End", "G"}
    <3> DEFINE v == Ui!ScrollView(key, Ui!DrawnBottomStart("Log"), view["Log"])
    <3>1. view' = [view EXCEPT !["Log"] = v]
      BY <2>3 DEF Ui!ScrollLog
    <3>2. v \in Views
      BY <1>1, DrawnBottomIs, ScrollViewIs
    <3> HIDE DEF v
    <3>3. QED
      BY <1>1, <3>1, <3>2
  <2>4. QED
    BY <2>1, <2>2, <2>3
<1>3. QED
  BY <1>2 DEF Screen

-----------------------------------------------------------------------------
(* The mouse *)

\* A selection begins in a pane that is on the screen.
LEMMA MouseDownKeeps ==
  ASSUME PanesIInv, NEW p, NEW row \in Int, Ui!MouseDown(p, row)
  PROVE  PanesIInv'
<1>1. Arrived /\ Screen /\ Typing
  BY DEF PanesIInv
<1>2. /\ p \in DOMAIN Ui!PaneRects /\ focus' = p
      /\ selection' = <<[pane |-> p, anchor |-> row, end |-> row]>>
      /\ UNCHANGED <<rows, shellOut, order, latest, columns>>
      /\ UNCHANGED <<view, mode, canView, maximized, current>>
      /\ UNCHANGED <<input, cursor, history, recalled>>
  BY DEF Ui!MouseDown, Ui!arriving, Ui!typing
<1>3. p \in Ui!Panes
  BY <1>1, <1>2, PaneIs
<1>4. selection' \in Seq(Selected)
  BY <1>2, <1>3 DEF Selected
<1>5. Screen'
  BY <1>1, <1>2, <1>3, <1>4 DEF Screen
<1>6. QED
  BY <1>1, <1>2, <1>5, ArrivedKept, TypingKept DEF PanesIInv

\* It is kept to the rows of the pane.
LEMMA MouseDragKeeps ==
  ASSUME PanesIInv, NEW row \in Int, Ui!MouseDrag(row)
  PROVE  PanesIInv'
<1> DEFINE p == selection[1].pane
           rect == Ui!PaneRects[p]
           lowest == rect.top + rect.height - 2
           to == IF row < rect.top + 1 THEN rect.top + 1 ELSE IF row > lowest THEN lowest ELSE row
<1>1. Arrived /\ Screen /\ Typing
  BY DEF PanesIInv
<1>2. /\ selection # <<>> /\ p \in DOMAIN Ui!PaneRects
      /\ selection' = [selection EXCEPT ![1].end = to]
      /\ UNCHANGED <<rows, shellOut, order, latest, columns>>
      /\ UNCHANGED <<view, mode, canView, focus, maximized, current>>
      /\ UNCHANGED <<input, cursor, history, recalled>>
  BY DEF Ui!MouseDrag, Ui!arriving, Ui!typing
<1>3. rect.top \in Nat /\ rect.height \in Nat
  BY <1>1, <1>2, PaneIs
<1>4. to \in Int
  <2> HIDE DEF rect
  <2>1. QED
    BY <1>3
<1> HIDE DEF to
<1>5. selection \in Seq(Selected)
  BY <1>1 DEF Screen
<1> DEFINE s == [selection[1] EXCEPT !.end = to]
<1>6. 1 \in DOMAIN selection /\ selection[1] \in Selected
  BY <1>2, <1>5
<1>7. s \in Selected
  BY <1>4, <1>6 DEF Selected
<1>8. selection' = [selection EXCEPT ![1] = s]
  BY <1>2
<1> HIDE DEF s
<1>9. selection' \in Seq(Selected)
  BY <1>5, <1>6, <1>7, <1>8
<1>10. Screen'
  BY <1>1, <1>2, <1>9 DEF Screen
<1>11. QED
  BY <1>1, <1>2, <1>10, ArrivedKept, TypingKept DEF PanesIInv

\* And it ends.
LEMMA MouseUpKeeps ==
  ASSUME PanesIInv, Ui!MouseUp
  PROVE  PanesIInv'
<1>1. Arrived /\ Screen /\ Typing
  BY DEF PanesIInv
<1>2. /\ selection' = <<>>
      /\ UNCHANGED <<rows, shellOut, order, latest, columns>>
      /\ UNCHANGED <<view, mode, canView, focus, maximized, current>>
      /\ UNCHANGED <<input, cursor, history, recalled>>
  BY DEF Ui!MouseUp, Ui!arriving, Ui!typing
<1>3. selection' \in Seq(Selected)
  BY <1>2
<1>4. Screen'
  BY <1>1, <1>2, <1>3 DEF Screen
<1>5. QED
  BY <1>1, <1>2, <1>4, ArrivedKept, TypingKept DEF PanesIInv

-----------------------------------------------------------------------------
(* The shell *)

\* What the input is to be.
LEMMA TypingThen ==
  ASSUME input' \in Seq(DOMAIN Bytes), cursor' \in Ui!Boundaries(input'),
         history' \in Seq(Seq(DOMAIN Bytes)), Len(history') <= HistoryCap,
         recalled' \in 0..Len(history')
  PROVE  Typing'
  BY DEF Typing

\* A character is typed.
LEMMA InsertCharacterKeeps ==
  ASSUME Typing, NEW key \in DOMAIN Bytes, Ui!InsertCharacter(key), UNCHANGED <<history, recalled>>
  PROVE  Typing'
<1>1. /\ input \in Seq(DOMAIN Bytes) /\ cursor \in Ui!Boundaries(input)
      /\ history \in Seq(Seq(DOMAIN Bytes)) /\ Len(history) <= HistoryCap /\ recalled \in 0..Len(history)
  BY DEF Typing
<1>2. CASE Len(input) < MaxInput
  <2>1. /\ input' = Ui!InsertAt(input, Ui!CharactersBefore(input, cursor) + 1, key)
        /\ cursor' = cursor + Bytes[key]
    BY <1>2 DEF Ui!InsertCharacter
  <2>2. input' \in Seq(DOMAIN Bytes) /\ cursor' \in Ui!Boundaries(input')
    BY <1>1, <2>1, InsertKeeps
  <2>3. QED
    BY <1>1, <2>2, TypingThen
<1>3. CASE ~(Len(input) < MaxInput)
  BY <1>3, TypingKept DEF Ui!InsertCharacter
<1>4. QED
  BY <1>2, <1>3

\* A character is deleted.
LEMMA DeleteCharacterKeeps ==
  ASSUME Typing, Ui!DeleteCharacter, UNCHANGED <<history, recalled>>
  PROVE  Typing'
<1>1. /\ input \in Seq(DOMAIN Bytes) /\ cursor \in Ui!Boundaries(input)
      /\ history \in Seq(Seq(DOMAIN Bytes)) /\ Len(history) <= HistoryCap /\ recalled \in 0..Len(history)
  BY DEF Typing
<1>2. CASE cursor > 0
  <2>1. /\ input' = Ui!RemoveAt(input, Ui!CharactersBefore(input, cursor))
        /\ cursor' = Ui!Before(input, cursor)
    BY <1>2 DEF Ui!DeleteCharacter
  <2>2. input' \in Seq(DOMAIN Bytes) /\ cursor' \in Ui!Boundaries(input')
    BY <1>1, <1>2, <2>1, RemoveKeeps
  <2>3. QED
    BY <1>1, <2>2, TypingThen
<1>3. CASE ~(cursor > 0)
  BY <1>3, TypingKept DEF Ui!DeleteCharacter
<1>4. QED
  BY <1>2, <1>3

\* The cursor moves.
LEMMA MoveCursorKeeps ==
  ASSUME Typing, NEW key \in {"Left", "Right", "Home", "End"}, Ui!MoveCursor(key),
         UNCHANGED <<input, history, recalled>>
  PROVE  Typing'
<1>1. /\ input \in Seq(DOMAIN Bytes)
      /\ history \in Seq(Seq(DOMAIN Bytes)) /\ Len(history) <= HistoryCap /\ recalled \in 0..Len(history)
  BY DEF Typing
<1>2. /\ Ui!Before(input, cursor) \in Ui!Boundaries(input) /\ Ui!After(input, cursor) \in Ui!Boundaries(input)
      /\ 0 \in Ui!Boundaries(input) /\ Ui!Length(input) \in Ui!Boundaries(input)
  BY <1>1, BeforeIs, AfterIs, BoundariesAre
<1>3. cursor' \in Ui!Boundaries(input')
  BY <1>2 DEF Ui!MoveCursor
<1>4. QED
  BY <1>1, <1>3, TypingThen

\* A line is recalled with the cursor at its end.
LEMMA RecallKeeps ==
  ASSUME Typing, NEW place \in 0..Len(history), Ui!RecallLine(place), UNCHANGED history
  PROVE  Typing'
<1>1. history \in Seq(Seq(DOMAIN Bytes)) /\ Len(history) <= HistoryCap
  BY DEF Typing
<1>2. /\ recalled' = place /\ cursor' = Ui!Length(input')
      /\ input' = IF place = 0 THEN <<>> ELSE history[place]
  BY DEF Ui!RecallLine
<1>3. input' \in Seq(DOMAIN Bytes)
  <2>1. CASE place = 0
    BY <1>2, <2>1
  <2>2. CASE place # 0
    <3>1. place \in DOMAIN history
      BY <1>1, <2>2
    <3>2. QED
      BY <1>1, <1>2, <2>2, <3>1
  <2>3. QED
    BY <2>1, <2>2
<1>4. cursor' \in Ui!Boundaries(input')
  BY <1>2, <1>3, BoundariesAre
<1>5. QED
  BY <1>1, <1>2, <1>3, <1>4, TypingThen

\* An earlier line is recalled.
LEMMA RecallEarlierKeeps ==
  ASSUME Typing, Ui!RecallEarlier, UNCHANGED history
  PROVE  Typing'
<1>1. history \in Seq(Seq(DOMAIN Bytes)) /\ recalled \in 0..Len(history)
  BY DEF Typing
<1>2. CASE history = <<>>
  BY <1>2, TypingKept DEF Ui!RecallEarlier
<1>3. CASE history # <<>>
  <2> DEFINE place == IF recalled = 0 THEN Len(history) ELSE Ui!Max({recalled - 1, 1})
  <2>1. Ui!RecallLine(place)
    BY <1>3 DEF Ui!RecallEarlier
  <2>2. Len(history) \in Nat \ {0}
    BY <1>1, <1>3
  <2>3. ASSUME recalled # 0 PROVE Ui!Max({recalled - 1, 1}) \in 0..Len(history)
    <3>1. recalled \in Int /\ recalled - 1 \in Int /\ 1 \in Int /\ recalled >= 1 /\ recalled <= Len(history)
      BY <1>1, <2>2, <2>3
    <3>2. Ui!Max({recalled - 1, 1}) = IF recalled - 1 >= 1 THEN recalled - 1 ELSE 1
      BY <3>1, GreaterOfTwo
    <3>3. QED
      BY <2>2, <3>1, <3>2
  <2>4. place \in 0..Len(history)
    BY <2>2, <2>3
  <2> HIDE DEF place
  <2>5. QED
    BY <2>1, <2>4, RecallKeeps
<1>4. QED
  BY <1>2, <1>3

\* A later one is.
LEMMA RecallLaterKeeps ==
  ASSUME Typing, Ui!RecallLater, UNCHANGED history
  PROVE  Typing'
<1>1. history \in Seq(Seq(DOMAIN Bytes)) /\ recalled \in 0..Len(history)
  BY DEF Typing
<1>2. CASE recalled = 0
  BY <1>2, TypingKept DEF Ui!RecallLater
<1>3. CASE recalled # 0
  <2> DEFINE place == IF recalled < Len(history) THEN recalled + 1 ELSE 0
  <2>1. Ui!RecallLine(place)
    BY <1>3 DEF Ui!RecallLater
  <2>2. place \in 0..Len(history)
    BY <1>1
  <2> HIDE DEF place
  <2>3. QED
    BY <2>1, <2>2, RecallKeeps
<1>4. QED
  BY <1>2, <1>3

\* A line that is entered is kept, and leaves an empty one.
LEMMA EnterLineKeeps ==
  ASSUME PanesIInv, Ui!EnterLine, UNCHANGED <<rows, order, latest, columns>>,
         UNCHANGED <<mode, canView, focus, maximized, current, selection>>
  PROVE  PanesIInv'
<1>1. Arrived /\ Screen /\ Typing
  BY DEF PanesIInv
<1>2. Arrived'
  <2>1. CASE input = <<>>
    BY <1>1, <2>1, ArrivedKept DEF Ui!EnterLine
  <2>2. CASE input # <<>>
    <3> DEFINE line == <<<<0, 1>>, <<1, Len(input)>>>>
    <3>1. Ui!PushShell(current, line)
      BY <2>2 DEF Ui!EnterLine
    <3>2. current \in Ui!Nodes /\ line \in Lines
      <4>1. input \in Seq(DOMAIN Bytes) /\ Len(input) \in Nat \ {0}
        BY <1>1, <2>2 DEF Typing
      <4>2. QED
        BY <1>1, <4>1 DEF Screen, Lines
    <3> HIDE DEF line
    <3>3. QED
      BY <1>1, <3>1, <3>2, PushShellKeeps
  <2>3. QED
    BY <2>1, <2>2
<1>3. Screen'
  <2>1. view' = [view EXCEPT !["Shell"].follow = TRUE] /\ "Shell" \in Ui!Panes
    BY DEF Ui!EnterLine, Ui!Panes
  <2>2. view' \in [Ui!Panes -> Views]
    BY <1>1, <2>1, Refollows
  <2>3. QED
    BY <1>1, <2>2 DEF Screen
<1>4. Typing'
  <2>1. input' = <<>> /\ cursor' = 0 /\ recalled' = 0
    BY DEF Ui!EnterLine
  <2>2. <<>> \in Seq(DOMAIN Bytes)
    OBVIOUS
  <2>3. cursor' \in Ui!Boundaries(input')
    BY <2>1, <2>2, BoundariesAre
  <2>4. /\ history \in Seq(Seq(DOMAIN Bytes)) /\ Len(history) <= HistoryCap /\ input \in Seq(DOMAIN Bytes)
        /\ HistoryCap \in Nat \ {0}
    BY <1>1, PanesAssumption DEF Typing
  <2>5. history' = history \/ history' = Ui!Push(history, input, HistoryCap)
    BY DEF Ui!EnterLine, Ui!Push
  <2>6. Ui!Push(history, input, HistoryCap) \in Seq(Seq(DOMAIN Bytes)) /\ Len(Ui!Push(history, input, HistoryCap)) <= HistoryCap
    BY <2>4, PushIs DEF Pushed
  <2>7. history' \in Seq(Seq(DOMAIN Bytes)) /\ Len(history') <= HistoryCap
    BY <2>4, <2>5, <2>6
  <2>8. recalled' \in 0..Len(history')
    BY <2>1, <2>7
  <2>9. QED
    BY <2>1, <2>2, <2>3, <2>7, <2>8, TypingThen
<1>5. QED
  BY <1>2, <1>3, <1>4 DEF PanesIInv

\* The keys of the shell.
LEMMA ShellKeyKeeps ==
  ASSUME PanesIInv, NEW key, Ui!ShellKey(key), UNCHANGED <<rows, order, latest, columns>>,
         UNCHANGED <<mode, canView, maximized, current, selection>>
  PROVE  PanesIInv'
<1>1. Arrived /\ Screen /\ Typing
  BY DEF PanesIInv
<1>2. ASSUME UNCHANGED <<shellOut, focus, view>>, Typing' PROVE PanesIInv'
  BY <1>1, <1>2, ArrivedKept, ScreenKept DEF PanesIInv
<1>3. CASE key = "Esc" /\ focus' = "Log" /\ UNCHANGED <<input, cursor, history, recalled, shellOut, view>>
  <2>1. Screen'
    BY <1>1, <1>3 DEF Screen, Ui!Panes
  <2>2. QED
    BY <1>1, <1>3, <2>1, ArrivedKept, TypingKept DEF PanesIInv
<1>4. CASE Ui!EnterLine /\ UNCHANGED focus
  BY <1>4, EnterLineKeeps
<1>5. CASE /\ key \in DOMAIN Bytes \/ key = "Backspace"
           /\ IF key = "Backspace" THEN Ui!DeleteCharacter ELSE Ui!InsertCharacter(key)
           /\ UNCHANGED <<history, recalled, focus, shellOut, view>>
  <2>1. Typing'
    BY <1>1, <1>5, InsertCharacterKeeps, DeleteCharacterKeeps
  <2>2. QED
    BY <1>2, <1>5, <2>1
<1>6. CASE /\ key \in {"Left", "Right", "Home", "End"} /\ Ui!MoveCursor(key)
           /\ UNCHANGED <<input, history, recalled, focus, shellOut, view>>
  <2>1. Typing'
    BY <1>1, <1>6, MoveCursorKeeps
  <2>2. QED
    BY <1>2, <1>6, <2>1
<1>7. CASE /\ IF key = "Up" THEN Ui!RecallEarlier ELSE Ui!RecallLater
           /\ UNCHANGED <<history, focus, shellOut, view>>
  <2>1. Typing'
    BY <1>1, <1>7, RecallEarlierKeeps, RecallLaterKeeps
  <2>2. QED
    BY <1>2, <1>7, <2>1
<1>8. QED
  BY <1>3, <1>4, <1>5, <1>6, <1>7 DEF Ui!ShellKey, Ui!typing

-----------------------------------------------------------------------------
(* Every step *)

\* Each key does what the pane it goes to does with it.
LEMMA PressKeeps ==
  ASSUME PanesIInv, NEW key, Ui!Press(key)
  PROVE  PanesIInv'
<1>1. Arrived /\ Screen /\ Typing
  BY DEF PanesIInv
<1>2. Ui!HandleKey(key) /\ UNCHANGED selection
  BY DEF Ui!Press
<1>3. ASSUME UNCHANGED <<rows, shellOut, order, latest, columns>>, UNCHANGED <<input, cursor, history, recalled>>,
             Screen'
      PROVE  PanesIInv'
  BY <1>1, <1>3, ArrivedKept, TypingKept DEF PanesIInv
<1>4. CASE Ui!Editing
  <2>1. Ui!EditFilter(key) /\ UNCHANGED <<Ui!arriving, view, canView, focus, maximized, current, Ui!typing>>
    BY <1>2, <1>4 DEF Ui!HandleKey
  <2>2. Screen'
    BY <1>1, <1>2, <1>4, <2>1, EditFilterKeeps
  <2>3. QED
    BY <1>3, <2>1, <2>2 DEF Ui!arriving, Ui!typing
<1>5. CASE ~Ui!Editing /\ key \in Ui!CopyKeys
  <2>1. UNCHANGED Ui!uiVars
    BY <1>2, <1>5 DEF Ui!HandleKey
  <2>2. /\ UNCHANGED <<rows, shellOut, order, latest, columns>> /\ UNCHANGED <<input, cursor, history, recalled>>
        /\ UNCHANGED <<view, mode, canView, focus, maximized, current, selection>>
    BY <2>1 DEF Ui!uiVars, Ui!arriving
  <2>3. QED
    BY <1>1, <1>3, <2>2, ScreenKept
<1>6. CASE ~Ui!Editing /\ key \notin Ui!CopyKeys /\ key \in Ui!GlobalKeys
  <2>1. Ui!GlobalKey(key) /\ UNCHANGED <<Ui!arriving, mode, canView, focus, Ui!typing>>
    BY <1>2, <1>6 DEF Ui!HandleKey
  <2>2. Screen'
    BY <1>1, <1>2, <2>1, GlobalKeyKeeps
  <2>3. QED
    BY <1>3, <2>1, <2>2 DEF Ui!arriving, Ui!typing
<1>7. CASE ~Ui!Editing /\ key \notin Ui!CopyKeys /\ key \notin Ui!GlobalKeys /\ focus \in Ui!Feeds /\ key \in Ui!FeedKeys
  <2>1. Ui!FeedKey(key) /\ UNCHANGED <<Ui!arriving, focus, maximized, current, Ui!typing>>
    BY <1>2, <1>7 DEF Ui!HandleKey
  <2>2. Screen'
    BY <1>1, <1>2, <1>7, <2>1, FeedKeyKeeps
  <2>3. QED
    BY <1>3, <2>1, <2>2 DEF Ui!arriving, Ui!typing
<1> DEFINE Other == /\ ~Ui!Editing /\ key \notin Ui!CopyKeys /\ key \notin Ui!GlobalKeys
                    /\ ~(focus \in Ui!Feeds /\ key \in Ui!FeedKeys)
<1>8. CASE Other /\ key = "Tab"
  <2>1. /\ focus' = Ui!NextPane[focus]
        /\ UNCHANGED <<Ui!arriving, view, mode, canView, maximized, current, Ui!typing>>
    BY <1>2, <1>8 DEF Ui!HandleKey
  <2>2. Ui!NextPane[focus] \in Ui!Panes
    BY <1>1 DEF Screen, Ui!NextPane, Ui!Panes, Ui!Feeds
  <2>3. Screen'
    BY <1>1, <1>2, <2>1, <2>2 DEF Screen
  <2>4. QED
    BY <1>3, <2>1, <2>3 DEF Ui!arriving, Ui!typing
<1>9. CASE Other /\ key # "Tab" /\ focus = "Log"
  <2>1. Ui!ScrollLog(key) /\ UNCHANGED <<Ui!arriving, mode, canView, focus, maximized, current, Ui!typing>>
    BY <1>2, <1>9 DEF Ui!HandleKey, Ui!Feeds
  <2>2. Screen'
    BY <1>1, <1>2, <2>1, ScrollLogKeeps
  <2>3. QED
    BY <1>3, <2>1, <2>2 DEF Ui!arriving, Ui!typing
<1>10. CASE Other /\ key # "Tab" /\ focus \in Ui!Feeds
  <2>1. Ui!ScrollFeed(focus, key) /\ UNCHANGED <<Ui!arriving, canView, focus, maximized, current, Ui!typing>>
    BY <1>2, <1>10 DEF Ui!HandleKey, Ui!Feeds
  <2>2. Screen'
    BY <1>1, <1>2, <1>10, <2>1, ScrollFeedKeeps
  <2>3. QED
    BY <1>3, <2>1, <2>2 DEF Ui!arriving, Ui!typing
<1>11. CASE Other /\ key # "Tab" /\ focus = "Shell"
  <2>1. Ui!ShellKey(key) /\ UNCHANGED <<rows, up, order, latest, columns, mode, canView, maximized, current, quit>>
    BY <1>2, <1>11 DEF Ui!HandleKey, Ui!Feeds
  <2>2. QED
    BY <1>2, <2>1, ShellKeyKeeps
<1>12. focus \in {"Log", "Shell"} \cup Ui!Feeds
  BY <1>1 DEF Screen, Ui!Panes, Ui!Feeds
<1>13. QED
  BY <1>4, <1>5, <1>6, <1>7, <1>8, <1>9, <1>10, <1>11, <1>12

\* A supervisor takes the lines entered.
LEMMA TakeInputKeeps ==
  ASSUME PanesIInv, NEW n, Ui!TakeInput(n)
  PROVE  PanesIInv'
<1>1. /\ UNCHANGED <<rows, shellOut, order, latest, columns>> /\ UNCHANGED <<input, cursor, history, recalled>>
      /\ UNCHANGED <<view, mode, canView, focus, maximized, current, selection>>
  BY DEF Ui!TakeInput, Ui!arriving
<1>2. QED
  BY <1>1, ArrivedKept, ScreenKept, TypingKept DEF PanesIInv

\* Every step of the panes.
LEMMA PanesKeep ==
  ASSUME PanesIInv, PanesNext
  PROVE  PanesIInv'
<1>1. PICK u \in DOMAIN Uses : Ui!Press("Tab") \/ Ui!UiNext(Uses[u])
  BY DEF PanesNext
<1>2. CASE Ui!Press("Tab")
  BY <1>2, PressKeeps
<1>3. CASE Ui!UiNext(Uses[u])
  <2>1. CASE Ui!Receive(Uses[u].sent)
    BY <2>1, ReceiveKeeps
  <2>2. CASE \E n \in Ui!Nodes : Ui!TakeInput(n)
    BY <2>2, TakeInputKeeps
  <2>3. CASE \E key \in Uses[u].keys : Ui!Press(key)
    BY <2>3, PressKeeps
  <2>4. CASE \E click \in Uses[u].clicks : Ui!MouseDown(click[1], click[2])
    <3>1. PICK click \in Uses[u].clicks : Ui!MouseDown(click[1], click[2])
      BY <2>4
    <3>2. click[2] \in Int
      BY PanesAssumption
    <3>3. QED
      BY <3>1, <3>2, MouseDownKeeps
  <2>5. CASE \E row \in Uses[u].drags : Ui!MouseDrag(row)
    <3>1. PICK row \in Uses[u].drags : Ui!MouseDrag(row)
      BY <2>5
    <3>2. row \in Int
      BY PanesAssumption
    <3>3. QED
      BY <3>1, <3>2, MouseDragKeeps
  <2>6. CASE Ui!MouseUp
    BY <2>6, MouseUpKeeps
  <2>7. QED
    BY <1>3, <2>1, <2>2, <2>3, <2>4, <2>5, <2>6 DEF Ui!UiNext
<1>4. QED
  BY <1>1, <1>2, <1>3

\* The panes start empty, and follow.
LEMMA PanesStart ==
  ASSUME Init
  PROVE  PanesIInv
<1>1. Ui!PanesInit /\ input = <<>> /\ cursor = 0 /\ history = <<>> /\ recalled = 0 /\ selection = <<>>
  BY DEF Init, Ui!UiInit
<1>2. /\ NodeOrder \in Seq(STRING) /\ NodeOrder # <<>> /\ ColumnCap \in [Ui!Feeds -> Seq(Nat)]
      /\ LogCap \in Nat /\ FeedCap \in Nat /\ HistoryCap \in Nat
  BY PanesAssumption
<1>3. Arrived
  <2>1. /\ rows = [p \in Ui!Panes \ {"Shell"} |-> <<>>] /\ shellOut = [n \in Ui!Nodes |-> <<>>]
        /\ order = [f \in Ui!Feeds |-> <<>>] /\ latest = [f \in Ui!Feeds |-> <<>>]
        /\ columns = [f \in Ui!Feeds |-> [i \in DOMAIN ColumnCap[f] |-> 0]]
    BY <1>1 DEF Ui!PanesInit
  <2>2. ASSUME NEW f \in Ui!Feeds PROVE FeedIs(f, rows[f], order[f], latest[f], columns[f])
    <3>1. rows[f] = <<>> /\ order[f] = <<>> /\ latest[f] = <<>> /\ columns[f] = [i \in DOMAIN ColumnCap[f] |-> 0]
      BY <2>1 DEF Ui!Panes, Ui!Feeds
    <3>2. DOMAIN <<>> = {} /\ Len(<<>>) = 0 /\ <<>> \in Seq(FeedRows(f)) /\ <<>> \in Seq(Keys(f))
      OBVIOUS
    <3>3. Ui!Range(<<>>) = {}
      BY <3>2 DEF Ui!Range
    <3>4. <<>> \in [{} -> FeedRows(f)]
      OBVIOUS
    <3>5. IsFiniteSet({}) /\ Cardinality({}) = 0
      BY FS_EmptySet
    <3>6. columns[f] \in Seq(Int) /\ Len(columns[f]) = Len(ColumnCap[f])
      <4>1. ColumnCap[f] \in Seq(Nat) /\ DOMAIN ColumnCap[f] = 1..Len(ColumnCap[f]) /\ Len(ColumnCap[f]) \in Nat
        BY <1>2
      <4>2. QED
        BY <3>1, <4>1
    <3>7. Marked(f, <<>>) /\ LastOf(<<>>, <<>>)
      BY <3>2 DEF Marked, LastOf
    <3>8. 0 <= FeedCap
      BY <1>2
    <3>9. QED
      BY <3>1, <3>2, <3>3, <3>4, <3>5, <3>6, <3>7, <3>8 DEF FeedIs
  <2>3. rows["Log"] \in Seq(Lines) /\ Len(rows["Log"]) <= LogCap
    <3>1. rows["Log"] = <<>>
      BY <2>1 DEF Ui!Panes, Ui!Feeds
    <3>2. QED
      BY <1>2, <3>1
  <2>4. shellOut \in [Ui!Nodes -> Seq(Lines)]
    BY <2>1
  <2>5. /\ rows = [p \in Ui!Panes \ {"Shell"} |-> rows[p]]
        /\ order = [f \in Ui!Feeds |-> order[f]]
        /\ latest = [f \in Ui!Feeds |-> latest[f]]
        /\ columns = [f \in Ui!Feeds |-> columns[f]]
    BY <2>1
  <2>6. QED
    BY <2>2, <2>3, <2>4, <2>5 DEF Arrived
<1>4. Screen
  <2>1. /\ view = [p \in Ui!Panes |-> Ui!Following] /\ canView = "both" /\ focus = "Shell" /\ maximized = FALSE
        /\ current = NodeOrder[1]
        /\ mode = [f \in Ui!Feeds |-> [paused |-> FALSE, observer |-> FALSE, filter |-> <<>>, editing |-> FALSE]]
    BY <1>1 DEF Ui!PanesInit
  <2>2. view \in [Ui!Panes -> Views]
    BY <2>1 DEF Views, Ui!Following
  <2>3. mode \in [Ui!Feeds -> Modes] /\ ~mode["Bus"].editing
    <3>1. <<>> \in Seq(DOMAIN Bytes)
      OBVIOUS
    <3>2. [paused |-> FALSE, observer |-> FALSE, filter |-> <<>>, editing |-> FALSE] \in Modes
      BY <3>1 DEF Modes
    <3>3. mode \in [Ui!Feeds -> Modes]
      BY <2>1, <3>2
    <3>4. QED
      BY <2>1, <3>3 DEF Ui!Feeds
  <2>4. current \in Ui!Nodes
    BY <1>2, <2>1 DEF Ui!Nodes, Ui!Range
  <2>5. canView \in Ui!CanViews /\ focus \in Ui!Panes /\ maximized \in BOOLEAN
    BY <2>1 DEF Ui!CanViews, Ui!Panes
  <2>6. selection \in Seq(Selected)
    BY <1>1
  <2>7. QED
    BY <2>2, <2>3, <2>4, <2>5, <2>6 DEF Screen
<1>5. Typing
  <2>1. <<>> \in Seq(DOMAIN Bytes) /\ <<>> \in Seq(Seq(DOMAIN Bytes)) /\ Len(<<>>) = 0
    OBVIOUS
  <2>2. cursor \in Ui!Boundaries(input)
    BY <1>1, <2>1, BoundariesAre
  <2>3. QED
    BY <1>1, <1>2, <2>1, <2>2 DEF Typing
<1>6. QED
  BY <1>3, <1>4, <1>5 DEF PanesIInv

\* Every step, of the other parts too, which leave the panes alone.
LEMMA PanesStep ==
  ASSUME PanesIInv, [Next]_allVars
  PROVE  PanesIInv'
<1>1. ASSUME UNCHANGED panesOnly PROVE PanesIInv'
  <2>1. /\ UNCHANGED <<rows, shellOut, order, latest, columns>> /\ UNCHANGED <<input, cursor, history, recalled>>
        /\ UNCHANGED <<view, mode, canView, focus, maximized, current, selection>>
    BY <1>1 DEF panesOnly
  <2>2. QED
    BY <2>1, ArrivedKept, ScreenKept, TypingKept DEF PanesIInv
<1>2. CASE Panes
  BY <1>2, PanesKeep DEF Panes
<1>3. CASE UNCHANGED allVars
  BY <1>1, <1>3 DEF allVars, attachOnly
<1>4. CASE LocalPart(Local!LocalNext) \/ DevicePart(Device!DeviceNext)
  BY <1>1, <1>4 DEF LocalPart, DevicePart
<1>5. CASE GatewayPart(Gateway!GatewayNext)
  BY <1>1, <1>5 DEF GatewayPart, attachOnly
<1>6. CASE DrivePart("planner", Planner!DriveNext) \/ DrivePart("switch", Switch!DriveNext)
  BY <1>1, <1>6 DEF DrivePart, attachOnly
<1>7. CASE FusionPart("rotation", Mini!FusionNext) \/ FusionPart("undirected", Undirected!FusionNext)
  BY <1>1, <1>7 DEF FusionPart, attachOnly
<1>8. QED
  BY <1>2, <1>3, <1>4, <1>5, <1>6, <1>7 DEF Next

\* What a selection copies is what it highlights, of the lines down to the first
\* one that takes other rows than are counted; a pane that follows shows its
\* newest line, but for the rows drawn beyond their estimate; a line that fits
\* takes a row; rows mark the values that changed, the observer shows the latest
\* row of each key, keys scroll from what is on the screen, and the places kept
\* in texts and lists exist: whatever arrives, whatever the user presses, clicks
\* and drags, and however large buffers, panes and texts are (run_ui.rs, in
\* `./ovcs attach`).
THEOREM PanesStayTrue == Spec => []PanesAreTrue
<1>1. Init => PanesIInv
  BY PanesStart
<1>2. PanesIInv /\ [Next]_allVars => PanesIInv'
  BY PanesStep
<1>3. PanesIInv => PanesAreTrue
  BY PanesAreTrueThen
<1>4. QED
  BY <1>1, <1>2, <1>3, PTL DEF Spec

=============================================================================
