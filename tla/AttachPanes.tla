----------------------------- MODULE AttachPanes -----------------------------
(***************************************************************************)
(* The four panes of `./ovcs attach` (run_ui.rs): what arrives from the    *)
(* nodes is kept in bounded buffers, and a pane draws the lines that fit   *)
(* it, wrapped, from its scroll position or from the newest up.            *)
(*                                                                         *)
(* A line is its words, each <<blanks before it, letters>>; a text is a    *)
(* name that TextOf gives a line.  A row of the Bus pane is                *)
(* [key, body, rate, changed], its key <<source, name>> and its body the   *)
(* value; one of the CAN pane has the key <<node, network, frame>> and the *)
(* body [signals, raw], its signals <<name, value>>, of different names.   *)
(*                                                                         *)
(* The program works out where a pane starts, and which lines are          *)
(* selected, as if a line wrapped at the width of its pane (Taken); what   *)
(* is drawn wraps at words (WrappedRows).                                  *)
(***************************************************************************)
EXTENDS Integers, Sequences, SequencesExt, FiniteSetsExt

CONSTANTS
  NodeOrder,    \* the nodes, as the tabs show them
  TextOf,       \* the line of each text, which begins with a letter
  LogCap, ShellCap, FeedCap,   \* lines and rows kept
  ColumnCap,    \* per feed, the widest each column of its rows gets
  NormalRect,   \* the rectangle of each pane, as [top, height, width], borders included
  MaximizedRect \* that of a maximized pane

Nodes == Range(NodeOrder)
Feeds == {"Bus", "Can"}
Panes == Feeds \cup {"Log", "Shell"}
CanViews == {"both", "decoded", "raw"}
RateWidth == 9

VARIABLES
  rows,      \* what the Log, Bus and Can panes keep, oldest first
  shellOut,  \* what each node's shell keeps
  up,        \* whether a node is shown as connected
  order,     \* per feed, the keys in the order they were first seen
  latest,    \* per feed, the latest row of each of them
  columns,   \* per feed, the width of each column of its rows
  view,      \* per pane, [scroll, follow]
  mode,      \* per feed, [paused, observer, filter, editing]
  canView,   \* the half of a CAN row that is shown
  focus, maximized, current

arriving == <<rows, shellOut, up, order, latest, columns>>

Following == [scroll |-> 0, follow |-> TRUE]

PanesInit ==
  /\ rows = [p \in Panes \ {"Shell"} |-> <<>>]
  /\ shellOut = [n \in Nodes |-> <<>>] /\ up = [n \in Nodes |-> FALSE]
  /\ order = [f \in Feeds |-> <<>>] /\ latest = [f \in Feeds |-> <<>>]
  /\ columns = [f \in Feeds |-> [i \in DOMAIN ColumnCap[f] |-> 0]]
  /\ view = [p \in Panes |-> Following]
  /\ mode = [f \in Feeds |->
              [paused |-> FALSE, observer |-> FALSE, filter |-> <<>>, editing |-> FALSE]]
  /\ canView = "both"
  /\ focus = "Shell" /\ maximized = FALSE /\ current = NodeOrder[1]

-----------------------------------------------------------------------------
(* Lines                                                                   *)

\* The sum of the first n numbers.
Sums(numbers) ==
  LET sums[n \in 0..Len(numbers)] == IF n = 0 THEN 0 ELSE sums[n - 1] + numbers[n]
  IN sums

Sum(numbers) == Sums(numbers)[Len(numbers)]

Width(line) == Sum([i \in DOMAIN line |-> line[i][1] + line[i][2]])

\* A line after blanks, and one after a word that goes on in its first.
Indented(blanks, line) == [line EXCEPT ![1][1] = @ + blanks]
Labelled(letters, line) == IF line = <<>> THEN <<<<0, letters>>>> ELSE [line EXCEPT ![1][2] = @ + letters]

-----------------------------------------------------------------------------
(* What arrives                                                            *)

Push(buffer, line, cap) == Append(IF Len(buffer) = cap THEN Tail(buffer) ELSE buffer, line)

PushLog(line) == rows' = [rows EXCEPT !["Log"] = Push(@, line, LogCap)]

PushShell(node, line) == shellOut' = [shellOut EXCEPT ![node] = Push(@, line, ShellCap)]

\* The names of the signals whose value differs from the one before; a new one
\* counts, one that is gone does not.
DiffPairs(previous, signals) == {s[1] : s \in Range(signals) \ Range(previous)}

Changed(feed, previous, body) ==
  IF feed = "Bus" THEN (IF previous # body THEN {"value"} ELSE {})
  ELSE DiffPairs(previous.signals, body.signals)

\* Nothing arrives in a paused feed.  The rate of a key, here the letters it
\* is written in, 0 for one too low to be, is known from its second row.
PushFeed(feed, key, body, rate) ==
  IF mode[feed].paused THEN UNCHANGED <<rows, order, latest, columns>>
  ELSE
    LET seen == key \in DOMAIN latest[feed]
        row == [key |-> key, body |-> body, rate |-> IF seen THEN rate ELSE 0,
                changed |-> IF seen THEN Changed(feed, latest[feed][key].body, body) ELSE {}]
    IN /\ rows' = [rows EXCEPT ![feed] = Push(@, row, FeedCap)]
       /\ order' = IF seen THEN order ELSE [order EXCEPT ![feed] = Append(@, key)]
       /\ latest' = [latest EXCEPT ![feed] =
            [k \in DOMAIN @ \cup {key} |-> IF k = key THEN row ELSE @[k]]]
       /\ columns' = [columns EXCEPT ![feed] =
            [i \in DOMAIN @ |-> Max({@[i], Min({Width(TextOf[key[i]]), ColumnCap[feed][i]})})]]

-----------------------------------------------------------------------------
(* The rows of a feed that are shown                                       *)

\* The text a filter searches.
Haystack(feed, row) ==
  LET body == IF feed = "Bus" THEN <<row.body>>
              ELSE FlattenSeq(row.body.signals) \o <<"tab", row.body.raw>>
  IN FoldLeft(LAMBDA text, part : text \o <<part, "tab">>, <<>>, row.key) \o body

HasText(haystack, filter) ==
  \E i \in 0..(Len(haystack) - Len(filter)) : SubSeq(haystack, i + 1, i + Len(filter)) = filter

Matches(feed, row) == mode[feed].filter = <<>> \/ HasText(Haystack(feed, row), mode[feed].filter)

\* The feed as it came, or the latest row of each key.
All(feed) ==
  IF mode[feed].observer THEN [i \in DOMAIN order[feed] |-> latest[feed][order[feed][i]]]
  ELSE rows[feed]

\* Those that match the filter, of the first n.
Kept(feed) ==
  LET all == All(feed)
      kept[n \in 0..Len(all)] ==
        IF n = 0 THEN <<>>
        ELSE IF Matches(feed, all[n]) THEN Append(kept[n - 1], all[n]) ELSE kept[n - 1]
  IN kept

Candidates(feed) == Kept(feed)[Len(All(feed))]

-----------------------------------------------------------------------------
(* Their lines, and the length these are taken to have                     *)

ColumnWidth(feed, i) == Max({columns[feed][i], 1})

\* The columns of a key, and how many of the last are left blank.
KeyLine(feed, key) ==
  LET letters == [i \in DOMAIN key |-> Min({Width(TextOf[key[i]]), ColumnWidth(feed, i)})]
      left == [i \in DOMAIN key |-> ColumnWidth(feed, i) - letters[i]]
  IN [line |-> [i \in DOMAIN key |-> <<IF i = 1 THEN 0 ELSE left[i - 1] + 2, letters[i]>>],
      left |-> left[Len(key)]]

\* `a=1 b=2`
SignalsLine(signals) ==
  LET line[n \in 0..Len(signals)] ==
        IF n = 0 THEN <<>>
        ELSE line[n - 1] \o Indented(IF n = 1 THEN 0 ELSE 1,
               Labelled(Width(TextOf[signals[n][1]]) + 1, TextOf[signals[n][2]]))
  IN line[Len(signals)]

\* The words of `(no decode) `, and the one of `  | `.
NoDecode == <<<<0, 3>>, <<1, 7>>>>
Bar == <<<<2, 1>>>>

BodyLine(feed, body) ==
  IF feed = "Bus" THEN TextOf[body]
  ELSE LET signals == SignalsLine(body.signals)
           raw == Labelled(4, TextOf[body.raw])
       IN CASE canView = "raw" -> raw
            [] canView = "decoded" ->
                 IF body.signals = <<>> THEN NoDecode \o Indented(1, raw) ELSE signals
            [] canView = "both" ->
                 IF body.signals = <<>> THEN raw ELSE signals \o Bar \o Indented(1, raw)

\* The columns, the rate at the right of its own, and the body.
RowLine(feed, row) ==
  LET key == KeyLine(feed, row.key)
      body == BodyLine(feed, row.body)
  IN key.line \o
       (IF row.rate = 0 THEN Indented(key.left + 2 + RateWidth + 2, body)
        ELSE <<<<key.left + 2 + Max({RateWidth - row.rate, 0}), row.rate>>>> \o Indented(2, body))

LinesOf(p) ==
  CASE p = "Log" -> rows["Log"]
    [] p = "Shell" -> shellOut[current]
    [] OTHER -> LET shown == Candidates(p) IN [i \in DOMAIN shown |-> RowLine(p, shown[i])]

Prefix(feed) == Sum([i \in DOMAIN columns[feed] |-> ColumnWidth(feed, i) + 2]) + RateWidth + 2

SignalsLength(signals) ==
  Sum([i \in DOMAIN signals |-> Width(TextOf[signals[i][1]]) + Width(TextOf[signals[i][2]]) + 2])
    - (IF signals = <<>> THEN 0 ELSE 1)

\* Of the body of a row, what its place is worked out with.
EstimatedCan(signals, raw) ==
  CASE canView = "both" -> IF signals > 0 /\ raw > 0 THEN signals + raw + 7 ELSE Max({signals, raw + 4})
    [] canView = "decoded" -> Max({signals, raw + 16})
    [] canView = "raw" -> raw + 4

EstimatedBody(feed, body) ==
  IF feed = "Bus" THEN Width(TextOf[body])
  ELSE EstimatedCan(SignalsLength(body.signals), Width(TextOf[body.raw]))

Estimated(p) ==
  IF p \in Feeds
    THEN LET shown == Candidates(p)
         IN  [i \in DOMAIN shown |-> Prefix(p) + EstimatedBody(p, shown[i].body)]
    ELSE [i \in DOMAIN LinesOf(p) |-> Width(LinesOf(p)[i])]

-----------------------------------------------------------------------------
(* Where a pane starts                                                     *)

\* The panes on the screen.
PaneRects == IF maximized THEN [p \in {focus} |-> MaximizedRect] ELSE NormalRect

InnerHeight(p) == PaneRects[p].height - 2
InnerWidth(p) == PaneRects[p].width - 2

\* The rows that lines of these lengths take, each wrapped at the width.
Taken(length, width) == Max({1, (length + width - 1) \div width})
TakenRows(lengths, width) == [i \in DOMAIN lengths |-> Taken(lengths[i], width)]

\* How many lines are above the newest ones that fit.
VisibleStart(lengths, height, width) ==
  LET n == Len(lengths)
  IN IF height = 0 \/ width = 0 THEN n
     ELSE LET taken == Sums(TakenRows(lengths, width))
          IN  Min({s \in 0..n : taken[n] - taken[s] <= height})

PaneBottomStart(p, height, width) == VisibleStart(Estimated(p), height, width)

DrawnBottomStart(p) ==
  IF p \in DOMAIN PaneRects THEN PaneBottomStart(p, InnerHeight(p), InnerWidth(p)) ELSE 0

DisplayStart(v, bottom) == IF v.follow THEN bottom ELSE Min({v.scroll, bottom})

\* Where a pane of this height starts.
Start(p, height) == DisplayStart(view[p], PaneBottomStart(p, height, InnerWidth(p)))

-----------------------------------------------------------------------------
(* Wrapping at words                                                       *)

\* The rows taken once a word is there, and the columns used of the last.
\* What fits goes on in the row.  Else the word starts a row, less the blanks
\* that end the one before and the one that breaks it; a word or blanks
\* longer than a row are cut at the width.
WithWord(at, word, width) ==
  LET used == at.used + word[1] + word[2]
      lead == IF at.used = 0 THEN word[1] ELSE Max({word[1] - (width - at.used) - 1, 0})
      start == at.rows + (IF at.used = 0 THEN 0 ELSE 1) + lead \div (width + 1)
      end == (lead % (width + 1)) + word[2]
  IN IF used <= width THEN [rows |-> at.rows, used |-> used]
     ELSE [rows |-> start + (end - 1) \div width, used |-> ((end - 1) % width) + 1]

WrappedRows(line, width) ==
  LET wrapped[n \in 0..Len(line)] ==
        IF n = 0 THEN [rows |-> 1, used |-> 0] ELSE WithWord(wrapped[n - 1], line[n], width)
  IN wrapped[Len(line)].rows

-----------------------------------------------------------------------------
(* What a pane draws, and what a selection of its rows copies              *)

\* The last inner row of the Shell pane is the input's.
OutputHeight(p) == IF p = "Shell" THEN InnerHeight(p) - 1 ELSE InnerHeight(p)

\* The rows each line takes as it is drawn.
DrawnRows(p) == LET lines == LinesOf(p) IN [i \in DOMAIN lines |-> WrappedRows(lines[i], InnerWidth(p))]

\* The line on each row of a pane of this height, of lines that take so many
\* from the one after start.
Rows(taken, start, height) ==
  LET n == Len(taken)
      sums == Sums(taken)
  IN [row \in 1..Min({sums[n] - sums[start], height}) |->
        Min({i \in start..n : sums[i] - sums[start] >= row})]

Drawn(p) == Rows(DrawnRows(p), Start(p, OutputHeight(p)), OutputHeight(p))

\* The rows of the screen a selection covers in its pane.
Covered(p, low, high) ==
  LET rect == PaneRects[p]
  IN Max({low, rect.top + 1})..Min({high, rect.top + rect.height - 2})

\* The lines a selection of rows highlights, of those drawn from the top.
Highlighted(drawn, top, covered) == {drawn[row] : row \in {r \in DOMAIN drawn : r + top \in covered}}

\* The lines it copies, found by adding up the rows from the first one shown.
LinesOn(taken, start, first, covered) ==
  LET sums == Sums(taken)
  IN {i \in (start + 1)..Len(taken) :
        (first + sums[i - 1] - sums[start])..(first + sums[i] - sums[start] - 1) \cap covered # {}}

\* A selection counts them from where the pane starts, each wrapped at the width.
VisibleLines(p) ==
  LET lines == LinesOf(p)
  IN [start |-> Start(p, InnerHeight(p)),
      taken |-> TakenRows([i \in DOMAIN lines |-> Width(lines[i])], InnerWidth(p))]

SelectionLines(p, visible, covered) ==
  IF PaneRects[p].height < 3 THEN {}
  ELSE LinesOn(visible.taken, visible.start, PaneRects[p].top + 1, covered)

=============================================================================
