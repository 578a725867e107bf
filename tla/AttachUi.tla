------------------------------- MODULE AttachUi -------------------------------
(***************************************************************************)
(* The keys and the mouse of `./ovcs attach` (run_ui.rs).  One thread      *)
(* takes in what the nodes sent, draws, and handles at most one event, so  *)
(* an event finds the panes as they were last drawn.                       *)
(*                                                                         *)
(* The input and a filter are sequences of characters; the cursor is a     *)
(* position in the bytes of the input.  Writing to the clipboard and to    *)
(* the file beside it, and the message that says so, are left out.         *)
(***************************************************************************)
EXTENDS AttachPanes

CONSTANTS
  HistoryCap,  \* lines kept to recall
  PageRows,    \* rows a page key moves by
  Bytes,       \* per key that types a character, with control or without, its bytes
  MaxInput     \* bound: characters in the input and in a filter

VARIABLES
  input, cursor,
  history,     \* the lines entered, oldest first
  recalled,    \* the place in it of the line recalled, 0 for none
  stdin,       \* per node, the lines entered and not yet taken by its supervisor
  selection,   \* the rows being selected: <<>>, or <<[pane, anchor, end]>>
  quit

uiVars == <<arriving, view, mode, canView, focus, maximized, current,
            input, cursor, history, recalled, stdin, selection, quit>>
typing == <<input, cursor, history, recalled, stdin>>

UiInit ==
  /\ PanesInit
  /\ input = <<>> /\ cursor = 0 /\ history = <<>> /\ recalled = 0
  /\ stdin = [n \in Nodes |-> <<>>]
  /\ selection = <<>> /\ quit = FALSE

-----------------------------------------------------------------------------
(* What the nodes send                                                     *)

\* What is sent is these lines, of these nodes, and per feed rows of these
\* [key, body, rate].
Connection(n, connected, sent) ==
  /\ up' = [up EXCEPT ![n] = connected]
  /\ \E line \in sent.log : PushLog(line)
  /\ UNCHANGED <<shellOut, order, latest, columns>>

Receive(sent) ==
  /\ \/ \E line \in sent.log :
          PushLog(line) /\ UNCHANGED <<shellOut, up, order, latest, columns>>
     \/ \E n \in sent.nodes, line \in sent.shell :
          PushShell(n, line) /\ UNCHANGED <<rows, up, order, latest, columns>>
     \/ \E f \in Feeds : \E row \in sent[f] :
          PushFeed(f, row.key, row.body, row.rate) /\ UNCHANGED <<shellOut, up>>
     \/ \E n \in sent.nodes, connected \in BOOLEAN : Connection(n, connected, sent)
  /\ UNCHANGED <<view, mode, canView, focus, maximized, current, typing, selection, quit>>

TakeInput(n) ==
  /\ stdin[n] # <<>> /\ stdin' = [stdin EXCEPT ![n] = <<>>]
  /\ UNCHANGED <<arriving, view, mode, canView, focus, maximized, current,
                 input, cursor, history, recalled, selection, quit>>

-----------------------------------------------------------------------------
(* The mouse                                                               *)

MouseDown(p, row) ==
  /\ p \in DOMAIN PaneRects
  /\ row - PaneRects[p].top \in 0..(PaneRects[p].height - 1)
  /\ focus' = p
  /\ selection' = <<[pane |-> p, anchor |-> row, end |-> row]>>
  /\ UNCHANGED <<arriving, view, mode, canView, maximized, current, typing, quit>>

\* Kept to the inner rows of the pane.
MouseDrag(row) ==
  /\ selection # <<>> /\ selection[1].pane \in DOMAIN PaneRects
  /\ LET rect == PaneRects[selection[1].pane]
         lowest == rect.top + rect.height - 2
     IN selection' = [selection EXCEPT ![1].end =
          IF row < rect.top + 1 THEN rect.top + 1 ELSE IF row > lowest THEN lowest ELSE row]
  /\ UNCHANGED <<arriving, view, mode, canView, focus, maximized, current, typing, quit>>

MouseUp ==
  /\ selection # <<>> /\ selection' = <<>>
  /\ UNCHANGED <<arriving, view, mode, canView, focus, maximized, current, typing, quit>>

-----------------------------------------------------------------------------
(* Filters                                                                 *)

Editing == \E f \in Feeds : mode[f].editing
EditedFeed == IF mode["Can"].editing THEN "Can" ELSE "Bus"

EditFilter(key) ==
  LET feed == mode[EditedFeed]
      edited ==
        CASE key = "Esc" -> [feed EXCEPT !.filter = <<>>, !.editing = FALSE]
          [] key \in {"Enter", "AltEnter"} -> [feed EXCEPT !.editing = FALSE]
          [] key = "Backspace" ->
               [feed EXCEPT !.filter = IF @ = <<>> THEN @ ELSE Front(@)]
          [] key \in DOMAIN Bytes /\ Len(feed.filter) < MaxInput ->
               [feed EXCEPT !.filter = Append(@, key)]
          [] OTHER -> feed
  IN IF key = "CtrlC" THEN quit' = TRUE /\ UNCHANGED mode
     ELSE mode' = [mode EXCEPT ![EditedFeed] = edited] /\ UNCHANGED quit

\* `o` and `/`, and `i` of the CAN pane.
FeedKeys == IF focus = "Can" THEN {"i", "o", "/"} ELSE {"o", "/"}

FeedKey(key) ==
  CASE key = "o" -> /\ mode' = [mode EXCEPT ![focus].observer = ~@]
                    /\ view' = [view EXCEPT ![focus] = Following]
                    /\ UNCHANGED canView
    [] key = "/" -> /\ mode' = [mode EXCEPT ![focus].editing = TRUE, ![focus].filter = <<>>]
                    /\ UNCHANGED <<view, canView>>
    [] key = "i" -> /\ canView' = CASE canView = "both" -> "decoded"
                                    [] canView = "decoded" -> "raw"
                                    [] canView = "raw" -> "both"
                    /\ UNCHANGED <<view, mode>>

-----------------------------------------------------------------------------
(* Scrolling                                                               *)

UpKeys == {"Up", "k"}
DownKeys == {"Down", "j"}
TopKeys == {"Home", "g"}
ScrollKeys == UpKeys \cup DownKeys \cup TopKeys \cup {"PageUp", "PageDown"}

\* The row a key moves to, from the first one shown.
Target(key, start) ==
  CASE key \in UpKeys -> Max({start - 1, 0})
    [] key = "PageUp" -> Max({start - PageRows, 0})
    [] key \in DownKeys -> start + 1
    [] key = "PageDown" -> start + PageRows
    [] key \in TopKeys -> 0

\* Down to the newest rows, the view follows them again.
ScrollView(key, bottom, v) ==
  IF key \notin ScrollKeys THEN v
  ELSE LET target == Target(key, DisplayStart(v, bottom))
       IN [scroll |-> Min({target, bottom}),
           follow |-> key \in DownKeys \cup {"PageDown"} /\ target >= bottom]

\* As PausedView, were the scroll of a view that followed not set.
PausedViewUnscrolled(feed) == [view[feed] EXCEPT !.follow = mode[feed].paused]

\* The view a pause leaves: frozen at the rows shown, or following again.
PausedView(feed) ==
  IF mode[feed].paused THEN [view[feed] EXCEPT !.follow = TRUE]
  ELSE [scroll |-> DisplayStart(view[feed], DrawnBottomStart(feed)), follow |-> FALSE]

ScrollFeed(feed, key) ==
  CASE key \in {"q", "Esc"} -> quit' = TRUE /\ UNCHANGED <<view, mode>>
    [] key \in {"space", "p"} ->
         /\ mode' = [mode EXCEPT ![feed].paused = ~@]
         /\ view' = [view EXCEPT ![feed] = PausedView(feed)]
         /\ UNCHANGED quit
    [] key \in {"End", "G"} ->
         /\ mode' = [mode EXCEPT ![feed].paused = FALSE]
         /\ view' = [view EXCEPT ![feed].follow = TRUE]
         /\ UNCHANGED quit
    [] OTHER ->
         /\ view' = [view EXCEPT ![feed] = ScrollView(key, DrawnBottomStart(feed), @)]
         /\ UNCHANGED <<mode, quit>>

ScrollLog(key) ==
  CASE key \in {"q", "Esc"} -> quit' = TRUE /\ UNCHANGED view
    [] key \in {"End", "G"} -> view' = [view EXCEPT !["Log"].follow = TRUE] /\ UNCHANGED quit
    [] OTHER -> /\ view' = [view EXCEPT !["Log"] = ScrollView(key, DrawnBottomStart("Log"), @)]
                /\ UNCHANGED quit

-----------------------------------------------------------------------------
(* The shell                                                               *)

\* The bytes of its first n characters.
Places(text) == Sums([i \in DOMAIN text |-> Bytes[text[i]]])
Length(text) == Places(text)[Len(text)]

\* The positions between the characters of a text.
Boundaries(text) == {Places(text)[i] : i \in 0..Len(text)}
Before(text, place) == Max({b \in Boundaries(text) : b < place} \cup {0})
After(text, place) == Min({b \in Boundaries(text) : b > place} \cup {Length(text)})
CharactersBefore(text, place) == CHOOSE i \in 0..Len(text) : Places(text)[i] = place

InsertCharacter(key) ==
  IF Len(input) < MaxInput
    THEN /\ input' = InsertAt(input, CharactersBefore(input, cursor) + 1, key)
         /\ cursor' = cursor + Bytes[key]
    ELSE UNCHANGED <<input, cursor>>

DeleteCharacter ==
  IF cursor > 0
    THEN /\ input' = RemoveAt(input, CharactersBefore(input, cursor))
         /\ cursor' = Before(input, cursor)
    ELSE UNCHANGED <<input, cursor>>

\* A line goes to the node whose tab is shown, is echoed in its shell and
\* can be recalled.  (Bound: the next line is entered once it is taken.)
EnterLine ==
  /\ stdin' = [stdin EXCEPT ![current] = Append(@, input)]
  /\ input' = <<>> /\ cursor' = 0 /\ recalled' = 0
  /\ view' = [view EXCEPT !["Shell"].follow = TRUE]
  /\ IF input = <<>> THEN UNCHANGED <<history, shellOut>>
     ELSE /\ PushShell(current, <<<<0, 1>>, <<1, Len(input)>>>>)
          /\ history' = IF Len(history) = HistoryCap THEN Append(Tail(history), input)
                        ELSE Append(history, input)

RecallLine(place) ==
  /\ recalled' = place
  /\ input' = IF place = 0 THEN <<>> ELSE history[place]
  /\ cursor' = Length(input')

RecallEarlier ==
  IF history = <<>> THEN UNCHANGED <<recalled, input, cursor>>
  ELSE RecallLine(IF recalled = 0 THEN Len(history) ELSE Max({recalled - 1, 1}))

RecallLater ==
  IF recalled = 0 THEN UNCHANGED <<recalled, input, cursor>>
  ELSE RecallLine(IF recalled < Len(history) THEN recalled + 1 ELSE 0)

MoveCursor(key) ==
  cursor' = CASE key = "Left" -> Before(input, cursor)
              [] key = "Right" -> After(input, cursor)
              [] key = "Home" -> 0
              [] key = "End" -> Length(input)

ShellKey(key) ==
  \/ /\ key = "Esc" /\ focus' = "Log"
     /\ UNCHANGED <<typing, shellOut, view>>
  \/ /\ key = "Enter" /\ stdin[current] = <<>>
     /\ EnterLine
     /\ UNCHANGED focus
  \/ /\ key \in DOMAIN Bytes \/ key = "Backspace"
     /\ IF key = "Backspace" THEN DeleteCharacter ELSE InsertCharacter(key)
     /\ UNCHANGED <<history, recalled, stdin, focus, shellOut, view>>
  \/ /\ key \in {"Left", "Right", "Home", "End"} /\ MoveCursor(key)
     /\ UNCHANGED <<input, history, recalled, stdin, focus, shellOut, view>>
  \/ /\ key \in {"Up", "Down"}
     /\ IF key = "Up" THEN RecallEarlier ELSE RecallLater
     /\ UNCHANGED <<history, stdin, focus, shellOut, view>>

-----------------------------------------------------------------------------
(* A key                                                                   *)

FollowShell(node) ==
  /\ current' = node
  /\ view' = [view EXCEPT !["Shell"].follow = TRUE]

Cycle(delta) ==
  LET n == Len(NodeOrder)
      place == CHOOSE i \in 1..n : NodeOrder[i] = current
  IN IF n < 2 THEN UNCHANGED <<current, view>>
     ELSE FollowShell(NodeOrder[((place - 1 + delta + n) % n) + 1])

Tabs == [F1 |-> 1, F2 |-> 2, F3 |-> 3]
Jump(key) ==
  IF Tabs[key] <= Len(NodeOrder) THEN FollowShell(NodeOrder[Tabs[key]])
  ELSE UNCHANGED <<current, view>>

NextPane == [Log |-> "Bus", Bus |-> "Can", Can |-> "Shell", Shell |-> "Log"]

\* Copying leaves the state alone.
CopyKeys == {"CtrlY"} \cup (IF focus = "Shell" THEN {} ELSE {"y", "c"})
GlobalKeys == {"CtrlC", "CtrlN", "CtrlP", "AltEnter"} \cup DOMAIN Tabs

GlobalKey(key) ==
  \/ key = "CtrlC" /\ quit' = TRUE /\ UNCHANGED <<current, view, maximized>>
  \/ key = "CtrlN" /\ Cycle(1) /\ UNCHANGED <<quit, maximized>>
  \/ key = "CtrlP" /\ Cycle(-1) /\ UNCHANGED <<quit, maximized>>
  \/ key \in DOMAIN Tabs /\ Jump(key) /\ UNCHANGED <<quit, maximized>>
  \/ key = "AltEnter" /\ maximized' = ~maximized /\ UNCHANGED <<quit, current, view>>

HandleKey(key) ==
  IF Editing
    THEN EditFilter(key) /\ UNCHANGED <<arriving, view, canView, focus, maximized, current, typing>>
  ELSE IF key \in CopyKeys THEN UNCHANGED uiVars
  ELSE IF key \in GlobalKeys
    THEN GlobalKey(key) /\ UNCHANGED <<arriving, mode, canView, focus, typing>>
  ELSE IF focus \in Feeds /\ key \in FeedKeys
    THEN FeedKey(key) /\ UNCHANGED <<arriving, focus, maximized, current, typing, quit>>
  ELSE IF key = "Tab"
    THEN /\ focus' = NextPane[focus]
         /\ UNCHANGED <<arriving, view, mode, canView, maximized, current, typing, quit>>
  ELSE CASE focus = "Log" ->
              ScrollLog(key)
              /\ UNCHANGED <<arriving, mode, canView, focus, maximized, current, typing>>
         [] focus \in Feeds ->
              ScrollFeed(focus, key)
              /\ UNCHANGED <<arriving, canView, focus, maximized, current, typing>>
         [] focus = "Shell" ->
              ShellKey(key)
              /\ UNCHANGED <<rows, up, order, latest, columns, mode, canView, maximized, current, quit>>

Press(key) == HandleKey(key) /\ UNCHANGED selection

-----------------------------------------------------------------------------

\* A use of the interface is what is sent to it, the keys that are pressed,
\* where the mouse button is, as <<pane, row of the screen>>, and the rows it is
\* dragged to.
UiNext(use) ==
  /\ ~quit
  /\ \/ Receive(use.sent)
     \/ \E n \in Nodes : TakeInput(n)
     \/ \E key \in use.keys : Press(key)
     \/ \E click \in use.clicks : MouseDown(click[1], click[2])
     \/ \E row \in use.drags : MouseDrag(row)
     \/ MouseUp

-----------------------------------------------------------------------------
(* Properties                                                              *)

\* The rows of the screen a selection in a pane goes between: any one, the
\* whole pane, and those being selected.
SelectionEnds(p) ==
  LET rect == PaneRects[p]
      bottom == rect.top + rect.height - 1
  IN {<<row, row>> : row \in rect.top..bottom} \cup {<<rect.top, bottom>>}
     \cup {<<Min({s.anchor, s.end}), Max({s.anchor, s.end})>> : s \in Range(selection)}

\* The lines that are drawn, with all those shown before them, on as many rows
\* as a selection counts.
Agreeing(p, visible) ==
  LET taken == DrawnRows(p)
  IN {i \in DOMAIN taken : \A k \in (visible.start + 1)..i : taken[k] = visible.taken[k]}

\* Of the lines down to the first one that words wrap otherwise than at the
\* width, what a selection copies is what it highlights, wherever the pane has
\* been scrolled to.  (Not of the Shell pane: its place is worked out without
\* the row of the input.)
CopiesWhatIsHighlighted ==
  \A p \in DOMAIN PaneRects \ {"Shell"} : \A drawn \in {Drawn(p)}, visible \in {VisibleLines(p)} :
    \A agreeing \in {Agreeing(p, visible)}, e \in SelectionEnds(p) :
      \A covered \in {Covered(p, e[1], e[2])} :
        SelectionLines(p, visible, covered) \cap agreeing
          = Highlighted(drawn, PaneRects[p].top, covered) \cap agreeing

\* A pane that follows shows its newest line whole, but for as many rows as
\* the lines it shows take beyond what was estimated of them.  (Not a line
\* that is estimated taller than the pane.)
FollowsTheNewest ==
  \A p \in DOMAIN PaneRects : \A taken \in {DrawnRows(p)}, drawn \in {Drawn(p)},
      estimated \in {TakenRows(Estimated(p), InnerWidth(p))} :
    LET newest == Len(taken)
        start == Start(p, OutputHeight(p))
        excess == (Sums(taken)[newest] - Sums(taken)[start])
                    - (Sums(estimated)[newest] - Sums(estimated)[start])
    IN view[p].follow /\ newest > 0 /\ estimated[newest] <= OutputHeight(p)
       => Cardinality({row \in DOMAIN drawn : drawn[row] = newest}) >= taken[newest] - Max({excess, 0})

\* A line that fits its pane takes one row of it, on the screen and in what
\* a selection counts.
FittingLinesTakeARow ==
  \A p \in DOMAIN PaneRects : \A lines \in {LinesOf(p)}, taken \in {DrawnRows(p)}, visible \in {VisibleLines(p)} :
    \A i \in DOMAIN lines :
      Width(lines[i]) <= InnerWidth(p) => taken[i] = 1 /\ visible.taken[i] = 1

\* The values marked in a row are those that differ from the row of its key
\* before it, whatever was dropped between the two.
MarksChanges ==
  \A f \in Feeds : \A i, j \in DOMAIN rows[f] :
    LET old == rows[f][i]
        new == rows[f][j]
    IN i < j /\ old.key = new.key /\ (\A k \in (i + 1)..(j - 1) : rows[f][k].key # new.key)
       => IF f = "Bus" THEN (new.changed = {}) <=> (old.body = new.body)
          ELSE \A s \in Range(new.body.signals) : s[1] \notin new.changed <=> s \in Range(old.body.signals)

\* The observer view has one row per key, the last that came, and none is
\* lost when the feed drops its oldest rows.
ObservesTheLatest ==
  \A f \in Feeds :
    /\ Range(order[f]) = DOMAIN latest[f] /\ Cardinality(DOMAIN latest[f]) = Len(order[f])
    /\ \A i \in DOMAIN rows[f] :
         (\A j \in (i + 1)..Len(rows[f]) : rows[f][j].key # rows[f][i].key)
         => rows[f][i].key \in DOMAIN latest[f] /\ latest[f][rows[f][i].key] = rows[f][i]

\* Scrolling goes on from the rows on the screen, whether the pane followed
\* or not, and a pause keeps them.
ScrollsFromTheScreen ==
  \A p \in DOMAIN PaneRects \ {"Shell"} : \A bottom \in {DrawnBottomStart(p)} :
    LET shown == DisplayStart(view[p], bottom)
        ShownAfter(key) == DisplayStart(ScrollView(key, bottom, view[p]), bottom)
    IN /\ ShownAfter("Up") = Max({shown - 1, 0}) /\ ShownAfter("Down") = Min({shown + 1, bottom})
       /\ ShownAfter("PageUp") = Max({shown - PageRows, 0})
       /\ ShownAfter("PageDown") = Min({shown + PageRows, bottom})
       /\ p \in Feeds /\ ~mode[p].paused => DisplayStart(PausedView(p), bottom) = shown

\* The places kept in texts and lists exist: the cursor is between two
\* characters, the line recalled is in the history, and one filter at most
\* is edited.
PlacesExist ==
  /\ cursor \in Boundaries(input)
  /\ recalled \in 0..Len(history) /\ Len(history) <= HistoryCap
  /\ ~(mode["Bus"].editing /\ mode["Can"].editing)
  /\ \A p \in Panes \ {"Shell"} : Len(rows[p]) <= (IF p = "Log" THEN LogCap ELSE FeedCap)

PanesAreTrue ==
  /\ CopiesWhatIsHighlighted
  /\ FollowsTheNewest
  /\ FittingLinesTakeARow
  /\ MarksChanges
  /\ ObservesTheLatest
  /\ ScrollsFromTheScreen
  /\ PlacesExist

=============================================================================
