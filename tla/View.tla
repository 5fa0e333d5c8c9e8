------------------------------- MODULE View -------------------------------
(***************************************************************************)
(* What of a document is on the screen: app/viewport.rs, app/view.rs,      *)
(* app/help.rs, app/selection/mouse.rs, terminal/screen.rs and the layout  *)
(* of terminal/render/wrapped.rs and frame.rs.                             *)
(*                                                                         *)
(* The editor keeps one screen origin for whatever it displays: the        *)
(* source, the help or the Markdown preview of the source.  The help and   *)
(* the preview are read-only texts laid out for the width of the screen.   *)
(* What the keys do to the source is in Editing; here they leave any text  *)
(* and put the cursor between any two graphemes.                           *)
(***************************************************************************)
EXTENDS Positions

CONSTANTS
  ShownTexts,   \* the texts the source goes through
  HelpText,     \* help_markdown
  Sizes,        \* the sizes of the terminal
  ActionBar,    \* whether the touch bar takes the last row
  WheelRows     \* MOUSE_WHEEL_ROWS

VARIABLES
  sourceText,   \* the source buffer
  spot,         \* its cursor
  screen,       \* Screen: scroll_top, scroll_left and wrap_col
  size,         \* Screen: width and height; and whether line numbers are shown
  softWrap,     \* ViewOptions.soft_wrap
  overlay,      \* the read-only view that has the focus
  revealed,     \* history: by what the last step revealed the cursor, if it did
  covered,      \* history: the screen of the source when an overlay covered it
  still         \* history: nothing has been scrolled or laid out anew since

viewVars == <<sourceText, spot, screen, size, softWrap, overlay, revealed, covered, still>>

-----------------------------------------------------------------------------
(* The frame a text is displayed in. *)

LineNumberGutter(count) == Cardinality({n \in {1, 10, 100, 1000} : n <= count}) + 1
Gutter(sz, text) == IF sz.numbers THEN LineNumberGutter(Len(text)) ELSE 0

\* bottom_layout: the status, the action bar and, when there is room, a separator.
ContentHeight(sz) ==
  LET chrome == IF ActionBar THEN 2 ELSE 1
  IN  IF sz.height <= chrome THEN sz.height
      ELSE sz.height - chrome - (IF sz.height >= chrome + 3 THEN 1 ELSE 0)

Framed(sz, text, at, wrapped) ==
  [text |-> text, cursor |-> at, wrapped |-> wrapped, height |-> ContentHeight(sz),
   width |-> Less(sz.width, Gutter(sz, text)), columns |-> sz.width]

\* display_buffer and soft_wrap_active.
Overlaid == overlay.kind # "none"
SourceFrame == Framed(size, sourceText, spot, softWrap)
OverlayFrame(sz, over) == Framed(sz, over.text, over.cursor, over.kind = "help")
Display == IF Overlaid THEN OverlayFrame(size, overlay) ELSE SourceFrame

Origin0 == [top |-> 0, left |-> 0, wrap |-> 0]

-----------------------------------------------------------------------------
(* Soft-wrapped rows. *)

\* append_line_rows: one row of a line, from a column.
Placed(row, from, line, laid) ==
  [row |-> row, from |-> from, to |-> from + laid.source,
   ends |-> from + laid.source >= Len(line), graphemes |-> laid.graphemes]
EmptyRow == [source |-> 0, graphemes |-> <<>>]
LaidRow(f, row, from, line) ==
  IF f.width = 0 THEN [Placed(row, from, <<>>, EmptyRow) EXCEPT !.ends = TRUE]
  ELSE Placed(row, from, line, Row(Suffix(line, from), f.width, f.wrapped))
RowAt(f, row, from) == LaidRow(f, row, from, LineAt(f.text, row))

\* At most `count` rows.
WithFollowing(f, rows, r) ==
  IF r.ends /\ r.row = FinalRow(f.text) THEN rows
  ELSE Append(rows, RowAt(f, IF r.ends THEN r.row + 1 ELSE r.row, IF r.ends THEN 0 ELSE r.to))
RowsAfter(f, first, count) ==
  FoldLeft(LAMBDA rows, k : WithFollowing(f, rows, Last(rows)), <<first>>, [k \in 1..(count - 1) |-> k])
RowsFrom(f, row, from, count) == RowsAfter(f, RowAt(f, row, from), count)

\* visible_rows
VisibleRows(f, row, from, count) == RowsFrom(f, row, Lower(from, Len(LineAt(f.text, row))), count)

\* The rows of one line.
LineRows(f, row, from) ==
  SelectSeq(RowsFrom(f, row, from, Len(LineAt(f.text, row)) + 1), LAMBDA r : r.row = row)

\* row_contains_cursor and the cell of the cursor in the row.
HasCursor(r, at) ==
  at.row = r.row /\ at.col >= r.from /\ (at.col < r.to \/ (r.ends /\ at.col = r.to))
CellIn(r, col) == CellsEnd(SelectSeq(r.graphemes, LAMBDA g : g.to <= col - r.from), 0)
Fits(f, r, at) == CellIn(r, at.col) < f.width + (IF r.ends THEN 1 ELSE 0)
ShowsCursor(f, r) == HasCursor(r, f.cursor) /\ Fits(f, r, f.cursor)

\* cursor_visibility
WrappedCursorIsVisible(f, s) ==
  /\ f.height > 0 /\ f.width > 0
  /\ \E r \in Range(RowsFrom(f, s.top, s.wrap, f.height)) : ShowsCursor(f, r)

\* start_col_near_cursor: as much as the screen holds of what is before the cursor.
StartAmong(f, rows) ==
  LET shown == {k \in DOMAIN rows : ShowsCursor(f, rows[k])}
  IN  IF shown = {} THEN f.cursor.col ELSE rows[Max({1, Min(shown) - f.height + 1})].from
StartColNearCursor(f) ==
  LET about == Less(f.cursor.col, f.width * f.height - 1)
      start == CeilToGraphemeCol(LineAt(f.text, f.cursor.row), about)
  IN  IF f.width = 0 \/ f.height = 0 THEN 0
      ELSE StartAmong(f, LineRows(f, f.cursor.row, start))

-----------------------------------------------------------------------------
(* Revealing the cursor. *)

ClampScroll(f, s) ==
  [s EXCEPT !.top = IF f.height = 0 THEN 0 ELSE @, !.left = IF f.columns = 0 THEN 0 ELSE @]

ClampToBuffer(f, s) ==
  LET top == CASE f.wrapped -> Lower(s.top, FinalRow(f.text))
               [] ~f.wrapped /\ f.height = 0 -> 0
               [] OTHER -> Lower(s.top, Less(Len(f.text), f.height))
  IN  [top |-> top,
       wrap |-> IF f.wrapped THEN Lower(s.wrap, Len(LineAt(f.text, top))) ELSE s.wrap,
       left |-> IF f.width = 0 THEN 0
                ELSE Lower(s.left, Less(Len(LineAt(f.text, f.cursor.row)) + 1, f.width))]

\* reveal_row and reveal_col_with_width.
Revealing(first, at, extent) ==
  CASE extent = 0 -> 0
    [] extent > 0 /\ at < first -> at
    [] extent > 0 /\ at >= first + extent -> at + 1 - extent
    [] OTHER -> first
RevealRow(f, s) == [s EXCEPT !.top = Revealing(@, f.cursor.row, f.height)]
RevealCol(f, s) == [s EXCEPT !.left = Revealing(@, f.cursor.col, f.width)]

\* reveal_wrapped_cursor
RevealWrapped(f, s) ==
  IF WrappedCursorIsVisible(f, [s EXCEPT !.left = 0]) THEN [s EXCEPT !.left = 0]
  ELSE [top |-> f.cursor.row, left |-> 0, wrap |-> StartColNearCursor(f)]

\* reveal_horizontal_cells, for lines shorter than its context of 64 scalars.
CellsHidden(f, s, boundary, visible) ==
  LET cell == ScalarToCell(visible, Less(f.cursor.col, boundary))
  IN  [s EXCEPT !.left = boundary + ScalarAtCell(visible, Less(cell + 1, f.width))]
CellsFrom(f, s, line, boundary) == CellsHidden(f, s, boundary, Suffix(line, boundary))
LineCells(f, s, line) == CellsFrom(f, s, line, CeilToGraphemeCol(line, s.left))
RevealCells(f, s) ==
  IF f.width = 0 THEN [s EXCEPT !.left = 0] ELSE LineCells(f, s, LineAt(f.text, f.cursor.row))

ClampedRow(f, s) == RevealRow(f, ClampToBuffer(f, ClampScroll(f, s)))
Uncelled(f, s) == ClampToBuffer(f, RevealCol(f, [ClampedRow(f, s) EXCEPT !.wrap = 0]))

RevealCursor(f, s) ==
  IF f.wrapped THEN RevealWrapped(f, ClampedRow(f, s)) ELSE RevealCells(f, Uncelled(f, s))

\* reveal_display_cursor: neither wrapped rows nor cells.
RevealDisplayCursor(f, s) == ClampToBuffer(f, RevealCol(f, ClampedRow(f, s)))

\* RowPlan::cursor_position: whether the frame drawn shows the cursor.
Drawn(f, s) ==
  IF f.wrapped THEN VisibleRows(f, s.top, s.wrap, f.height)
  ELSE [k \in 1..Lower(f.height, Less(Len(f.text), s.top)) |-> RowAt(f, s.top + k - 1, s.left)]
CursorIsDrawn(f, s) ==
  f.height > 0 /\ f.width > 0 /\ \E r \in Range(Drawn(f, s)) : ShowsCursor(f, r)

-----------------------------------------------------------------------------
(* The source on the screen. *)

NoOverlay == [kind |-> "none"]

ViewInit ==
  /\ sourceText \in ShownTexts /\ spot = Spot(0, 0)
  /\ screen = Origin0 /\ size \in Sizes /\ softWrap \in BOOLEAN
  /\ overlay = NoOverlay
  /\ revealed = "reveal_cursor" /\ covered = Origin0 /\ still = TRUE

Uncover == covered' = Origin0 /\ still' = TRUE
\* Where the source was is remembered as long as its overlay is only looked at.
LookedAt(only) ==
  /\ still' = (~Overlaid \/ (still /\ only))
  /\ covered' = (IF still' THEN covered ELSE Origin0)
RevealedIn(text, at) ==
  /\ screen' = RevealCursor(Framed(size, text, at, softWrap), screen) /\ revealed' = "reveal_cursor"

Columns(line) == Starts(line) \cup {Len(line)}

\* Every key that moves or edits reveals the cursor.
Keyed ==
  /\ ~Overlaid
  /\ \E text \in ShownTexts : \E row \in 0..FinalRow(text) :
       \E col \in Columns(LineAt(text, row)) :
         /\ sourceText' = text /\ spot' = Spot(row, col)
         /\ RevealedIn(text, Spot(row, col))
  /\ UNCHANGED <<size, softWrap, overlay, covered, still>>

-----------------------------------------------------------------------------
(* The wheel. *)

\* scroll_logical_viewport and scroll_wrapped_viewport.
PreviousRow(f, row, end) ==
  Spot(row, Max({0} \cup {r.from : r \in {q \in Range(LineRows(f, row, 0)) : q.from < end}}))
PreviousOrigin(f, at) ==
  IF at.col > 0 THEN PreviousRow(f, at.row, at.col)
  ELSE IF at.row = 0 THEN at
  ELSE PreviousRow(f, at.row - 1, Len(LineAt(f.text, at.row - 1)))
Moved(s, origin) == [s EXCEPT !.top = origin.row, !.wrap = origin.col]
ScrolledBack(f, s, count) ==
  Moved(s, FoldLeft(LAMBDA at, k : PreviousOrigin(f, at), Spot(s.top, s.wrap), [k \in 1..count |-> k]))
Following(rows, k) == Spot(rows[k].row, rows[k].from)
ScrolledAmong(f, s, count, rows) == Moved(s, Following(rows, Lower(count, Less(Len(rows), f.height)) + 1))
ScrolledOn(f, s, count) == ScrolledAmong(f, s, count, VisibleRows(f, s.top, s.wrap, f.height + count))
Scrolled(f, s, count, down) ==
  CASE f.height = 0 \/ (f.wrapped /\ f.width = 0) -> s
    [] f.height > 0 /\ ~f.wrapped ->
         [s EXCEPT !.top = IF down THEN Lower(@ + count, Less(Len(f.text), f.height)) ELSE Less(@, count)]
    [] OTHER -> IF down THEN ScrolledOn(f, s, count) ELSE ScrolledBack(f, s, count)

Wheel ==
  /\ \E down \in BOOLEAN : screen' = Scrolled(Display, screen, WheelRows, down)
  /\ screen' # screen /\ revealed' = "none"
  /\ LookedAt(screen'.top = screen.top)
  /\ UNCHANGED <<sourceText, spot, size, softWrap, overlay>>

-----------------------------------------------------------------------------
(* The pointer. *)

\* map_mouse_cursor and map_wrapped_cursor; below the content only when clamped.
MappedInLine(line, row, left, cell) ==
  Spot(row, Lower(left + ScalarAtCell(Suffix(line, left), cell), Len(line)))
MappedInRow(f, r, cell) ==
  Spot(r.row, Lower(r.from + ScalarAtCell(Slice(LineAt(f.text, r.row), r.from, r.to), cell), r.to))
MappedAmong(f, rows, shown, cell) ==
  IF shown >= Len(rows) THEN {} ELSE {MappedInRow(f, rows[shown + 1], cell)}
\* From the origin of the text, as if nothing had been scrolled.
MappedUnscrolled(f, s, shown, cell) ==
  LET row == Lower(shown, FinalRow(f.text)) IN {MappedInLine(LineAt(f.text, row), row, 0, cell)}
MappedIn(f, s, shown, cell) ==
  IF f.wrapped THEN MappedAmong(f, VisibleRows(f, s.top, s.wrap, f.height), shown, cell)
  ELSE LET row == Lower(s.top + shown, FinalRow(f.text))
       IN  {MappedInLine(LineAt(f.text, row), row, s.left, cell)}
Mapped(f, s, x, y, clamp) ==
  IF f.height = 0 \/ (y >= f.height /\ ~clamp) THEN {}
  ELSE MappedIn(f, s, Lower(y, f.height - 1), Less(x, Gutter(size, f.text)))

Pointed ==
  UNION {Mapped(SourceFrame, screen, x, y, TRUE) : x \in 0..(size.width - 1), y \in 0..(size.height - 1)}

\* Whatever gesture it is, the cursor goes where it points; a drag ends in the content.
Pointer ==
  /\ ~Overlaid
  /\ \E at \in Pointed : spot' = at /\ RevealedIn(sourceText, at)
  /\ UNCHANGED <<sourceText, size, softWrap, overlay, covered, still>>

-----------------------------------------------------------------------------
(* The help and the preview. *)

\* markdown_preview::render_with_width: what matters here is that lines are reflowed.
Reflowed(line, width) ==
  IF line = <<>> THEN << <<>> >>
  ELSE [k \in 1..((Len(line) + width - 1) \div width) |-> Slice(line, (k - 1) * width, Lower(k * width, Len(line)))]
Rendered(text, width) == FlattenSeq([k \in DOMAIN text |-> Reflowed(text[k], width)])
LayoutWidth(width) == IF width = 0 THEN 1 ELSE width

\* map_viewport_top
MapViewportTop(top, from, to, height) ==
  LET fromMaximum == Less(from, height)
      toMaximum == Less(to, height)
  IN  IF height = 0 \/ fromMaximum = 0 \/ toMaximum = 0 THEN 0
      ELSE (Lower(top, fromMaximum) * toMaximum + fromMaximum \div 2) \div fromMaximum

\* render_help: the gutter depends on the number of lines, and they on the width it leaves.
HelpTexts == [w \in 1..Max({1} \cup {sz.width : sz \in Sizes}) |-> Rendered(HelpText, w)]
HelpWidths ==
  [sz \in {[s EXCEPT !.numbers = shown] : s \in Sizes, shown \in BOOLEAN} |->
     Max({w \in 1..LayoutWidth(sz.width) : w = LayoutWidth(Less(sz.width, Gutter(sz, HelpTexts[w])))})]

\* The screen of the overlay is not the screen of the source.
CloseOverlayAtTop(s) ==
  IF overlay.kind = "none" THEN s ELSE [overlay.source EXCEPT !.top = s.top]
CloseOverlay(s) ==
  CASE overlay.kind = "none" -> s
    [] overlay.kind = "help" -> overlay.source
    [] OTHER -> IF s.top = overlay.first THEN overlay.source
                ELSE [overlay.source EXCEPT
                        !.top = MapViewportTop(s.top, Len(overlay.text), Len(sourceText), ContentHeight(size))]

CoveredStep == UNCHANGED <<sourceText, spot, size, softWrap>>

\* show: any other view is closed first.
ShowHelp ==
  /\ overlay.kind # "help"
  /\ overlay' = [kind |-> "help", text |-> HelpTexts[HelpWidths[size]], cursor |-> Spot(0, 0),
                 width |-> HelpWidths[size], source |-> CloseOverlay(screen), first |-> 0]
  /\ screen' = Origin0 /\ revealed' = "reveal_cursor"
  /\ covered' = (IF Overlaid THEN covered ELSE screen) /\ UNCHANGED still
  /\ CoveredStep

CloseHelp ==
  /\ overlay.kind = "help" /\ overlay' = NoOverlay
  /\ screen' = RevealCursor(SourceFrame, CloseOverlay(screen)) /\ revealed' = "reveal_cursor"
  /\ Uncover /\ CoveredStep

\* toggle_preview
ShowPreview ==
  /\ ~Overlaid
  /\ LET width == LayoutWidth(SourceFrame.width)
         text == Rendered(sourceText, width)
         first == MapViewportTop(screen.top, Len(sourceText), Len(text), ContentHeight(size))
     IN  overlay' = [kind |-> "preview", text |-> text, cursor |-> Spot(Lower(first, FinalRow(text)), 0),
                     width |-> width, source |-> screen, first |-> first]
  /\ screen' = RevealDisplayCursor(OverlayFrame(size, overlay'), [Origin0 EXCEPT !.top = overlay'.first])
  /\ revealed' = "reveal_display_cursor" /\ covered' = screen /\ still' = TRUE
  /\ CoveredStep

CancelPreview ==
  /\ overlay.kind = "preview" /\ overlay' = NoOverlay
  /\ screen' = CloseOverlay(screen) /\ revealed' = "none"
  /\ Uncover /\ CoveredStep

\* The keys of both: PreviewBuffer moves by scalars.
Clamped(text, row, col) == Spot(row, Lower(col, Len(LineAt(text, row))))
Beside(text, at) ==
  {IF at.col > 0 THEN Spot(at.row, at.col - 1)
   ELSE IF at.row = 0 THEN at ELSE Spot(at.row - 1, Len(LineAt(text, at.row - 1))),
   IF at.col < Len(LineAt(text, at.row)) THEN Spot(at.row, at.col + 1)
   ELSE IF at.row < FinalRow(text) THEN Spot(at.row + 1, 0) ELSE at}
OverlayTargets(text, at, page) ==
  Beside(text, at)
    \cup {Spot(at.row, 0), Spot(at.row, Len(LineAt(text, at.row)))}
    \cup {Clamped(text, Less(at.row, n), at.col) : n \in {1, page}}
    \cup {Clamped(text, Lower(at.row + n, FinalRow(text)), at.col) : n \in {1, page}}

OverlayKey ==
  /\ Overlaid
  /\ \E at \in OverlayTargets(overlay.text, overlay.cursor,
                              IF overlay.kind = "help" THEN 1 ELSE Max({1, ContentHeight(size)})) :
       overlay' = [overlay EXCEPT !.cursor = at]
  /\ \E f \in {OverlayFrame(size, overlay')} :
       screen' = IF overlay.kind = "help" THEN RevealCursor(f, screen) ELSE RevealDisplayCursor(f, screen)
  /\ revealed' = (IF overlay.kind = "help" THEN "reveal_cursor" ELSE "reveal_display_cursor")
  /\ LookedAt(screen'.top = screen.top) /\ CoveredStep

\* scroll_page of the help.
HelpPage ==
  /\ overlay.kind = "help"
  /\ \E down \in BOOLEAN : screen' = Scrolled(Display, screen, Max({1, ContentHeight(size)}), down)
  /\ revealed' = "none" /\ LookedAt(screen'.top = screen.top)
  /\ UNCHANGED overlay /\ CoveredStep

-----------------------------------------------------------------------------
(* The size and the switches. *)

\* map_cursor
MapCursor(at, from, text) ==
  Clamped(text, IF from <= 1 THEN 0 ELSE (Lower(at.row, from - 1) * FinalRow(text)) \div (from - 1), at.col)

\* relayout: the cursor and the top keep their place in the text.
HelpRelaid(sz, text) ==
  [overlay |-> [overlay EXCEPT !.text = text, !.width = HelpWidths[sz],
                               !.cursor = MapCursor(@, Len(overlay.text), text)],
   screen  |-> [Origin0 EXCEPT !.top = MapViewportTop(screen.top, Len(overlay.text), Len(text), ContentHeight(sz))]]

\* relayout_preview: a preview that was not scrolled stays where the source was.
PreviewRelaid(sz, text, width) ==
  LET Top(top) == MapViewportTop(top, Len(overlay.text), Len(text), ContentHeight(sz))
      untouched == screen.top = overlay.first
      row == Lower(IF untouched THEN Top(overlay.first) ELSE overlay.cursor.row, FinalRow(text))
  IN  [overlay |-> [overlay EXCEPT !.text = text, !.width = width, !.first = Top(@),
                                   !.cursor = Clamped(text, row, @.col)],
       screen  |-> [screen EXCEPT !.top = Top(@), !.left = 0]]

Relaid(sz) ==
  LET width == LayoutWidth(Less(sz.width, Gutter(sz, overlay.text)))
  IN  CASE ~Overlaid \/ overlay.width = width -> [overlay |-> overlay, screen |-> screen]
        [] Overlaid /\ overlay.width # width /\ overlay.kind = "help" ->
             HelpRelaid(sz, HelpTexts[HelpWidths[sz]])
        [] OTHER -> PreviewRelaid(sz, Rendered(sourceText, width), width)

RelaidFrame(sz, over) ==
  IF Overlaid THEN OverlayFrame(sz, over) ELSE Framed(sz, sourceText, spot, softWrap)

\* display_cursor_is_visible
CursorWasVisible(f) ==
  IF f.wrapped THEN WrappedCursorIsVisible(f, screen)
  ELSE f.cursor.row \in screen.top..(screen.top + f.height - 1)

\* handle_resize: a cursor that was visible stays so.
Resized(f, s, visible) ==
  IF visible THEN RevealCursor(f, ClampToBuffer(f, ClampScroll(f, s)))
  ELSE ClampToBuffer(f, ClampScroll(f, s))
Resize ==
  /\ \E sz \in Sizes : size' = [sz EXCEPT !.numbers = size.numbers]
  /\ size' # size
  /\ \E relaid \in {Relaid(size')} :
       \E f \in {RelaidFrame(size', relaid.overlay)} :
         /\ overlay' = relaid.overlay
         /\ screen' = Resized(f, relaid.screen, CursorWasVisible(Display))
  /\ revealed' = (IF CursorWasVisible(Display) THEN "reveal_cursor" ELSE "none")
  /\ LookedAt(FALSE) /\ UNCHANGED <<sourceText, spot, softWrap>>

\* The keys of the editor and of the preview; a switch may lay the preview out anew.
SwitchStep ==
  /\ LookedAt(overlay' = overlay /\ screen'.top = screen.top)
  /\ UNCHANGED <<sourceText, spot>>

\* toggle_line_numbers and toggle_whitespace: neither reveals wrapped rows.
ToggleLineNumbers ==
  /\ overlay.kind # "help" /\ size' \in {size, [size EXCEPT !.numbers = ~@]}
  /\ \E relaid \in {Relaid(size')} :
       \E f \in {RelaidFrame(size', relaid.overlay)} :
         /\ overlay' = relaid.overlay
         /\ screen' = RevealDisplayCursor(f, relaid.screen)
  /\ revealed' = "reveal_display_cursor"
  /\ UNCHANGED softWrap /\ SwitchStep

ToggleSoftWrap ==
  /\ overlay.kind # "help" /\ softWrap' = ~softWrap
  /\ screen' = RevealCursor(IF Overlaid THEN Display ELSE Framed(size, sourceText, spot, ~softWrap),
                            [screen EXCEPT !.left = 0, !.wrap = 0])
  /\ revealed' = "reveal_cursor"
  /\ UNCHANGED <<size, overlay>> /\ SwitchStep

ViewNext ==
  \/ Keyed
  \/ Wheel \/ Pointer
  \/ ShowHelp \/ CloseHelp \/ ShowPreview \/ CancelPreview \/ OverlayKey \/ HelpPage
  \/ Resize \/ ToggleLineNumbers \/ ToggleSoftWrap

ViewSpec == ViewInit /\ [][ViewNext]_viewVars

-----------------------------------------------------------------------------
(* Properties. *)

CellsAreScalars(f) ==
  \A s \in Range(LineAt(f.text, f.cursor.row)) : ScalarWidth(s) = 1 /\ s # "t"

CanShow(f) == f.height > 0 /\ f.width > 0 /\ (f.wrapped \/ CellsAreScalars(f))

\* Whatever was pressed or clicked, the step that revealed the cursor left it where the
\* frame draws it: the cursor is never typed at blindly.  Graphemes that are not one cell
\* wide are left out where lines are not wrapped.  Left out too is reveal_display_cursor
\* where lines are wrapped: it reveals the line of the cursor and not its row, so line
\* numbers that appear and narrow the rows can leave the cursor off the screen, although
\* the reveal is to account for their width (docs/phase-4-acceptance.md, View indicators).
CursorShown ==
  (CanShow(Display) /\ (revealed = "reveal_cursor"
                         \/ (revealed = "reveal_display_cursor" /\ ~Display.wrapped)))
    => CursorIsDrawn(Display, screen)

ClickFindsDrawn ==
  LET ClicksFind(f, r, y) ==
        \A g \in Range(r.graphemes) : \A cell \in g.cell..(Lower(g.cellEnd, f.width) - 1) :
          Mapped(f, screen, Gutter(size, f.text) + cell, y, FALSE) = {Spot(r.row, r.from + g.from)}
      FindDrawn(f, rows) == \A k \in DOMAIN rows : ClicksFind(f, rows[k], k - 1)
  IN  Display.height > 0 => FindDrawn(Display, Drawn(Display, screen))

\* The frame and the pointer agree with the cursor: CursorShown, with what it leaves out,
\* and every cell of a grapheme that is drawn is clicked at that grapheme.
ScreenIsTrue == CursorShown /\ ClickFindsDrawn

\* A screen within the text, and the cursor within the screen: not on the edge, where the
\* end of a line is drawn over its last cell.
Settled(f, s) ==
  /\ CursorIsDrawn(f, s) /\ (f.wrapped \/ f.cursor.col < s.left + f.width)
  /\ ClampToBuffer(f, s) = s

\* The source is uncovered where it was covered, and was left alone meanwhile.
Uncovers == Overlaid /\ overlay'.kind = "none" /\ still
ScreenReturns ==
  /\ screen'.top = covered.top
  /\ softWrap => Lower(screen'.wrap, Len(LineAt(sourceText, covered.top))) = Lower(covered.wrap, Len(LineAt(sourceText, covered.top)))
  /\ (~softWrap /\ CellsAreScalars(SourceFrame)) => screen'.left = covered.left

\* Looking at the help or at the preview, one from the other too, does not move the source:
\* unless something was scrolled or laid out anew meanwhile, the screen that comes back is
\* the one left.  Left out is the help over a screen that was scrolled away from the
\* cursor, or shows it on the very edge: closing the help reveals the cursor
\* (HelpRestoresViewport).
SourceScrollReturns ==
  [][ (Uncovers /\ (overlay.kind = "help" => Settled(SourceFrame, covered)))
        => ScreenReturns ]_viewVars

\* "Closing Help still restores the source viewport from before the reference was opened"
\* (docs/user-guide.md), wherever the cursor is.  Refuted: close_with_message reveals the
\* cursor, so a source scrolled away from it by the wheel jumps back to it.
HelpRestoresViewport ==
  [][ (Uncovers /\ overlay.kind = "help") => ScreenReturns ]_viewVars
=============================================================================
