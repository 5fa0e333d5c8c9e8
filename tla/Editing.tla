------------------------------ MODULE Editing ------------------------------
(***************************************************************************)
(* The cursor, the selection and the keys that edit: app/navigation.rs,    *)
(* app/selection.rs, app/indentation.rs, app/overwrite.rs and              *)
(* app/input/editing.rs.                                                   *)
(*                                                                         *)
(* "n" in a pasted or copied text ends a line.  View maps the pointer to   *)
(* positions and reveals the cursor after each of these actions.           *)
(***************************************************************************)
EXTENDS Positions

CONSTANTS
  Scalar,       \* the characters there are
  Originals,    \* the documents, sequences of lines
  Typed,        \* the characters typed
  Pasted,       \* the texts pasted by the terminal
  TabSize,      \* tab_size_for_path
  PageRows,     \* the height of the content
  MaxChanges    \* bound: edits, selections and clicks

\* No line holds the scalar that ends it.
LineText == Seq(Scalar \ {"n"})

ASSUME EditAssumption ==
  /\ {"n", "s"} \cup Typed \subseteq Scalar
  /\ \A text \in Originals : text \in Seq(LineText) /\ text # <<>>
  /\ \A text \in Pasted : text \in Seq(Scalar)
  /\ TabSize \in Nat \ {0} /\ PageRows \in Nat

VARIABLES
  lines,        \* the source buffer
  cursor,       \* its cursor
  range,        \* SelectionUiState.range, if there is one
  overwrite,    \* TypingMode
  clipboard,    \* App.clipboard
  cutting,      \* cut_line_append
  changes,      \* the edits and selections made (the bound)
  dragAnchor,   \* drag_anchor, if there is one
  lastClick,    \* last_click, if there is one
  pointed,      \* history: the pointer was put inside a grapheme
  cutFrom       \* history: the text before the chain of line cuts

editVars ==
  <<lines, cursor, range, overwrite, clipboard, cutting, changes, dragAnchor,
    lastClick, pointed, cutFrom>>

-----------------------------------------------------------------------------
(* Texts. *)

AddScalar(rows, s) ==
  IF s = "n" THEN Append(rows, <<>>) ELSE [rows EXCEPT ![Len(rows)] = Append(@, s)]
SplitLines(text) ==
  LET rows[k \in 0..Len(text)] == IF k = 0 THEN << <<>> >> ELSE AddScalar(rows[k - 1], text[k])
  IN  rows[Len(text)]

\* replace_range and text_range.
Replaced(text, start, end, with) ==
  SubSeq(text, 1, start.row)
    \o SplitLines(Prefix(LineAt(text, start.row), start.col) \o with
                    \o Suffix(LineAt(text, end.row), end.col))
    \o SubSeq(text, end.row + 2, Len(text))
EndOf(start, with) ==
  LET split == SplitLines(with)
  IN  IF Len(split) = 1 THEN Spot(start.row, start.col + Len(with))
      ELSE Spot(start.row + Len(split) - 1, Len(Last(split)))
Selected(text, start, end) ==
  LET rest(row) == IF row = end.row THEN Prefix(LineAt(text, row), end.col) ELSE LineAt(text, row)
      rows[k \in 0..(end.row - start.row)] ==
        IF k = 0 THEN Suffix(LineAt(text, start.row), start.col)
        ELSE rows[k - 1] \o <<"n">> \o rest(start.row + k)
  IN  IF start.row = end.row THEN Slice(LineAt(text, start.row), start.col, end.col)
      ELSE rows[end.row - start.row]

-----------------------------------------------------------------------------
(* Where the keys move to. *)

PreviousGrapheme(text, at) ==
  IF at.col > 0 THEN Spot(at.row, GraphemeRange(LineAt(text, at.row), at.col - 1).from)
  ELSE IF at.row = 0 THEN at
  ELSE Spot(at.row - 1, Len(LineAt(text, at.row - 1)))
NextGrapheme(text, at) ==
  LET r == GraphemeRange(LineAt(text, at.row), at.col)
  IN  IF r.from # r.to THEN Spot(at.row, r.to)
      ELSE IF at.row < FinalRow(text) THEN Spot(at.row + 1, 0) ELSE at

Row0(text, at, row) == Spot(row, Lower(at.col, Len(LineAt(text, row))))
Above(text, at) == Snapped(text, IF at.row = 0 THEN at ELSE Row0(text, at, at.row - 1))
Below(text, at) == Snapped(text, IF at.row = FinalRow(text) THEN at ELSE Row0(text, at, at.row + 1))

WordClass(s) ==
  CASE s \in {"s", "t"} -> "space" [] s \in {"x", "W"} -> "word" [] OTHER -> "mark"

\* word_left: over white space, then over one class.
WordLeft(text, at) ==
  LET line == LineAt(text, at.row)
      solid == Max({0} \cup {k \in 1..at.col : WordClass(line[k]) # "space"})
      other == Max({0} \cup {k \in 1..solid : WordClass(line[k]) # WordClass(line[solid])})
  IN  IF at.col = 0
      THEN IF at.row = 0 THEN at ELSE Spot(at.row - 1, Len(LineAt(text, at.row - 1)))
      ELSE Snapped(text, Spot(at.row, IF solid = 0 THEN 0 ELSE other))

\* word_right: over one class, then over the white space that follows it.
WordRight(text, at) ==
  LET line == LineAt(text, at.row)
      class == WordClass(line[at.col + 1])
      other == Min({k \in at.col..(Len(line) - 1) : WordClass(line[k + 1]) # class} \cup {Len(line)})
      solid == Min({k \in other..(Len(line) - 1) : WordClass(line[k + 1]) # "space"} \cup {Len(line)})
  IN  IF at.col >= Len(line)
      THEN IF at.row < FinalRow(text) THEN Spot(at.row + 1, 0) ELSE at
      ELSE SnappedForward(text, Spot(at.row, IF class = "space" THEN other ELSE solid))

\* paragraph::target keeps the column in cells.
Blank(text, row) == IsSpace(LineAt(text, row))
Paragraphs(text) == {r \in 0..FinalRow(text) : ~Blank(text, r) /\ (r = 0 \/ Blank(text, r - 1))}
PreviousParagraph(text, row) == Max({0} \cup {r \in Paragraphs(text) : r < row})
NextParagraph(text, row) ==
  LET gap == Min({r \in row..FinalRow(text) : Blank(text, r)} \cup {FinalRow(text)})
  IN  Min({r \in gap..FinalRow(text) : ~Blank(text, r)} \cup {FinalRow(text)})
SameCell(text, at, row) ==
  IF row = at.row THEN at
  ELSE Spot(row, ScalarAtCell(LineAt(text, row), ScalarToCell(LineAt(text, at.row), at.col)))

DocumentEnd(text) == Spot(FinalRow(text), Len(Last(text)))

PageTarget(text, at, row) == Snapped(text, Spot(row, at.col))

Motions == {"left", "right", "up", "down", "linestart", "lineend", "documentstart", "documentend",
            "viewportup", "viewportdown", "wordleft", "wordright", "paragraphup", "paragraphdown"}

\* Where an action leads; a page is PageRows.
Target(motion) ==
  CASE motion = "left" -> PreviousGrapheme(lines, cursor)
    [] motion = "right" -> NextGrapheme(lines, cursor)
    [] motion = "up" -> Above(lines, cursor)
    [] motion = "down" -> Below(lines, cursor)
    [] motion = "linestart" -> Spot(cursor.row, 0)
    [] motion = "lineend" -> Spot(cursor.row, Len(LineAt(lines, cursor.row)))
    [] motion = "documentstart" -> Spot(0, 0)
    [] motion = "documentend" -> DocumentEnd(lines)
    [] motion = "viewportup" -> PageTarget(lines, cursor, Less(cursor.row, PageRows))
    [] motion = "viewportdown" -> PageTarget(lines, cursor, Lower(cursor.row + PageRows, FinalRow(lines)))
    [] motion = "wordleft" -> WordLeft(lines, cursor)
    [] motion = "wordright" -> WordRight(lines, cursor)
    [] motion = "paragraphup" -> SameCell(lines, cursor, PreviousParagraph(lines, cursor.row))
    [] motion = "paragraphdown" -> SameCell(lines, cursor, NextParagraph(lines, cursor.row))

-----------------------------------------------------------------------------
(* The selection. *)

NoRange == [anchor |-> Spot(0, 0), focus |-> Spot(0, 0)]
Active(r) == r.anchor # r.focus
First(r) == IF Before(r.anchor, r.focus) THEN r.anchor ELSE r.focus
Second(r) == IF Before(r.anchor, r.focus) THEN r.focus ELSE r.anchor
Chosen(r) == Selected(lines, First(r), Second(r))
SelectedOrCursor ==
  IF Active(range) THEN [from |-> First(range), to |-> Second(range)]
  ELSE [from |-> cursor, to |-> cursor]

EditInit ==
  /\ lines \in Originals /\ cursor = Spot(0, 0) /\ range = NoRange /\ overwrite = FALSE
  /\ clipboard = <<>> /\ cutting = FALSE /\ changes = 0 /\ cutFrom = <<>>
  /\ dragAnchor = {} /\ lastClick = {} /\ pointed = FALSE

Counted == changes < MaxChanges /\ changes' = changes + 1

\* Every key but the one that cuts a line ends a chain of cuts, and so does the mouse.
EndCutLineChain == cutting' = FALSE /\ cutFrom' = <<>>

\* SelectionUiState::clear
ClearSelection == range' = NoRange /\ dragAnchor' = {} /\ lastClick' = {}

\* A range is extended from its anchor, and what is selected is copied at once.
Extend(anchor, to) ==
  LET new == [anchor |-> anchor, focus |-> to]
  IN  /\ Counted
      /\ range' = IF anchor = to THEN NoRange ELSE new
      /\ clipboard' = IF Active(new) THEN Chosen(new) ELSE clipboard
ExtendKeeping(anchor, to) == Extend(anchor, to) /\ UNCHANGED <<dragAnchor, lastClick>>

\* move_to, extend_with_arrow, move_horizontal and move_vertical.
Move ==
  \E motion \in Motions, extend \in BOOLEAN :
    /\ extend => motion \notin {"paragraphup", "paragraphdown"}
    /\ cursor' = Target(motion)
    /\ IF extend THEN ExtendKeeping(IF Active(range) THEN range.anchor ELSE cursor, cursor')
       ELSE ClearSelection /\ UNCHANGED <<clipboard, changes>>
    /\ EndCutLineChain /\ UNCHANGED <<lines, overwrite>>

SelectAll ==
  /\ cursor' = DocumentEnd(lines) /\ ExtendKeeping(Spot(0, 0), cursor')
  /\ EndCutLineChain /\ UNCHANGED <<lines, overwrite>>

Copy ==
  /\ clipboard' = IF Active(range) THEN Chosen(range) ELSE clipboard
  /\ EndCutLineChain /\ UNCHANGED <<lines, cursor, range, overwrite, changes, dragAnchor, lastClick>>

ToggleOverwrite ==
  /\ Counted /\ overwrite' = ~overwrite
  /\ EndCutLineChain /\ UNCHANGED <<lines, cursor, range, clipboard, dragAnchor, lastClick>>

-----------------------------------------------------------------------------
(* The pointer: what it points at is a position of the text, mostly one between two *)
(* graphemes (View).                                                               *)

InText(at) == at.row \in 0..FinalRow(lines) /\ at.col \in 0..Len(LineAt(lines, at.row))
AtGrapheme(at) ==
  InText(at) /\ at.col \in Starts(LineAt(lines, at.row)) \cup {Len(LineAt(lines, at.row))}

Places == {at \in {Spot(r, c) : r \in 0..FinalRow(lines), c \in 0..Max({Len(l) : l \in Range(lines)})} : InText(at)}
PointedAt(ats) ==
  /\ pointed' = (pointed \/ \E at \in ats : ~AtGrapheme(at))
  /\ EndCutLineChain /\ UNCHANGED <<lines, overwrite>>

\* word_bounds
Word(at) ==
  LET line == LineAt(lines, at.row)
      class == WordClass(line[at.col + 1])
  IN  IF at.col >= Len(line) THEN [from |-> at, to |-> at]
      ELSE [from |-> Spot(at.row, Max({0} \cup {k \in 1..at.col : WordClass(line[k]) # class})),
            to |-> Spot(at.row, Min({k \in at.col..(Len(line) - 1) : WordClass(line[k + 1]) # class}
                                    \cup {Len(line)}))]

Click ==
  /\ Counted
  /\ \E at \in Places :
       /\ PointedAt({at}) /\ cursor' = at
       /\ range' = NoRange /\ dragAnchor' = {at} /\ lastClick' = {at}
  /\ UNCHANGED clipboard

\* The second of two clicks at one place.
DoubleClick ==
  /\ \E at \in lastClick :
       /\ PointedAt({Word(at).from, Word(at).to}) /\ cursor' = Word(at).to
       /\ Extend(Word(at).from, Word(at).to)
  /\ dragAnchor' = {} /\ lastClick' = {}

\* The click that began the drag was counted.
Drag ==
  /\ \E at \in Places, from \in dragAnchor :
       /\ PointedAt({at}) /\ cursor' = at
       /\ range' = IF from = at THEN NoRange ELSE [anchor |-> from, focus |-> at]
  /\ UNCHANGED <<clipboard, changes, dragAnchor, lastClick>>

Release ==
  /\ \E at \in Places, from \in dragAnchor :
       LET new == [anchor |-> from, focus |-> at]
       IN  /\ PointedAt({at}) /\ cursor' = at
           /\ range' = IF from = at THEN NoRange ELSE new
           /\ clipboard' = IF from = at THEN clipboard ELSE Chosen(new)
  /\ dragAnchor' = {} /\ UNCHANGED <<changes, lastClick>>

-----------------------------------------------------------------------------
(* Edits. *)

RecordedUnsnapped(text, at) ==
  /\ Counted
  /\ lines' = text /\ cursor' = at /\ ClearSelection
  /\ UNCHANGED overwrite

\* record_content_edit: an edit may join what is around the cursor into one grapheme.
Recorded(text, at) ==
  /\ Counted
  /\ lines' = text /\ cursor' = SnappedForward(text, at) /\ ClearSelection
  /\ UNCHANGED overwrite

ReplaceText(from, to, with) == Recorded(Replaced(lines, from, to, with), EndOf(from, with))

EditEnds == EndCutLineChain /\ UNCHANGED clipboard

\* continues_previous_grapheme
Continues(at, s) ==
  at.col > 0 /\ ContinuesGrapheme(Slice(LineAt(lines, at.row), PreviousGrapheme(lines, at).col, at.col), s)

\* type_char: overwriting takes a whole grapheme, but never the end of a line.
TypeChar ==
  /\ \E s \in Typed :
       LET at == Snapped(lines, cursor)
           kept == Continues(at, s) \/ at.col >= Len(LineAt(lines, at.row))
       IN  IF Active(range) \/ ~overwrite
           THEN ReplaceText(SelectedOrCursor.from, SelectedOrCursor.to, <<s>>)
           ELSE ReplaceText(at, IF kept THEN at ELSE NextGrapheme(lines, at), <<s>>)
  /\ EditEnds

Spaces(n) == [k \in 1..n |-> "s"]

\* insert_newline keeps the indentation, and deepens it after an opening bracket.
Indentation(before) ==
  LET solid == {k \in DOMAIN before : WordClass(before[k]) # "space"}
      deepens == solid # {} /\ before[Max(solid)] = "o"
  IN  Prefix(before, IF solid = {} THEN Len(before) ELSE Min(solid) - 1)
        \o Spaces(IF deepens THEN TabSize ELSE 0)
BreakLine ==
  /\ LET at == SelectedOrCursor
     IN  ReplaceText(at.from, at.to,
                 <<"n">> \o Indentation(Prefix(LineAt(lines, at.from.row), at.from.col)))
  /\ EditEnds

\* edit_lines: every line of the selection, except one it only touches the start of.
RemovableIndent(line) ==
  CASE line = <<>> -> 0
    [] line # <<>> /\ line[1] = "t" -> 1
    [] OTHER -> Max({k \in 0..Lower(TabSize, Len(line)) : \A i \in 1..k : line[i] = "s"})
Reindented(line, unindent) ==
  IF unindent THEN Suffix(line, RemovableIndent(line)) ELSE Spaces(TabSize) \o line
EditLines(first, last, unindent) ==
  LET line == LineAt(lines, cursor.row)
      here == cursor.row \in first..last
      col == CASE ~here -> cursor.col
               [] here /\ unindent -> Less(cursor.col, RemovableIndent(line))
               [] OTHER -> cursor.col + TabSize
  IN  Recorded([k \in DOMAIN lines |->
                  IF k - 1 \in first..last THEN Reindented(lines[k], unindent) ELSE lines[k]],
               Spot(cursor.row, col))
HandleTab ==
  /\ \E unindent \in BOOLEAN :
       LET end == Second(range)
       IN  CASE Active(range) ->
                  EditLines(First(range).row,
                            IF end.col = 0 /\ end.row > First(range).row THEN end.row - 1 ELSE end.row,
                            unindent)
             [] ~Active(range) /\ unindent -> EditLines(cursor.row, cursor.row, TRUE)
             [] OTHER ->
                  LET cell == ScalarToCell(LineAt(lines, cursor.row), cursor.col)
                  IN  ReplaceText(cursor, cursor, Spaces(TabSize - (cell % TabSize)))
  /\ EditEnds

\* delete_grapheme and delete_to.
DeletedTo(target) ==
  IF Active(range) THEN ReplaceText(First(range), Second(range), <<>>)
  ELSE IF Before(target, cursor) THEN ReplaceText(target, cursor, <<>>)
  ELSE ReplaceText(cursor, target, <<>>)
DeleteTo ==
  /\ \E motion \in {"left", "right", "wordleft", "wordright"} : DeletedTo(Target(motion))
  /\ EditEnds

Cut ==
  /\ Active(range)
  /\ clipboard' = Chosen(range) /\ ReplaceText(First(range), Second(range), <<>>)
  /\ EndCutLineChain

CutLineAlways ==
  LET row == cursor.row
      end == IF row < FinalRow(lines) THEN Spot(row + 1, 0) ELSE Spot(row, Len(LineAt(lines, row)))
      text == Selected(lines, Spot(row, 0), end)
  IN  /\ ~Active(range)
      /\ clipboard' = text
      /\ ReplaceText(Spot(row, 0), end, <<>>)
      /\ cutting' = TRUE /\ cutFrom' = IF cutting THEN cutFrom ELSE lines

\* cut_line: what consecutive cuts take is kept together.
CutLine ==
  LET row == cursor.row
      end == IF row < FinalRow(lines) THEN Spot(row + 1, 0) ELSE Spot(row, Len(LineAt(lines, row)))
      text == Selected(lines, Spot(row, 0), end)
  IN  /\ ~Active(range) /\ text # <<>>
      /\ clipboard' = (IF cutting THEN clipboard ELSE <<>>) \o text
      /\ ReplaceText(Spot(row, 0), end, <<>>)
      /\ cutting' = TRUE /\ cutFrom' = IF cutting THEN cutFrom ELSE lines

\* paste_internal and handle_external_paste.
Paste ==
  /\ \E text \in Pasted \cup {clipboard} :
       text # <<>> /\ ReplaceText(SelectedOrCursor.from, SelectedOrCursor.to, text)
  /\ EditEnds

EditNext ==
  \/ /\ \/ Move \/ SelectAll \/ Copy \/ ToggleOverwrite
        \/ TypeChar \/ BreakLine \/ HandleTab \/ DeleteTo \/ Cut \/ CutLine \/ Paste
     /\ UNCHANGED pointed
  \/ Click \/ DoubleClick \/ Drag \/ Release

EditSpec == EditInit /\ [][EditNext]_editVars

-----------------------------------------------------------------------------
(* Properties. *)

\* Whatever keys were pressed, and whatever combined under the cursor meanwhile, the
\* cursor and both ends of the selection are between two graphemes of the text that is
\* there now, and the selection ends at the cursor.
KeysKeepGraphemes ==
  ~pointed => /\ AtGrapheme(cursor) /\ AtGrapheme(range.anchor)
              /\ Active(range) => range.focus = cursor

\* Lines cut one after the other come back with one paste.
CutLinesReturn ==
  cutting => Replaced(lines, cursor, cursor, clipboard) = cutFrom
=============================================================================
