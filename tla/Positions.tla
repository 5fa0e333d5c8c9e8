----------------------------- MODULE Positions -----------------------------
(***************************************************************************)
(* Texts and the positions in them.  A text is a sequence of lines; a      *)
(* position is a row and a column, both from zero, and a column counts     *)
(* scalars.                                                                *)
(***************************************************************************)
EXTENDS Graphemes

Spot(row, col) == [row |-> row, col |-> col]
LineAt(text, row) == text[row + 1]
FinalRow(text) == Len(text) - 1
Suffix(line, from) == Slice(line, from, Len(line))
Before(a, b) == a.row < b.row \/ (a.row = b.row /\ a.col <= b.col)

\* grapheme_range.
GraphemeRange(line, col) ==
  IF col >= Len(line) THEN [from |-> Len(line), to |-> Len(line)]
  ELSE [from |-> GraphemeStart(line, col), to |-> GraphemeEnd(line, col)]

Snapped(text, at) == Spot(at.row, GraphemeRange(LineAt(text, at.row), at.col).from)
SnappedForward(text, at) ==
  LET r == GraphemeRange(LineAt(text, at.row), at.col)
  IN  Spot(at.row, IF r.from = at.col THEN at.col ELSE r.to)
=============================================================================
