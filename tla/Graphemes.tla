------------------------------ MODULE Graphemes ------------------------------
(***************************************************************************)
(* Graphemes and terminal cells: editor/text_layout.rs and the boundaries  *)
(* of the unicode-segmentation library it uses.                            *)
(*                                                                         *)
(* A line is a sequence of scalars.  "x" and the space "s" take one cell,  *)
(* "W" takes two, the tab "t" reaches the next stop, "c" combines with     *)
(* what it follows, "p" with what follows it, two regional indicators "R"  *)
(* are one flag, and the control "r" is shown as a symbol.  "n" ends a     *)
(* line.                                                                   *)
(***************************************************************************)
EXTENDS Naturals, Sequences, SequencesExt, FiniteSetsExt, Functions

CONSTANT TabWidth   \* TAB_WIDTH

ASSUME TabAssumption == TabWidth \in Nat \ {0}

-----------------------------------------------------------------------------
(* Graphemes. *)

Prefix(line, n) == SubSeq(line, 1, n)
Slice(line, from, to) == SubSeq(line, from + 1, to)

Lower(a, b) == IF a <= b THEN a ELSE b
Less(a, b) == IF a >= b THEN a - b ELSE 0

\* The scalar after position `at` extends what is before it.
Flags(line, at) ==
  Cardinality({i \in 1..at : \A j \in i..at : line[j] = "R"})
Joined(line, at) ==
  \/ line[at + 1] = "c" /\ line[at] \notin {"t", "n", "r"}
  \/ line[at] = "p" /\ line[at + 1] \notin {"t", "n", "r"}
  \/ line[at] = "R" /\ line[at + 1] = "R" /\ Flags(line, at) % 2 = 1
  \/ line[at] = "r" /\ line[at + 1] = "n"
Starts(line) == {at \in 0..(Len(line) - 1) : at = 0 \/ ~Joined(line, at)}
GraphemeEnd(line, from) == Min({at \in Starts(line) : at > from} \cup {Len(line)})
GraphemeStart(line, at) == Max({from \in Starts(line) : from <= at})
LastStart(line) == Max({0} \cup Starts(line))

\* graphemes(true): the ranges from, to of a line.
StartsInOrder(line) ==
  LET found[k \in 0..Len(line)] ==
        IF k = 0 THEN <<>>
        ELSE IF k = 1 \/ ~Joined(line, k - 1) THEN Append(found[k - 1], k - 1) ELSE found[k - 1]
  IN  found[Len(line)]
Ranges(starts, length) ==
  [k \in DOMAIN starts |->
     [from |-> starts[k], to |-> IF k = Len(starts) THEN length ELSE starts[k + 1]]]
Graphemes(line) == Ranges(StartsInOrder(line), Len(line))

-----------------------------------------------------------------------------
(* Widths. *)

ScalarWidth(scalar) == CASE scalar = "W" -> 2 [] scalar = "c" -> 0 [] OTHER -> 1
GraphemeWidth(text, cell) ==
  IF text = <<"t">> THEN TabWidth - (cell % TabWidth)
  ELSE Cardinality({k \in (DOMAIN text) \X {1, 2} : k[2] <= ScalarWidth(text[k[1]])})

CellsEnd(placed, initial) == IF placed = <<>> THEN initial ELSE Last(placed).cellEnd

\* Where each grapheme of a line begins and ends, in cells.
GraphemePlaced(placed, g, from, text) ==
  Append(placed, [from |-> g.from, to |-> g.to, cell |-> from,
                  cellEnd |-> from + GraphemeWidth(text, from)])
LaidOut(line, initial) ==
  LET gs == Graphemes(line)
      placed[k \in 0..Len(gs)] ==
        IF k = 0 THEN <<>>
        ELSE GraphemePlaced(placed[k - 1], gs[k], CellsEnd(placed[k - 1], initial),
                     Slice(line, gs[k].from, gs[k].to))
  IN  placed[Len(gs)]

\* scalar_to_cell and scalar_at_cell.
ScalarToCell(line, col) ==
  Max({0} \cup {g.cellEnd : g \in {h \in Range(LaidOut(line, 0)) : h.to <= col}})
ScalarAtCell(line, cell) ==
  Max({0} \cup {g.to : g \in {h \in Range(LaidOut(line, 0)) : h.cellEnd <= cell}})

-----------------------------------------------------------------------------
(* Columns at graphemes. *)

CeilToGraphemeCol(line, col) ==
  IF col >= Len(line) \/ col \in Starts(line) THEN Lower(col, Len(line)) ELSE GraphemeEnd(line, col)
ContinuesGrapheme(previous, scalar) ==
  previous # <<>> /\ Len(Graphemes(Append(previous, scalar))) = Len(Graphemes(previous))

-----------------------------------------------------------------------------
(* VisibleLineLayout::build_internal: the graphemes a row has room for.    *)
(* A wrapped row takes at least one, and breaks after white space.         *)

IsSpace(text) == Range(text) \subseteq {"s", "t", "r"}

Taken(line, placed, fitting, wrapped) ==
  LET Space(g) == IsSpace(Slice(line, g.from, g.to))
      Wrapped(spaces) == IF spaces = {} \/ Space(placed[fitting + 1]) THEN fitting ELSE Max(spaces)
  IN  CASE fitting = Len(placed) \/ ~wrapped -> fitting
        [] wrapped /\ fitting = 0 /\ placed # <<>> -> 1
        [] OTHER -> Wrapped({k \in 1..fitting : Space(placed[k])})

TakenRow(placed, taken) ==
  [graphemes |-> SubSeq(placed, 1, taken),
   source    |-> IF taken = 0 THEN 0 ELSE placed[taken].to]

FittedRow(line, placed, room, wrapped) ==
  TakenRow(placed, Taken(line, placed, Cardinality({k \in DOMAIN placed : placed[k].cellEnd <= room}), wrapped))
Row(line, room, wrapped) == FittedRow(line, LaidOut(line, 0), room, wrapped)
=============================================================================
