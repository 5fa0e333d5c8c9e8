------------------------------ MODULE CellIndex ------------------------------
(***************************************************************************)
(* The index that turns a position of a long document into a cell of its   *)
(* line without laying out the line: blocks of whole graphemes with what   *)
(* they measure from every tab phase (buffer/cell_index.rs), built from    *)
(* the chunks of a file and repaired around every edit.                    *)
(*                                                                         *)
(* Positions count scalars, for bytes.  The balanced tree of the blocks is *)
(* abstracted to their sequence (LineIndex has one).                       *)
(***************************************************************************)
EXTENDS Graphemes

CONSTANTS
  CellFiles,     \* what is read from a file
  CellInserts,   \* what an edit inserts
  MaxCellText,   \* bound: the scalars of a document
  CellBlock      \* BLOCK_BYTES

ASSUME CellAssumption == CellBlock \in Nat /\ CellBlock > 2

VARIABLES
  unread,    \* the file that is read
  cellText,  \* the text of the index so far
  builder,   \* CellIndexBuilder, or NoBuilder
  cells,     \* the blocks of the index
  repair,    \* the splice that is prepared: a set of at most one
  cellError  \* CellIndex::error

cellVars == <<unread, cellText, builder, cells, repair, cellError>>

-----------------------------------------------------------------------------
(* Measure: the cells a text takes, or ends at if it has a newline. *)

EachPhase(f(_)) ==
  FoldLeft(LAMBDA done, p : Append(done, f(p)), <<>>, [p \in 1..TabWidth |-> p - 1])
NoMeasure == [cells |-> EachPhase(LAMBDA p : 0), resets |-> FALSE]

From(m, phase) == m.cells[phase + 1]
CellAfter(m, cell) ==
  IF m.resets THEN From(m, cell % TabWidth) ELSE cell + From(m, cell % TabWidth)
Followed(m, other) ==
  LET resets == m.resets \/ other.resets
      End(p) == CellAfter(other, CellAfter(m, p))
  IN  [resets |-> resets, cells |-> EachPhase(LAMBDA p : IF resets THEN End(p) ELSE End(p) - p)]
Widened(m, by) == [m EXCEPT !.cells = EachPhase(LAMBDA p : From(m, p) + by)]

GraphemeMeasure(m, text) ==
  CASE text = <<"n">> -> [NoMeasure EXCEPT !.resets = TRUE]
    [] text = <<"t">> -> Followed(m, [NoMeasure EXCEPT !.cells = EachPhase(LAMBDA p : GraphemeWidth(text, p))])
    [] OTHER -> Widened(m, GraphemeWidth(text, 0))

-----------------------------------------------------------------------------
(* CellIndexBuilder. *)

NoBlock == [len |-> 0, last |-> 0, ascii |-> FALSE, measure |-> NoMeasure]
AsciiBlock(n) == [len |-> n, last |-> 1, ascii |-> TRUE, measure |-> Widened(NoMeasure, n)]

NoBuilder == [blocks |-> <<>>, block |-> NoBlock, pending |-> <<>>, cr |-> FALSE]

IsAscii(text) == Range(text) \cap {"c", "p", "R", "W"} = {}
IsPlain(text) == IsAscii(text) /\ Range(text) \cap {"t", "r", "n"} = {}

FlushBlock(b) ==
  IF b.block.len = 0 THEN b
  ELSE [b EXCEPT !.blocks = Append(@, b.block), !.block = NoBlock]

\* push_ascii: what is left of the room of a block that is not plain, then a
\* plain block of any length.
PushAscii(b, n) ==
  LET mixed == b.block.len # 0 /\ ~b.block.ascii
      take == IF mixed /\ b.block.len < CellBlock THEN Min({n, CellBlock - b.block.len}) ELSE 0
      filled == IF take = 0 THEN b
                ELSE [b EXCEPT !.block = [len |-> @.len + take, last |-> 1, ascii |-> FALSE,
                                          measure |-> Widened(@.measure, take)]]
      flushed == IF mixed THEN FlushBlock(filled) ELSE filled
  IN  IF n = take THEN filled
      ELSE [flushed EXCEPT !.block = AsciiBlock(@.len + n - take)]

PushGrapheme(b, text) ==
  LET room == IF b.block.len >= CellBlock THEN FlushBlock(b) ELSE b
  IN  IF Len(text) = 1 /\ IsPlain(text) THEN PushAscii(b, 1)
      ELSE [room EXCEPT !.block = [len |-> @.len + Len(text), last |-> Len(text), ascii |-> FALSE,
                                   measure |-> GraphemeMeasure(@.measure, text)]]

\* push_complete_text: run by run, up to the grapheme that fills a block.
RECURSIVE PushComplete(_, _)
PushComplete(b, text) ==
  LET room == IF b.block.len >= CellBlock THEN FlushBlock(b) ELSE b
      target == Min({CellBlock - room.block.len, Len(text)})
      run == Prefix(text, GraphemeEnd(text, target))
      measure == FoldLeft(LAMBDA m, g : GraphemeMeasure(m, Slice(run, g.from, g.to)),
                          room.block.measure, Graphemes(run))
  IN  IF text = <<>> THEN b
      ELSE PushComplete([room EXCEPT !.block = [len |-> @.len + Len(run),
                                                last |-> Len(run) - LastStart(run),
                                                ascii |-> FALSE, measure |-> measure]],
                        Slice(text, Len(run), Len(text)))

FlushPending(b) ==
  IF b.pending = <<>> THEN b ELSE PushGrapheme([b EXCEPT !.pending = <<>>], b.pending)

\* push_segment: the last grapheme may go on and stays pending.
PushGraphemes(b, text) ==
  LET batch == Len(b.pending) < CellBlock /\ Len(text) >= CellBlock
      all == b.pending \o text
      end == LastStart(all)
      complete == Prefix(all, end)
      taken == [b EXCEPT !.pending = <<>>]
  IN  IF text = <<>> THEN b
      ELSE [(IF batch /\ end > 0 THEN PushComplete(taken, complete)
             ELSE FoldLeft(LAMBDA u, g : PushGrapheme(u, Slice(all, g.from, g.to)),
                           taken, Graphemes(complete)))
              EXCEPT !.pending = Slice(all, end, Len(all))]

\* push_plain_ascii: only the ends can combine.
PushPlain(b, text) ==
  PushGraphemes(PushAscii(FlushPending(PushGraphemes(b, Prefix(text, 2))), Len(text) - 3),
                <<Last(text)>>)

PushSegment(b, text) ==
  IF Len(text) > 2 /\ IsPlain(text) THEN PushPlain(b, text) ELSE PushGraphemes(b, text)

\* push: line by line.
LinesOf(text) ==
  LET ends == SetToSortSeq({i \in DOMAIN text : text[i] = "n"}, <)
  IN  [k \in 1..(Len(ends) + 1) |->
         Slice(text, IF k = 1 THEN 0 ELSE ends[k - 1],
                     IF k = Len(ends) + 1 THEN Len(text) ELSE ends[k] - 1)]
LineEnded(b) == PushGrapheme(FlushPending(b), <<"n">>)
PushLines(b, lines) ==
  FoldLeft(LAMBDA u, k : PushSegment(IF k = 1 THEN u ELSE LineEnded(u), lines[k]),
           b, [k \in DOMAIN lines |-> k])
PushText(b, text) == PushLines(b, LinesOf(text))

\* push_file_text: a return before a newline is left out, a last one waits.
FilePieces(text, cr) ==
  LET Elided(i) == text[i] = "r" /\ (i = Len(text) \/ text[i + 1] = "n")
      returns == SetToSortSeq({i \in DOMAIN text : text[i] = "r"}, <)
      Piece(k) == Slice(text, IF k = 1 THEN 0 ELSE returns[k - 1],
                        IF k > Len(returns) THEN Len(text) ELSE returns[k] - 1)
      Return(kept) == IF kept THEN << <<"r">> >> ELSE <<>>
  IN  Return(cr /\ text # <<>> /\ Head(text) # "n")
      \o FlattenSeq([k \in 1..(Len(returns) + 1) |->
                       <<Piece(k)>> \o Return(k <= Len(returns) /\ ~Elided(returns[k]))])
PushFileText(b, text) ==
  [FoldLeft(PushText, b, FilePieces(text, b.cr)) EXCEPT !.cr = text # <<>> /\ Last(text) = "r"]

FinishBlocks(b) ==
  FlushBlock(FlushPending(IF b.cr THEN PushText(b, <<"r">>) ELSE b)).blocks

LastGraphemeLen(b) == IF b.pending = <<>> THEN b.block.last ELSE Len(b.pending)

-----------------------------------------------------------------------------
(* CellIndex: its blocks one after the other. *)

Length(blocks) == FoldLeft(LAMBDA n, b : n + b.len, 0, blocks)

\* concat: plain blocks that meet become one.
Concat(left, right) ==
  IF left # <<>> /\ right # <<>> /\ Last(left).ascii /\ Head(right).ascii
  THEN Front(left) \o <<AsciiBlock(Last(left).len + Head(right).len)>> \o Tail(right)
  ELSE left \o right

BlocksFrom(list) == FoldLeft(LAMBDA blocks, b : Concat(blocks, <<b>>), <<>>, list)

\* locate: the block a position is in.
Located(at) == {k \in DOMAIN cells : LET from == Length(Prefix(cells, k - 1))
                                     IN  at >= from /\ at < from + cells[k].len}
BlockAt(at) ==
  LET k == CHOOSE i \in Located(at) : TRUE
  IN  [from |-> Length(Prefix(cells, k - 1)), block |-> cells[k]]

\* split: only plain blocks are cut.
CutAt(at) ==
  LET k == Min({i \in 0..Len(cells) : Length(Prefix(cells, i)) >= at})
      local == at - Length(Prefix(cells, k - 1))
      whole == Length(Prefix(cells, k)) = at
  IN  [left  |-> IF whole THEN Prefix(cells, k)
                 ELSE Append(Prefix(cells, k - 1), AsciiBlock(local)),
       right |-> IF whole THEN Slice(cells, k, Len(cells))
                 ELSE <<AsciiBlock(cells[k].len - local)>> \o Slice(cells, k, Len(cells))]

\* prepare_splice: an edit is repaired from the block before it, or from the
\* plain scalar before it, to the end of the block behind it.
RepairFrom(from) ==
  IF from = 0 THEN 0
  ELSE LET at == BlockAt(from - 1) IN IF at.block.ascii THEN from - 1 ELSE at.from

Prepared(from, to, inserted) ==
  LET start == RepairFrom(from)
      here == BlockAt(to)
      plain == here.block.ascii
  IN  [start |-> start, from |-> from, to |-> to, inserted |-> FlattenSeq(inserted),
       builder |-> FoldLeft(PushText, NoBuilder, <<Slice(cellText, start, from)>> \o inserted),
       suffix |-> to,
       end |-> IF Located(to) = {} THEN Len(cellText)
               ELSE IF plain THEN to + 1 ELSE here.from + here.block.len,
       last |-> IF Located(to) = {} THEN 0 ELSE here.block.last]

Pushed(r) ==
  [r EXCEPT !.builder = IF r.suffix < r.end THEN PushText(@, Slice(cellText, r.suffix, r.end)) ELSE @]

\* The first block behind the edit is enough.
AgreesAtOnce(r) == r.end = Len(cellText) \/ r.last <= r.end - r.to

\* Until the last grapheme is the one the last block ended with.
Agrees(r) ==
  \/ r.end = Len(cellText)
  \/ LastGraphemeLen(r.builder) = r.last /\ r.last <= r.end - r.to

Extended(r) ==
  LET here == BlockAt(r.end)
  IN  [r EXCEPT !.suffix = r.end, !.last = here.block.last,
                !.end = here.from + (IF here.block.ascii THEN 1 ELSE here.block.len)]

AppliedSplice(r) ==
  Concat(Concat(CutAt(r.start).left, BlocksFrom(FinishBlocks(r.builder))), CutAt(r.end).right)

-----------------------------------------------------------------------------
(* Queries. *)

\* In a block's text that begins at a cell.
CellWithin(text, at, cell) ==
  LET line == Max({0} \cup {i \in 1..at : text[i] = "n"})
      lineEnd == Min({i - 1 : i \in {j \in DOMAIN text : text[j] = "n" /\ j > line}} \cup {Len(text)})
      first == IF line = 0 THEN cell ELSE 0
  IN  CellsEnd(SelectSeq(LaidOut(Slice(text, line, lineEnd), first), LAMBDA g : line + g.to <= at),
               first)

CellAt(at) ==
  LET before == {k \in DOMAIN cells : Length(Prefix(cells, k)) <= at}
      cell == FoldLeft(LAMBDA c, k : CellAfter(cells[k].measure, c), 0, SetToSortSeq(before, <))
      here == BlockAt(at)
  IN  CASE at = Len(cellText) -> cell
        [] at < Len(cellText) /\ here.block.ascii -> cell + at - here.from
        [] OTHER -> CellWithin(Slice(cellText, here.from, here.from + here.block.len),
                               at - here.from, cell)

\* indexed_grapheme_range and grapheme_scalar_range_at, in the document.
GraphemeRangeAt(at, lineEnd) ==
  LET here == BlockAt(at)
      text == Slice(cellText, here.from, here.from + here.block.len)
      start == GraphemeStart(text, at - here.from)
  IN  CASE at = lineEnd -> <<at, at>>
        [] at < lineEnd /\ here.block.ascii -> <<at, at + 1>>
        [] OTHER -> <<here.from + start,
                      Min({here.from + GraphemeEnd(text, at - here.from), lineEnd})>>

-----------------------------------------------------------------------------
(* Steps. *)

CellsInit ==
  /\ unread \in CellFiles /\ cellText = <<>> /\ builder = NoBuilder /\ cells = <<>>
  /\ repair = {} /\ cellError = FALSE

Loading == unread # <<>>

\* A chunk of the file.
FeedFile ==
  /\ Loading
  /\ \E n \in {1, 2, 5, Len(unread)} :
       LET chunk == Prefix(unread, Min({n, Len(unread)}))
       IN  /\ unread' = Slice(unread, Len(chunk), Len(unread))
           /\ cellText' = cellText \o chunk
           /\ builder' = PushFileText(builder, chunk) /\ cells' = <<>>
  /\ UNCHANGED <<repair, cellError>>

Elided(text) ==
  FlattenSeq([i \in DOMAIN text |->
                IF text[i] = "r" /\ i < Len(text) /\ text[i + 1] = "n" THEN <<>> ELSE <<text[i]>>])

FinishLoad ==
  /\ ~Loading /\ builder # NoBuilder
  /\ cells' = BlocksFrom(FinishBlocks(builder)) /\ cellText' = Elided(cellText)
  /\ builder' = NoBuilder /\ UNCHANGED <<unread, repair, cellError>>

Still == ~Loading /\ builder = NoBuilder /\ repair = {} /\ ~cellError

\* insert_at_cursor, insert_pieces_at and delete_byte_range: what is inserted
\* comes in one piece or in two.
SpliceCells ==
  /\ Still
  /\ \E from, to \in 0..Len(cellText), inserted \in CellInserts \cup {<<>>} :
       /\ from <= to /\ (from = to \/ inserted = <<>>) /\ (from < to \/ inserted # <<>>)
       /\ Len(cellText) + Len(inserted) <= MaxCellText
       /\ \E cut \in 0..(Len(inserted) - 1) \cup {0} :
            repair' = {Prepared(from, to,
                         SelectSeq(<<Prefix(inserted, cut), Slice(inserted, cut, Len(inserted))>>,
                                   LAMBDA piece : piece # <<>>))}
  /\ UNCHANGED <<unread, cellText, builder, cells, cellError>>

\* One more block is read; then apply_splice.
RepairStep ==
  /\ \E r \in {Pushed(prepared) : prepared \in repair} :
       IF Agrees(r)
       THEN /\ repair' = {} /\ cells' = AppliedSplice(r)
            /\ cellText' = Prefix(cellText, r.from) \o r.inserted
                             \o Slice(cellText, r.to, Len(cellText))
       ELSE repair' = {Extended(r)} /\ UNCHANGED <<cells, cellText>>
  /\ UNCHANGED <<unread, builder, cellError>>

\* The text around the edit cannot be read: the index is not used again.
RepairFails ==
  /\ repair # {} /\ repair' = {}
  /\ cellError' = TRUE /\ cells' = <<>> /\ cellText' = <<>> /\ UNCHANGED <<unread, builder>>

CellsNext == FeedFile \/ FinishLoad \/ SpliceCells \/ RepairStep \/ RepairFails

CellsSpec == CellsInit /\ [][CellsNext]_cellVars

-----------------------------------------------------------------------------
(* Properties. *)

LineFrom(at) == Max({0} \cup {i \in 1..at : cellText[i] = "n"})
LineTo(at) == Min({i - 1 : i \in {j \in DOMAIN cellText : cellText[j] = "n" /\ j > at}}
                    \cup {Len(cellText)})

\* However the file was cut into chunks and whatever was edited since, the
\* blocks hold whole graphemes, measure what their text takes from every tab
\* phase, and give each position the cell and the grapheme that laying out its
\* whole line gives.
CellsAreExact ==
  Still =>
    /\ Length(cells) = Len(cellText)
    /\ \A k \in DOMAIN cells :
         /\ cells[k].len > 0
         /\ cells[k].ascii /\ k < Len(cells) => ~cells[k + 1].ascii
    /\ \A at \in 0..Len(cellText) :
         LET from == LineFrom(at)
             line == Slice(cellText, from, LineTo(at))
             grapheme == CHOOSE g \in Range(Graphemes(line)) :
                           g.from <= at - from /\ g.to > at - from
         IN  /\ CellAt(at) = ScalarToCell(line, at - from)
             /\ GraphemeRangeAt(at, LineTo(at))
                  = IF at = LineTo(at) THEN <<at, at>>
                    ELSE <<from + grapheme.from, from + grapheme.to>>

\* "Edits repair complete boundary blocks, extending through an affected
\* grapheme or regional-indicator run until the unchanged suffix segmentation
\* agrees" (buffer/cell_index.rs:4): every round of a repair reads on.  One that
\* reads nothing finds the disagreement of the round before, and so on for ever.
RepairsReadOn == \A r \in repair : r.suffix < r.end \/ r.end = Len(cellText)
=============================================================================
