------------------------------ MODULE LineIndex ------------------------------
(***************************************************************************)
(* What the editor keeps so that a row, a byte and a column can be turned  *)
(* into each other: the metadata of a scanned page (FileOriginal), the     *)
(* treap of line blocks an edited document has instead                     *)
(* (buffer/line_index.rs), and the scalar checkpoints of the add buffer    *)
(* (buffer/piece_table/scalar_index.rs).                                   *)
(*                                                                         *)
(* A run follows one subject: a page, from its scan through its first edit *)
(* to a document with a treap; an add buffer; or the tree of the pieces    *)
(* (PieceTree).                                                            *)
(***************************************************************************)
EXTENDS FileOriginal, PieceTree, Integers

CONSTANTS
  ScannedPages,  \* <<file, lines of a page>> that are scanned
  Reads,         \* the lengths a read can return
  Inserted,      \* what is typed, pasted or put back
  Added,         \* what is appended to the add buffer
  MaxText,       \* bound: the bytes of an edited document
  BlockLines,    \* TARGET_BLOCK_LINES
  Priorities,    \* the outputs of next_priority, repeated
  ScalarStep,    \* SCALAR_CHECKPOINT_INTERVAL
  MaxAdd         \* bound: the bytes of an add buffer

ASSUME LineIndexAssumption ==
  BlockLines \in Nat \ {0} /\ ScalarStep \in Nat \ {0} /\ Priorities # <<>>

VARIABLES
  subject,    \* "scan", "page", "panic", "lines", "add" or "pieces"
  fileBytes,  \* the bytes of the file
  scan,       \* PageScanState, also when the page is shown
  document,   \* the document, or the add buffer
  root,       \* LineIndex::root
  drawn,      \* LineIndex::priority_state: the priorities drawn
  scalars     \* ScalarIndex

lineVars == <<subject, fileBytes, scan, document, root, drawn, scalars>>
indexVars == <<lineVars, treeVars>>

-----------------------------------------------------------------------------
(* The treap: blocks of line spans, the sums of every subtree cached. *)

Total(spans) == FoldLeft(LAMBDA a, b : a + b, 0, spans)
Nil == [lines |-> 0, bytes |-> 0, blocks |-> 0]

Block(spans) == [spans |-> spans, total |-> Total(spans)]
NewNode(spans, priority) ==
  [block |-> Block(spans), priority |-> priority, left |-> Nil, right |-> Nil,
   lines |-> Len(spans), bytes |-> Total(spans), blocks |-> 1]
Priority(k) == Priorities[(k % Len(Priorities)) + 1]

Recalculated(node) ==
  [node EXCEPT !.lines = node.left.lines + Len(node.block.spans) + node.right.lines,
               !.bytes = node.left.bytes + node.block.total + node.right.bytes,
               !.blocks = node.left.blocks + 1 + node.right.blocks]

RECURSIVE Merge(_, _)
Merge(left, right) ==
  CASE left = Nil -> right
    [] right = Nil -> left
    [] left.priority >= right.priority ->
         Recalculated([left EXCEPT !.right = Merge(@, right)])
    [] OTHER -> Recalculated([right EXCEPT !.left = Merge(left, @)])

\* A node whose block is cut in two: its subtrees around two new nodes.
CutBlock(node, at, d) ==
  [left |-> Merge(node.left, NewNode(Upto(node.block.spans, at), Priority(d))),
   right |-> Merge(NewNode(Within(node.block.spans, at, Len(node.block.spans)), Priority(d + 1)), node.right),
   drawn |-> d + 2]

RECURSIVE SplitAtRow(_, _, _)
SplitAtRow(node, row, d) ==
  LET start == node.left.lines
      end == start + Len(node.block.spans)
      inner == IF row < start THEN SplitAtRow(node.left, row, d)
               ELSE SplitAtRow(node.right, row - end, d)
  IN  CASE node = Nil -> [left |-> Nil, right |-> Nil, drawn |-> d]
        [] node # Nil /\ row < start ->
             [inner EXCEPT !.right = Recalculated([node EXCEPT !.left = inner.right])]
        [] node # Nil /\ row > end ->
             [inner EXCEPT !.left = Recalculated([node EXCEPT !.right = inner.left])]
        [] node # Nil /\ row = start ->
             [left |-> node.left, right |-> Recalculated([node EXCEPT !.left = Nil]), drawn |-> d]
        [] node # Nil /\ row = end ->
             [left |-> Recalculated([node EXCEPT !.right = Nil]), right |-> node.right, drawn |-> d]
        [] OTHER -> CutBlock(node, row - start, d)

\* from_spans and build_tree_from_spans.
Chunks(spans) == (Len(spans) + BlockLines - 1) \div BlockLines
BuildTree(spans, d) ==
  LET Chunk(k) == Within(spans, (k - 1) * BlockLines, Min({k * BlockLines, Len(spans)}))
  IN  FoldLeft(LAMBDA tree, k : Merge(tree, NewNode(Chunk(k), Priority(d + k - 1))),
               Nil, [k \in 1..Chunks(spans) |-> k])

RECURSIVE SetOneSpan(_, _, _)
SetOneSpan(node, row, span) ==
  LET start == node.left.lines
      end == start + Len(node.block.spans)
      local == row - start + 1
  IN  CASE node = Nil -> Nil
        [] node # Nil /\ row < start ->
             Recalculated([node EXCEPT !.left = SetOneSpan(@, row, span)])
        [] node # Nil /\ row >= end ->
             Recalculated([node EXCEPT !.right = SetOneSpan(@, row - end, span)])
        [] OTHER ->
             Recalculated([node EXCEPT !.block.spans[local] = span,
                                       !.block.total = @ - node.block.spans[local] + span])

RECURSIVE ReplaceOneSpan(_, _, _, _)
ReplaceOneSpan(node, row, spans, d) ==
  LET start == node.left.lines
      end == start + Len(node.block.spans)
      inner == IF row < start THEN ReplaceOneSpan(node.left, row, spans, d)
               ELSE ReplaceOneSpan(node.right, row - end, spans, d)
      old == node.block.spans
      full == [node EXCEPT !.block =
                 Block(Upto(old, row - start) \o spans \o Within(old, row - start + 1, Len(old)))]
      cut == CutBlock(full, BlockLines, d)
  IN  CASE node = Nil -> [root |-> Nil, drawn |-> d]
        [] node # Nil /\ row < start ->
             [root |-> Recalculated([node EXCEPT !.left = inner.root]), drawn |-> inner.drawn]
        [] node # Nil /\ row >= end ->
             [root |-> Recalculated([node EXCEPT !.right = inner.root]), drawn |-> inner.drawn]
        [] node # Nil /\ row \in start..(end - 1) /\ Len(full.block.spans) <= 2 * BlockLines ->
             [root |-> Recalculated(full), drawn |-> d]
        [] OTHER -> [root |-> Merge(cut.left, cut.right), drawn |-> cut.drawn]

RECURSIVE RemoveOneSpan(_, _)
RemoveOneSpan(node, row) ==
  LET start == node.left.lines
      end == start + Len(node.block.spans)
      local == row - start + 1
      rest == [node EXCEPT !.block.spans = RemoveAt(@, local),
                           !.block.total = @ - node.block.spans[local]]
  IN  CASE node = Nil -> Nil
        [] node # Nil /\ row < start -> Recalculated([node EXCEPT !.left = RemoveOneSpan(@, row)])
        [] node # Nil /\ row >= end ->
             Recalculated([node EXCEPT !.right = RemoveOneSpan(@, row - end)])
        [] node # Nil /\ row \in start..(end - 1) /\ Len(node.block.spans) = 1 ->
             Merge(node.left, node.right)
        [] OTHER -> Recalculated(rest)

-----------------------------------------------------------------------------
(* Queries. *)

TreeLines(tree) == Max({1, tree.lines})

RECURSIVE LocateRow(_, _, _)
LocateRow(node, row, before) ==
  LET start == node.left.lines
      end == start + Len(node.block.spans)
  IN  CASE row < start -> LocateRow(node.left, row, before)
        [] row >= end -> LocateRow(node.right, row - end,
                                   before + node.left.bytes + node.block.total)
        [] OTHER -> [spans |-> node.block.spans, local |-> row - start,
                     before |-> before + node.left.bytes]

LineSpan(tree, row) == LET at == LocateRow(tree, row, 0) IN at.spans[at.local + 1]
LineStartByte(tree, row) ==
  LET at == LocateRow(tree, row, 0) IN at.before + Total(Upto(at.spans, at.local))
LineEndByte(tree, row) ==
  LineStartByte(tree, row) + LineSpan(tree, row) - (IF row + 1 < TreeLines(tree) THEN 1 ELSE 0)

RECURSIVE RowFrom(_, _, _)
RowFrom(node, byte, rows) ==
  LET start == node.left.bytes
      end == start + node.block.total
      reaching == {k \in DOMAIN node.block.spans :
                     byte < start + Total(Upto(node.block.spans, k))}
  IN  CASE byte < start -> RowFrom(node.left, byte, rows)
        [] byte >= end -> RowFrom(node.right, byte - end,
                                  rows + node.left.lines + Len(node.block.spans))
        [] OTHER -> rows + node.left.lines + Min(reaching) - 1

RowForByte(tree, byte) ==
  IF TreeLines(tree) <= 1 \/ byte >= tree.bytes THEN TreeLines(tree) - 1
  ELSE RowFrom(tree, byte, 0)

-----------------------------------------------------------------------------
(* Updates of an index [root, drawn]. *)

\* materialize_file_metadata, of the page that is shown.
Materialized ==
  IF subject = "lines" THEN [root |-> root, drawn |-> drawn]
  ELSE LET spans == LogicalSpans(OriginalMetadata(scan))
       IN  [root |-> BuildTree(spans, 0), drawn |-> Chunks(spans)]

InsertBytes(index, at, len) ==
  LET row == RowForByte(index.root, at)
  IN  [index EXCEPT !.root = SetOneSpan(@, row, LineSpan(@, row) + len)]

DeleteBytes(index, at, len) ==
  LET row == RowForByte(index.root, at)
      span == LineSpan(index.root, row)
  IN  IF at + len > index.root.bytes \/ len > span THEN index
      ELSE [index EXCEPT !.root = SetOneSpan(@, row, span - len)]

InsertNewline(index, at) ==
  LET row == RowForByte(index.root, at)
      local == at - LineStartByte(index.root, row)
  IN  ReplaceOneSpan(index.root, row, <<local + 1, LineSpan(index.root, row) - local>>,
                     index.drawn)

DeleteNewline(index, newline) ==
  LET row == RowForByte(index.root, newline)
      joined == LineSpan(index.root, row) - 1 + LineSpan(index.root, row + 1)
  IN  IF \/ newline >= index.root.bytes
         \/ row + 1 >= TreeLines(index.root)
         \/ LineEndByte(index.root, row) # newline
      THEN index
      ELSE [index EXCEPT !.root = RemoveOneSpan(SetOneSpan(@, row, joined), row + 1)]

\* The last line's tail goes with the first line's head.
ReplacementSpansFolded(prefix, inserted, suffix) ==
  LET lines == LastRow(inserted) + 1
      Span(k) == (IF k < lines THEN LineStart(inserted, k) ELSE Len(inserted))
                   - LineStart(inserted, k - 1)
  IN  [k \in 1..lines |-> Span(k) + (IF k = 1 THEN prefix + suffix ELSE 0)]

\* replace_byte_range: the lines the range touches become those of what is
\* inserted, between the first one's head and the last one's tail.
ReplacementSpans(prefix, inserted, suffix) ==
  LET lines == LastRow(inserted) + 1
      Span(k) == (IF k < lines THEN LineStart(inserted, k) ELSE Len(inserted))
                   - LineStart(inserted, k - 1)
  IN  [k \in 1..lines |-> Span(k) + (IF k = 1 THEN prefix ELSE 0)
                                  + (IF k = lines THEN suffix ELSE 0)]

ReplaceByteRange(index, from, to, inserted) ==
  LET tree == index.root
      first == RowForByte(tree, from)
      last == RowForByte(tree, to)
      prefix == from - LineStartByte(tree, first)
      suffix == LineSpan(tree, last) - (to - LineStartByte(tree, last))
      spans == ReplacementSpans(prefix, inserted, suffix)
      head == SplitAtRow(tree, first, index.drawn)
      tail == SplitAtRow(head.right, last - first + 1, head.drawn)
      built == BuildTree(spans, tail.drawn)
  IN  IF first = last /\ Newlines(inserted) = {}
      THEN [index EXCEPT !.root =
              SetOneSpan(tree, first, LineSpan(tree, first) - (to - from) + Len(inserted))]
      ELSE [root |-> Merge(Merge(head.left, built), tail.right),
            drawn |-> tail.drawn + Chunks(spans)]

-----------------------------------------------------------------------------
(* ScalarIndex. *)

NoScalars == [checkpoints |-> <<[scalar |-> 0, byte |-> 0]>>, len |-> 0, bytes |-> 0, ascii |-> TRUE]

ScalarEnd(bytes, at) == Boundary(bytes, at) /\ at > 0

\* append.
Appended(index, bytes) ==
  LET Step(u, at) ==
        LET next == u.len + 1
        IN  [u EXCEPT !.len = next,
                      !.checkpoints = IF next % ScalarStep # 0 THEN @
                                      ELSE Append(@, [scalar |-> next, byte |-> index.bytes + at])]
      done == FoldLeft(Step, index, SetToSortSeq({at \in DOMAIN bytes : ScalarEnd(bytes, at)}, <))
  IN  [done EXCEPT !.bytes = @ + Len(bytes), !.ascii = @ /\ Ascii(bytes)]

\* ReplacementText::analyze, for the scalars that are already there: the ASCII
\* prefix by arithmetic, the rest scalar by scalar.
CheckpointOffsets(bytes, before) ==
  LET prefix == Max({k \in 0..Len(bytes) : Ascii(Upto(bytes, k))})
      first == (before \div ScalarStep + 1) * ScalarStep
      inPrefix == {at \in 1..prefix : before + at >= first /\ (before + at - first) % ScalarStep = 0}
      after == {at \in (prefix + 1)..Len(bytes) :
                  ScalarEnd(bytes, at) /\ (before + Scalars(Upto(bytes, at))) % ScalarStep = 0}
  IN  SetToSortSeq(inPrefix \cup after, <)

\* append_precomputed.
AppendedPrecomputed(index, bytes) ==
  LET offsets == CheckpointOffsets(bytes, index.len)
      first == (index.len \div ScalarStep + 1) * ScalarStep
      new == [k \in DOMAIN offsets |->
                [scalar |-> first + (k - 1) * ScalarStep, byte |-> index.bytes + offsets[k]]]
  IN  [checkpoints |-> index.checkpoints \o new, len |-> index.len + Scalars(bytes),
       bytes |-> index.bytes + Len(bytes), ascii |-> index.ascii /\ Ascii(bytes)]

ScalarAtByte(index, bytes, byte) ==
  LET from == index.checkpoints[Cardinality({k \in DOMAIN index.checkpoints :
                                               index.checkpoints[k].byte <= byte})]
  IN  from.scalar + Scalars(Within(bytes, from.byte, byte))

ByteAtScalar(index, bytes, scalar) ==
  LET from == index.checkpoints[Cardinality({k \in DOMAIN index.checkpoints :
                                               index.checkpoints[k].scalar <= scalar})]
      ahead == {at \in from.byte..Len(bytes) :
                  Boundary(bytes, at) /\ Scalars(Within(bytes, from.byte, at)) = scalar - from.scalar}
  IN  Min(ahead)

ScalarCount(index, bytes, from, to) ==
  IF index.ascii THEN to - from
  ELSE ScalarAtByte(index, bytes, to) - ScalarAtByte(index, bytes, from)

ByteAtScalarIn(index, bytes, from, to, scalar) ==
  IF index.ascii THEN from + Min({scalar, to - from})
  ELSE ByteAtScalar(index, bytes, Min({ScalarAtByte(index, bytes, from) + scalar,
                                       ScalarAtByte(index, bytes, to)}))

-----------------------------------------------------------------------------
(* Steps. *)

NoScan == Scanning(0, 0)

StartsOf(bytes) == {0} \cup {i \in Newlines(bytes) : i < Len(bytes)}

\* The tree of another subject.
QuietTree == buffers = [Original |-> <<>>, Add |-> <<>>] /\ pieceTree = NoPieces
               /\ removed = {} /\ treeText = <<>>

IndexInit ==
  /\ document = <<>> /\ root = Nil /\ drawn = 0 /\ scalars = NoScalars
  /\ \/ \E page \in ScannedPages :
          /\ subject = "scan" /\ fileBytes = page[1]
          /\ scan \in {Scanning(start, page[2]) : start \in StartsOf(fileBytes)}
     \/ subject \in {"add", "pieces"} /\ fileBytes = <<>> /\ scan = NoScan
  /\ IF subject = "pieces" THEN TreeInit ELSE QuietTree

\* scan_utf8_page_with_reader: a read, of whatever length.
ReadPage ==
  /\ subject = "scan" /\ ~scan.complete /\ ~scan.error /\ scan.offset < Len(fileBytes)
  /\ \E n \in Reads :
       scan' = ScanChunk(scan, Within(fileBytes, scan.offset, Min({scan.offset + n, Len(fileBytes)})))
  /\ UNCHANGED <<subject, fileBytes, document, root, drawn, scalars>>

\* from_file_page_observed and from_file_scan.
OpenPage ==
  /\ subject = "scan" /\ ~scan.error /\ (scan.complete \/ scan.offset = Len(fileBytes))
  /\ scan' = FinishPage(scan)
  /\ subject' = IF Panics(scan') THEN "panic" ELSE "page"
  /\ document' = IF Panics(scan') THEN <<>> ELSE PushRange(OriginalMetadata(scan'), fileBytes, 0, OriginalMetadata(scan').len)
  /\ UNCHANGED <<fileBytes, root, drawn, scalars>>

\* The document after [from, to) is replaced.
Spliced(from, to, inserted) == Upto(document, from) \o inserted \o Within(document, to, Len(document))

Indexed(index, from, to, inserted) ==
  /\ subject' = "lines" /\ fileBytes' = <<>> /\ scan' = NoScan
  /\ document' = Spliced(from, to, inserted) /\ Len(document') <= MaxText
  /\ root' = index.root /\ drawn' = index.drawn % Len(Priorities)
  /\ UNCHANGED scalars

Editable == subject \in {"page", "lines"} /\ Len(document) <= MaxText
Boundaries == {at \in 0..Len(document) : Boundary(document, at)}

\* insert_char.
TypeScalar ==
  /\ Editable
  /\ \E at \in Boundaries, c \in Inserted :
       /\ Scalars(c) = 1 /\ Newlines(c) = {}
       /\ Indexed(InsertBytes(Materialized, at, Len(c)), at, at, c)

\* insert_newline.
TypeNewline ==
  /\ Editable
  /\ \E at \in Boundaries : Indexed(InsertNewline(Materialized, at), at, at, <<"n">>)

\* delete_previous_char and delete_next_char.
DeleteScalar ==
  /\ Editable
  /\ \E from, to \in Boundaries :
       /\ from < to /\ Scalars(Within(document, from, to)) = 1 /\ document[to] # "n"
       /\ Indexed(DeleteBytes(Materialized, from, to - from), from, to, <<>>)

\* join_with_previous_line and join_with_next_line.
JoinLines ==
  /\ Editable
  /\ \E i \in Newlines(document) : Indexed(DeleteNewline(Materialized, i - 1), i - 1, i, <<>>)

\* A replacement, and the steps of undo and redo.
ReplaceRange ==
  /\ Editable
  /\ \E from, to \in Boundaries, inserted \in Inserted \cup {<<>>} :
       /\ from <= to /\ (from < to \/ inserted # <<>>)
       /\ Indexed(ReplaceByteRange(Materialized, from, to, inserted), from, to, inserted)

\* insert_at_cursor appends a scalar, a replacement all of its text at once.
AppendToAdd(precomputed) ==
  /\ subject = "add"
  /\ \E bytes \in Added :
       /\ document' = document \o bytes /\ Len(document') <= MaxAdd
       /\ scalars' = IF precomputed THEN AppendedPrecomputed(scalars, bytes)
                     ELSE Appended(scalars, bytes)
  /\ UNCHANGED <<subject, fileBytes, scan, root, drawn>>

LineNext ==
  \/ ReadPage \/ OpenPage
  \/ TypeScalar \/ TypeNewline \/ DeleteScalar \/ JoinLines \/ ReplaceRange
  \/ AppendToAdd(TRUE) \/ AppendToAdd(FALSE)

IndexNext ==
  \/ LineNext /\ UNCHANGED treeVars
  \/ subject = "pieces" /\ TreeNext /\ UNCHANGED lineVars

IndexSpec == IndexInit /\ [][IndexNext]_indexVars

-----------------------------------------------------------------------------
(* Properties. *)

\* A line that has checkpoints before a line that ends in a return.
TrimmedAfterLong(bytes) ==
  \E i \in Newlines(bytes) :
    /\ i > 1 /\ bytes[i - 1] = "r"
    /\ \E row \in 0..(LastRow(Upto(bytes, i - 1)) - 1) :
         Scalars(Within(bytes, LineStart(bytes, row), LineEnd(bytes, row))) >= CheckpointChars

\* The lines [start, start + lines) of a file, and the text they show.
PageBytes(start, lines) ==
  LET rest == Within(fileBytes, start, Len(fileBytes))
  IN  IF LastRow(rest) < lines THEN rest ELSE Upto(rest, LineStart(rest, lines))
WithoutCr(bytes) ==
  FlattenSeq([i \in DOMAIN bytes |->
                IF bytes[i] = "r" /\ i < Len(bytes) /\ bytes[i + 1] = "n" THEN <<>>
                ELSE <<bytes[i]>>])

LinesAreThose(count, Start(_), End(_), RowAt(_), whole) ==
  /\ count = LastRow(whole) + 1
  /\ \A row \in 0..(count - 1) :
       Start(row) = LineStart(whole, row) /\ End(row) = LineEnd(whole, row)
  /\ \A at \in 0..Len(whole) :
       RowAt(at) = Cardinality({i \in Newlines(whole) : i <= at})

ColumnsAreThose(m) ==
  /\ \A row \in 0..LastRow(document) :
       LET count == Scalars(Within(document, LineStart(document, row), LineEnd(document, row)))
       IN  /\ CharCount(m, row) = count
           /\ \A col \in 0..(count + 1) :
                ByteAt(m, fileBytes, row, col) = OffsetOf(document, [row |-> row, col |-> col])
  /\ \A at \in Boundaries :
       LET cursor == CursorAt(document, at) IN ColAt(m, fileBytes, cursor.row, at) = cursor.col

ReadsAreThose(m) ==
  \A from, to \in Boundaries :
    from <= to =>
      LET part == Within(document, from, to)
      IN  /\ PushRange(m, fileBytes, from, to) = part
          /\ WriteRange(m, fileBytes, from, to) = part
          /\ NewlinesIn(m, from, to) = {from + i - 1 : i \in Newlines(part)}
          /\ \A max \in 1..2 :
               OriginalSegment(m, fileBytes, from, to, max)
                 = Upto(part, Min({n \in 0..Len(part) : Boundary(part, n) /\ n >= max}
                                    \cup {Len(part)}))
          /\ Newlines(part) = {} =>
               /\ CharsIn(m, fileBytes, from, to) = Scalars(part)
               /\ \A n \in 0..Scalars(part) :
                    ByteAtChar(m, fileBytes, from, to, n)
                      = from + OffsetOf(part, [row |-> 0, col |-> n])

PageIsExact ==
  LET m == OriginalMetadata(scan)
  IN  /\ \E page \in ScannedPages :
           page[1] = fileBytes /\ document = WithoutCr(PageBytes(m.from, page[2]))
      /\ m.len = Len(document)
      /\ LinesAreThose(LineCount(m), LAMBDA r : LogicalStart(m, r), LAMBDA r : LogicalEnd(m, r),
                       LAMBDA b : RowForLogical(m, b), document)
      /\ ColumnsAreThose(m)
      /\ ReadsAreThose(m)
      /\ scan.complete => PreviousStart(fileBytes, m.to, LastRow(document)) = m.from

RECURSIVE SumsAreExact(_)
SumsAreExact(node) ==
  node = Nil \/
    /\ node = Recalculated(node) /\ node.block = Block(node.block.spans)
    /\ Len(node.block.spans) \in 1..(2 * BlockLines)
    /\ SumsAreExact(node.left) /\ SumsAreExact(node.right)

LinesAreExact ==
  /\ root.bytes = Len(document)
  /\ LinesAreThose(TreeLines(root), LAMBDA r : LineStartByte(root, r), LAMBDA r : LineEndByte(root, r),
                   LAMBDA b : RowForByte(root, b), document)
  /\ SumsAreExact(root)

ScalarsAreExact ==
  /\ scalars = Appended(NoScalars, document)
  /\ \A from, to \in Boundaries :
       from <= to =>
         LET part == Within(document, from, to)
         IN  /\ ScalarCount(scalars, document, from, to) = Scalars(part)
             /\ \A n \in 0..Scalars(part) :
                  ByteAtScalarIn(scalars, document, from, to, n)
                    = from + Min({at \in 0..Len(part) :
                                    Boundary(part, at) /\ Scalars(Upto(part, at)) = n})

\* Whatever turns rows, columns and bytes into each other agrees with the document:
\* the metadata of a page, however the file was read, with what its bytes say
\* once the returns of CRLF are left out (as long as no line with checkpoints
\* comes before a CRLF line); the treap with the lines of the edited document,
\* after any sequence of edits, its cached sums included; the checkpoints of the
\* add buffer with its scalars; and the tree of the pieces with the text they
\* spell (TreeIsExact).
IndexIsExact ==
  /\ subject = "page" /\ ~TrimmedAfterLong(Within(fileBytes, scan.start, scan.offset)) => PageIsExact
  /\ subject = "lines" => LinesAreExact
  /\ subject = "add" => ScalarsAreExact
  /\ subject = "pieces" => TreeIsExact

\* A page of valid UTF-8 with LF or CRLF endings opens.
PagesOpen == subject # "panic"
=============================================================================
