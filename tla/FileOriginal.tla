----------------------------- MODULE FileOriginal -----------------------------
(***************************************************************************)
(* A page of a file that is shown without being read into memory: the scan *)
(* that finds its lines (buffer/large_file/page_scan.rs and scan.rs) and   *)
(* the metadata that answers for its text afterwards                       *)
(* (buffer/piece_table/file_original.rs).                                  *)
(*                                                                         *)
(* The file's bytes are those of Literal and the carriage return "r".  The *)
(* logical text of a page leaves out every "r" before an "n"; source       *)
(* offsets count in the file, logical ones in that text.                   *)
(***************************************************************************)
EXTENDS Literal

CONSTANTS
  CheckpointChars,  \* LINE_CHECKPOINT_INTERVAL_CHARS
  NarrowMax,        \* u32::MAX
  CopyBytes         \* bytes copied at a time by write_range

ASSUME OriginalAssumption ==
  CheckpointChars \in Nat \ {0} /\ NarrowMax \in Nat /\ CopyBytes \in Nat \ {0}

-----------------------------------------------------------------------------
(* PageScanState and LineScanState. *)

Scanning(start, lines) ==
  [start |-> start, offset |-> start, remaining |-> lines, carry |-> <<>>,
   complete |-> FALSE, error |-> FALSE,
   starts |-> <<start>>, counts |-> <<>>, ascii |-> <<>>,
   checkpoints |-> <<>>, checkStarts |-> <<0>>, crlf |-> <<>>,
   chars |-> 0, isAscii |-> TRUE, wasCr |-> FALSE]

Ascii(bytes) == Range(bytes) \cap {"L", "C"} = {}

FinishLine(s, next) ==
  [s EXCEPT !.counts = Append(@, s.chars), !.ascii = Append(@, s.isAscii),
            !.checkStarts = Append(@, Len(s.checkpoints)),
            !.chars = 0, !.isAscii = TRUE, !.wasCr = FALSE, !.starts = Append(@, next)]

\* The return before a newline does not count.  The checkpoints after it are
\* popped, from the list that holds those of all lines.
TrimCrlf(s, newline) ==
  LET chars == s.chars - 1
      kept == Max({0} \cup {i \in DOMAIN s.checkpoints : s.checkpoints[i].col <= chars})
  IN  [s EXCEPT !.chars = chars, !.crlf = Append(@, newline - 1),
                !.checkpoints = SubSeq(@, 1, kept)]

EndLine(s, newline, wasCr) ==
  FinishLine(IF wasCr THEN TrimCrlf(s, newline) ELSE s, newline + 1)

\* scan_valid_text_with_newlines: scalar by scalar.
ScanScalars(s, bytes, at) ==
  LET Step(u, i) ==
        LET width == IF bytes[i] = "L" THEN 2 ELSE 1
            col == u.chars + 1
        IN  CASE bytes[i] = "C" -> u
              [] bytes[i] = "n" -> EndLine(u, at + i - 1, u.wasCr)
              [] OTHER ->
                   [u EXCEPT !.isAscii = @ /\ width = 1, !.chars = col, !.wasCr = bytes[i] = "r",
                             !.checkpoints = IF col % CheckpointChars # 0 THEN @
                                             ELSE Append(@, [col |-> col, byte |-> at + i - 1 + width])]
  IN  FoldLeft(Step, s, [i \in DOMAIN bytes |-> i])

\* push_ascii_checkpoints: for `len` bytes of a line.
AsciiCheckpoints(s, at, len) ==
  LET first == s.chars \div CheckpointChars + 1
      last == (s.chars + len) \div CheckpointChars
      Checkpoint(k) == LET col == (first + k - 1) * CheckpointChars
                       IN  [col |-> col, byte |-> at + (col - s.chars)]
  IN  [s EXCEPT !.checkpoints = @ \o [k \in 1..(last + 1 - first) |-> Checkpoint(k)],
                !.chars = @ + len]

\* scan_ascii_bytes_at_indices: segment by segment.
ScanAscii(s, bytes, at) ==
  LET Step(a, n) ==
        LET u == AsciiCheckpoints(a.s, at + a.from, n - 1 - a.from)
            wasCr == IF n - 1 > a.from THEN bytes[n - 1] = "r" ELSE u.wasCr
        IN  [s |-> EndLine(u, at + n - 1, wasCr), from |-> n]
      lines == FoldLeft(Step, [s |-> s, from |-> 0], SetToSortSeq(Newlines(bytes), <))
      tail == AsciiCheckpoints(lines.s, at + lines.from, Len(bytes) - lines.from)
  IN  [tail EXCEPT !.wasCr = bytes # <<>> /\ Last(bytes) = "r"]

\* page_chunk: what a read adds to the page, up to its last newline.
PageChunk(bytes, remaining) ==
  LET ends == {i \in Newlines(bytes) :
                 Cardinality({j \in Newlines(bytes) : j <= i}) = remaining}
  IN  Min(ends \cup {Len(bytes)})

ScanChunk(s, read) ==
  LET used == PageChunk(read, s.remaining)
      bytes == Upto(read, used)
      whole == s.carry \o bytes
      at == s.offset - Len(s.carry)
      valid == ValidEnd(whole)
      after == CASE s.carry = <<>> /\ Ascii(bytes) -> ScanAscii(s, bytes, at)
                 [] Malformed(whole) -> [s EXCEPT !.error = TRUE]
                 [] OTHER -> [ScanScalars(s, Upto(whole, valid), at) EXCEPT
                                !.carry = Within(whole, valid, Len(whole))]
      left == s.remaining - Cardinality(Newlines(bytes))
  IN  [after EXCEPT !.offset = @ + used, !.remaining = left, !.complete = left = 0]

\* finish_complete_page and finish_final_page; from_file_page_observed gives a
\* page that another follows an empty last row.
FinishPage(s) ==
  CASE s.carry # <<>> -> [s EXCEPT !.error = TRUE]
    [] s.complete -> [s EXCEPT !.counts = Append(@, 0), !.ascii = Append(@, TRUE),
                               !.checkStarts = Append(@, Len(s.checkpoints))]
    [] OTHER -> [s EXCEPT !.counts = Append(@, s.chars), !.ascii = Append(@, s.isAscii),
                          !.checkStarts = Append(@, Len(s.checkpoints))]

\* find_previous_page_start: backwards, a newline more than a page has.
PreviousStart(bytes, from, lines) ==
  LET before == {i \in Newlines(bytes) : i <= from}
      nth == {i \in before : Cardinality({j \in before : j >= i}) = lines + 1}
  IN  Max(nth \cup {0})

-----------------------------------------------------------------------------
(* CompactOffsets: offsets from a base if all of them are narrow. *)

Compact(base, values) ==
  IF \A v \in Range(values) : v >= base /\ v - base <= NarrowMax
  THEN [base |-> base, values |-> [i \in DOMAIN values |-> (values[i] - base) % (NarrowMax + 1)]]
  ELSE [base |-> 0, values |-> values]
FromAbsolute(values) == Compact(IF values = <<>> THEN 0 ELSE values[1], values)

Get(offsets, i) == offsets.base + offsets.values[i + 1]
Count(offsets) == Len(offsets.values)
PointBefore(offsets, x) == Cardinality({i \in 0..(Count(offsets) - 1) : Get(offsets, i) < x})
Has(offsets, x) == PointBefore(offsets, x) < Count(offsets) /\ Get(offsets, PointBefore(offsets, x)) = x

-----------------------------------------------------------------------------
(* FileOriginalMetadata. *)

\* from_scan slices the checkpoints of every line that is not ASCII.
Panics(s) ==
  \E row \in {r \in DOMAIN s.ascii : ~s.ascii[r]} :
    \/ s.checkStarts[row] > s.checkStarts[row + 1]
    \/ s.checkStarts[row + 1] > Len(s.checkpoints)

\* from_scan: only the lines that are not ASCII keep counts and checkpoints.
OriginalMetadata(s) ==
  LET rows == SetToSortSeq({row \in 1..Len(s.ascii) : ~s.ascii[row]}, <)
      Checks(i) == SubSeq(s.checkpoints, s.checkStarts[rows[i]] + 1, s.checkStarts[rows[i] + 1])
      all == [i \in DOMAIN rows |-> Checks(i)]
      ends == [i \in DOMAIN rows |-> Len(FlattenSeq(SubSeq(all, 1, i)))]
  IN  [from |-> s.start, to |-> s.offset, len |-> s.offset - s.start - Len(s.crlf),
       starts |-> FromAbsolute(s.starts), crlf |-> FromAbsolute(s.crlf),
       rows |-> Compact(0, [i \in DOMAIN rows |-> rows[i] - 1]),
       counts |-> Compact(0, [i \in DOMAIN rows |-> s.counts[rows[i]]]),
       checkStarts |-> Compact(0, IF rows = <<>> THEN <<>> ELSE <<0>> \o ends),
       checkpoints |-> FlattenSeq(all)]

LineCount(m) == Max({1, Count(m.starts)})
RawStart(m, row) == Get(m.starts, Min({row, LineCount(m) - 1}))
RawEnd(m, row) == IF row + 1 < Count(m.starts) THEN Get(m.starts, row + 1) - 1 ELSE m.to

LogicalStart(m, row) == RawStart(m, row) - m.from - PointBefore(m.crlf, RawStart(m, row))
LogicalEnd(m, row) == IF row + 1 < LineCount(m) THEN LogicalStart(m, row + 1) - 1 ELSE m.len
RowForLogical(m, byte) ==
  Max({0, Cardinality({row \in 0..(LineCount(m) - 1) : LogicalStart(m, row) <= byte}) - 1})
LogicalSpans(m) ==
  [i \in 1..LineCount(m) |->
     (IF i < LineCount(m) THEN LogicalStart(m, i) ELSE m.len) - LogicalStart(m, i - 1)]

CharCount(m, row) ==
  IF Has(m.rows, row) THEN Get(m.counts, PointBefore(m.rows, row))
  ELSE LET from == RawStart(m, row)
           to == RawEnd(m, row)
       IN  to - from - (IF to > from /\ Has(m.crlf, to - 1) THEN 1 ELSE 0)
Checkpoints(m, row) ==
  LET i == PointBefore(m.rows, row)
  IN  IF ~Has(m.rows, row) THEN <<>>
      ELSE SubSeq(m.checkpoints, Get(m.checkStarts, i) + 1, Get(m.checkStarts, i + 1))

\* crlf_count_at_logical: the returns left out before, or also at, an offset.
Elisions(m, logical, equal) ==
  Cardinality({k \in 0..(Count(m.crlf) - 1) :
                 LET at == Get(m.crlf, k) - m.from - k IN at < logical \/ (equal /\ at = logical)})
ToSourceStart(m, logical) == Min({m.from + logical + Elisions(m, logical, TRUE), m.to})
ToSourceEnd(m, logical)   == Min({m.from + logical + Elisions(m, logical, FALSE), m.to})
ToLogical(m, source)      == source - m.from - PointBefore(m.crlf, source)

SourceRange(m, from, to) ==
  IF from = to THEN <<ToSourceStart(m, from), ToSourceStart(m, from)>>
  ELSE <<ToSourceStart(m, from), ToSourceEnd(m, to)>>

-----------------------------------------------------------------------------
(* What is read through it. *)

\* for_each_crlf_offset: the bytes of a source range without the returns.
WithoutReturns(m, bytes, from, to) ==
  FlattenSeq([i \in 1..(to - from) |-> IF Has(m.crlf, from + i - 1) THEN <<>>
                                       ELSE <<bytes[from + i]>>])

PushRange(m, bytes, from, to) ==
  LET range == SourceRange(m, from, to) IN WithoutReturns(m, bytes, range[1], range[2])

\* search_text_segment: a scalar may end after the limit; three more bytes are
\* read to complete it.
OriginalSegment(m, bytes, from, to, max) ==
  LET text == PushRange(m, bytes, from, Min({from + max + 3, to}))
      prefix == Upto(text, ValidEnd(text))
  IN  IF from = to \/ max = 0 THEN <<>>
      ELSE Upto(prefix, Min({n \in 0..Len(prefix) : Boundary(prefix, n) /\ n >= max}
                              \cup {Len(prefix)}))

\* write_range: block by block.
WriteRange(m, bytes, from, to) ==
  LET range == SourceRange(m, from, to)
      Block(k) == WithoutReturns(m, bytes, range[1] + (k - 1) * CopyBytes,
                                 Min({range[1] + k * CopyBytes, range[2]}))
      blocks == (range[2] - range[1] + CopyBytes - 1) \div CopyBytes
  IN  FlattenSeq([k \in 1..blocks |-> Block(k)])

\* for_each_newline: before each line start after the range's own line.
NewlinesIn(m, from, to) ==
  LET row == RowForLogical(m, from)
      first == IF LogicalStart(m, row) <= from THEN row + 1 ELSE row
  IN  {n \in {LogicalStart(m, r) - 1 : r \in first..(LineCount(m) - 1)} : n >= from /\ n < to}

\* line_col_at_byte, from the last checkpoint before it.
ColAt(m, bytes, row, byte) ==
  LET source == ToSourceEnd(m, byte)
      before == {c \in Range(Checkpoints(m, row)) : c.byte <= source}
      from == IF before = {} THEN [col |-> 0, byte |-> ToSourceStart(m, LogicalStart(m, row))]
              ELSE CHOOSE c \in before : \A d \in before : d.byte <= c.byte
  IN  IF ~Has(m.rows, row) THEN byte - LogicalStart(m, row)
      ELSE from.col + Scalars(Within(bytes, from.byte, source))

\* The last checkpoint of a row at or before a column, or the row's start.
CheckpointBefore(m, row, col) ==
  LET before == {c \in Range(Checkpoints(m, row)) : c.col <= col}
  IN  IF before = {} THEN [col |-> 0, byte |-> ToSourceStart(m, LogicalStart(m, row))]
      ELSE CHOOSE c \in before : \A d \in before : d.col <= c.col

\* Where some more scalars end: four bytes are enough for each of them.
DecodedFrom(bytes, start, limit, chars) ==
  LET read == Within(bytes, start, Min({start + 4 * chars, limit}))
      valid == IF read = <<>> THEN 0 ELSE ValidEnd(read)
  IN  start + Min({n \in 0..valid : Boundary(read, n) /\ Scalars(Upto(read, n)) = chars}
                    \cup {valid})

\* byte_offset_at_line_col
ByteAt(m, bytes, row, column) ==
  LET col == Min({column, CharCount(m, row)})
      from == CheckpointBefore(m, row, col)
  IN  IF ~Has(m.rows, row) THEN LogicalStart(m, row) + col
      ELSE ToLogical(m, DecodedFrom(bytes, from.byte, ToSourceEnd(m, LogicalEnd(m, row)),
                                    col - from.col))

\* char_count and byte_offset_at_char, of a range within a line.
CharsIn(m, bytes, from, to) ==
  LET row == RowForLogical(m, from) IN ColAt(m, bytes, row, to) - ColAt(m, bytes, row, from)
ByteAtChar(m, bytes, from, to, chars) ==
  LET row == RowForLogical(m, from)
  IN  ByteAt(m, bytes, row, Min({ColAt(m, bytes, row, from) + chars, ColAt(m, bytes, row, to)}))
=============================================================================
