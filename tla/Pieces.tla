-------------------------------- MODULE Pieces --------------------------------
(***************************************************************************)
(* The piece operations of buffer/piece_table: a document is a sequence of *)
(* pieces, each a range of the immutable original text or of the           *)
(* append-only add buffer.  Offsets count scalars from 0; UTF-8 widths and *)
(* the cached scalar counts of a piece are abstracted away, the balanced   *)
(* tree that stores the pieces is abstracted to the sequence it represents.*)
(***************************************************************************)
EXTENDS Naturals, Sequences, FiniteSets, SequencesExt

CONSTANT Original    \* the text the buffer was opened with, a sequence

Piece(src, start, len) == [src |-> src, start |-> start, len |-> len]
EmptyPiece == Piece("Original", 0, 0)

\* The pieces of a freshly opened buffer.
OpenPieces == <<Piece("Original", 0, Len(Original))>>

Spelled(p, add) ==
  SubSeq(IF p.src = "Add" THEN add ELSE Original, p.start + 1, p.start + p.len)

\* The sum of f over a sequence; a function of the prefix length, because the
\* library's folds go through the subsets of the domain.
SumOver(f(_), s) ==
  LET sum[n \in 0..Len(s)] == IF n = 0 THEN 0 ELSE sum[n - 1] + f(s[n])
  IN  sum[Len(s)]

\* The result of applying op to the elements of s from left to right.
Along(op(_, _), base, s) ==
  LET acc[n \in 0..Len(s)] == IF n = 0 THEN base ELSE op(acc[n - 1], s[n])
  IN  acc[Len(s)]

\* The document a sequence of pieces stands for.
Text(ps, add) == Along(LAMBDA text, p : text \o Spelled(p, add), <<>>, ps)

TotalLen(ps) == SumOver(LAMBDA p : p.len, ps)

\* Add-buffer bytes a sequence of pieces refers to, with repetition.
AddLen(ps) == SumOver(LAMBDA p : IF p.src = "Add" THEN p.len ELSE 0, ps)

LogicalStart(ps, i) == TotalLen(SubSeq(ps, 1, i - 1))

\* The piece an offset falls into: at a boundary the one that starts there,
\* at the end of the document the last one.
Locate(ps, off) ==
  CHOOSE i \in 1..Len(ps) :
    /\ LogicalStart(ps, i) <= off
    /\ off < LogicalStart(ps, i) + ps[i].len \/ i = Len(ps)

\* The part [from, to) of a piece.
Part(p, from, to) == Piece(p.src, p.start + from, to - from)

Adjacent(p, q) == p.src = q.src /\ p.start + p.len = q.start

\* Merge neighbours that are adjacent in their source, and drop what is empty.
Merged(merged, p) ==
  IF p.len = 0 THEN merged
  ELSE IF merged # <<>> /\ Adjacent(Last(merged), p)
       THEN [merged EXCEPT ![Len(merged)].len = @ + p.len]
       ELSE Append(merged, p)
Coalesce(ps) ==
  LET done == Along(Merged, <<>>, ps) IN IF done = <<>> THEN <<EmptyPiece>> ELSE done

\* Replace pieces first..last, coalescing with one neighbour on each side.
ReplaceRun(ps, first, last, replacement) ==
  LET lo == IF first > 1 THEN first - 1 ELSE first
      hi == IF last < Len(ps) THEN last + 1 ELSE last
  IN  SubSeq(ps, 1, lo - 1)
        \o Coalesce(SubSeq(ps, lo, first - 1) \o replacement \o SubSeq(ps, last + 1, hi))
        \o SubSeq(ps, hi + 1, Len(ps))

\* Splice pieces in at an offset, splitting the piece that hosts it.
InsertPieces(ps, at, new) ==
  IF new = <<>> THEN ps
  ELSE LET i     == Locate(ps, at)
           local == at - LogicalStart(ps, i)
       IN  ReplaceRun(ps, i, i,
             <<Part(ps[i], 0, local)>> \o new \o <<Part(ps[i], local, ps[i].len)>>)

\* One typed scalar, just appended to the add buffer: it lengthens the piece
\* in front of it when that piece ends where the add buffer ended.
InsertScalar(ps, at, p) ==
  LET before == {i \in 1..Len(ps) :
                   LogicalStart(ps, i) + ps[i].len = at /\ ps[i].len > 0}
  IN  IF \E i \in before : ps[i].src = "Add" /\ Adjacent(ps[i], p)
      THEN LET i == CHOOSE j \in before : TRUE
           IN  [ps EXCEPT ![i].len = @ + p.len]
      ELSE InsertPieces(ps, at, <<p>>)

\* What [start, end) of piece i is, seen from a deletion of that range.
Cut(ps, i, start, end) ==
  LET from == LogicalStart(ps, i)
      lo   == IF start > from THEN start - from ELSE 0
      hi   == IF end < from + ps[i].len THEN end - from ELSE ps[i].len
  IN  [kept_left  |-> Part(ps[i], 0, lo),
       removed    |-> Part(ps[i], lo, hi),
       kept_right |-> Part(ps[i], hi, ps[i].len)]

\* Remove [start, end): the remaining pieces, and the removed ones.
DeleteRange(ps, start, end) ==
  IF start >= end THEN [pieces |-> ps, removed |-> <<>>]
  ELSE LET hit   == {i \in 1..Len(ps) : /\ LogicalStart(ps, i) < end
                                        /\ LogicalStart(ps, i) + ps[i].len > start}
           first == CHOOSE i \in hit : \A j \in hit : i <= j
           last  == CHOOSE i \in hit : \A j \in hit : j <= i
           cuts  == [n \in 1..(last - first + 1) |-> Cut(ps, first + n - 1, start, end)]
       IN  [pieces  |-> ReplaceRun(ps, first, last,
                          <<cuts[1].kept_left, cuts[Len(cuts)].kept_right>>),
            removed |-> [n \in 1..Len(cuts) |-> cuts[n].removed]]

-----------------------------------------------------------------------------
(* Edits of a transaction: pieces inserted or deleted at an offset. *)

Insert(at, ps) == [op |-> "Insert", at |-> at, pieces |-> ps]
Delete(at, ps) == [op |-> "Delete", at |-> at, pieces |-> ps]

Forward(ps, e) ==
  IF e.op = "Insert"
  THEN InsertPieces(ps, e.at, e.pieces)
  ELSE DeleteRange(ps, e.at, e.at + TotalLen(e.pieces)).pieces

Backward(ps, e) ==
  IF e.op = "Delete"
  THEN InsertPieces(ps, e.at, e.pieces)
  ELSE DeleteRange(ps, e.at, e.at + TotalLen(e.pieces)).pieces

ApplyEdits(ps, edits)  == Along(Forward, ps, edits)
RevertEdits(ps, edits) == Along(Backward, ps, Reverse(edits))

\* Merge the two history pieces at a boundary: the one before index right and
\* the one at it.
MergeBoundary(ps, right) ==
  IF right > 1 /\ right <= Len(ps) /\ Adjacent(ps[right - 1], ps[right])
  THEN SubSeq(ps, 1, right - 2)
         \o <<[ps[right - 1] EXCEPT !.len = @ + ps[right].len]>>
         \o SubSeq(ps, right + 1, Len(ps))
  ELSE ps

-----------------------------------------------------------------------------
(* Reclaiming the add buffer. *)

\* The add-buffer offsets some piece of a set refers to.
AddOffsets(all) ==
  UNION {p.start..(p.start + p.len - 1) : p \in {q \in all : q.src = "Add" /\ q.len > 0}}

\* Keeping only the live offsets, in order, moves each to the number of live
\* offsets below it.
Rebase(p, live) ==
  IF p.src = "Add" /\ p.len > 0
  THEN [p EXCEPT !.start = Cardinality({o \in live : o < p.start})]
  ELSE p

RebaseAll(ps, live) == [i \in 1..Len(ps) |-> Rebase(ps[i], live)]

KeepLive(add, live) ==
  LET kept[n \in 0..Len(add)] ==
        IF n = 0 THEN <<>>
        ELSE IF n - 1 \in live THEN Append(kept[n - 1], add[n]) ELSE kept[n - 1]
  IN  kept[Len(add)]
=============================================================================
