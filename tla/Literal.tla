------------------------------- MODULE Literal -------------------------------
(***************************************************************************)
(* Texts and the literal matcher of editor/search/literal.rs, which reads  *)
(* a text segment by segment and keeps the end of what it has read.        *)
(*                                                                         *)
(* A text is a sequence of bytes: "n" is a newline, a lead byte "L" with a *)
(* continuation "C" is one scalar, every other byte is a scalar of its     *)
(* own.  Offsets count from 0.                                             *)
(***************************************************************************)
EXTENDS Naturals, Sequences, SequencesExt, FiniteSetsExt, Functions

-----------------------------------------------------------------------------
(* Texts. *)

Scalars(text) == Cardinality({i \in DOMAIN text : text[i] # "C"})
Newlines(text) == {i \in DOMAIN text : text[i] = "n"}
Upto(text, at) == SubSeq(text, 1, at)
Within(text, from, to) == SubSeq(text, from + 1, to)
Boundary(text, at) == at = Len(text) \/ text[at + 1] # "C"

\* std::str::from_utf8 and valid_utf8_end.
Malformed(bytes) ==
  \E i \in DOMAIN bytes : \/ bytes[i] = "C" /\ (i = 1 \/ bytes[i - 1] # "L")
                          \/ bytes[i] = "L" /\ i < Len(bytes) /\ bytes[i + 1] # "C"
ValidEnd(bytes) == IF Last(bytes) = "L" THEN Len(bytes) - 1 ELSE Len(bytes)

\* find_overlapping: every place a query occurs at, overlapping ones too.
Occurrences(query, text) ==
  {at \in 0..(Len(text) - 1) : IsPrefix(query, Within(text, at, Len(text)))}

\* search_cursor_for_byte_offset and search_byte_offset_for_cursor.
LineStart(text, row) ==
  IF row = 0 THEN 0
  ELSE CHOOSE i \in Newlines(text) : Cardinality({j \in Newlines(text) : j <= i}) = row
LineEnd(text, row) ==
  Min({i - 1 : i \in {j \in Newlines(text) : j > LineStart(text, row)}} \cup {Len(text)})
LastRow(text) == Cardinality(Newlines(text))
CursorAt(text, at) ==
  LET row == Cardinality({i \in Newlines(text) : i <= at})
  IN  [row |-> row, col |-> Scalars(Within(text, LineStart(text, row), at))]
OffsetOf(text, cursor) ==
  LET row == Min({cursor.row, LastRow(text)})
      reach == {at \in LineStart(text, row)..LineEnd(text, row) :
                  /\ Boundary(text, at)
                  /\ Scalars(Within(text, LineStart(text, row), at)) <= cursor.col}
  IN  Max(reach)

-----------------------------------------------------------------------------
(* LiteralByteMatcher: the last bytes of what has been read are kept, so   *)
(* that a match across segments is found.                                  *)

Matcher(query) == [query |-> query, processed |-> 0, overlap |-> <<>>]
OverlapStart(m) == m.processed - Len(m.overlap)

Straddling(m, segment) ==
  LET kept == Len(m.overlap)
      border == m.overlap \o Upto(segment, Min({Len(segment), Len(m.query) - 1}))
  IN  {OverlapStart(m) + r :
         r \in {s \in Occurrences(m.query, border) : s < kept /\ s + Len(m.query) > kept}}

\* find_segment_matches_with_limit: in ascending order, up to the limit and
\* up to the first at or after `stopAt`.
Candidates(m, segment, stopAt, limit) ==
  LET all == Straddling(m, segment)
               \cup {m.processed + r : r \in Occurrences(m.query, segment)}
  IN  {c \in all : /\ Cardinality({d \in all : d < c}) < limit
                   /\ \A d \in all, stop \in stopAt : d < c => d < stop}

NoLimit == 1000000

\* One byte less is kept than a query can need.
RetainedLess(m, segment) ==
  LET end == m.processed + Len(segment)
  IN  Max({OverlapStart(m), end - Min({end, Len(Tail(m.query)) \div 2})})

RetainedStart(m, segment) ==
  LET end == m.processed + Len(segment)
      text == m.overlap \o segment
      first == Max({OverlapStart(m), end - Min({end, Len(m.query) - 1})})
  IN  Min({at \in first..end : at = end \/ text[at - OverlapStart(m) + 1] # "C"})

CommitSegment(m, segment) ==
  LET text == m.overlap \o segment
      kept == RetainedStart(m, segment)
  IN  [m EXCEPT !.processed = @ + Len(segment),
                !.overlap = Within(text, kept - OverlapStart(m), Len(text))]
=============================================================================
