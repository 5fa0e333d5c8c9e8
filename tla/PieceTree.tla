------------------------------ MODULE PieceTree ------------------------------
(***************************************************************************)
(* The AVL tree that stores the pieces of a document in their order        *)
(* (buffer/piece_table/piece_tree.rs), with the sums every node caches:    *)
(* pieces, bytes, and scalars if they are known of all of its pieces.      *)
(* Edits splice a run of pieces in it (piece_table/edit.rs); lookups turn  *)
(* bytes into scalars and back, and ask a source only about a part of a    *)
(* piece.  What the buffers answer is in FileOriginal and LineIndex.       *)
(*                                                                         *)
(* Of a file's pieces the scalars are not known: an Option is a set with   *)
(* at most one element.                                                    *)
(***************************************************************************)
EXTENDS Literal

CONSTANTS
  Originals,    \* what a buffer is opened with
  TypedInto,    \* scalars that are typed
  PastedInto,   \* texts that are inserted at once
  MaxTyped      \* bound: the bytes of the add buffer

VARIABLES
  buffers,   \* the texts of PieceTable::original and PieceTable::add
  pieceTree, \* PieceTree::root
  removed,   \* the deletion that can be undone: a set of at most one
  treeText   \* history variable: the document

treeVars == <<buffers, pieceTree, removed, treeText>>

-----------------------------------------------------------------------------
(* Pieces. *)

Known(chars) == chars # {}
Together(a, b) == {m + n : m \in a, n \in b}
Number(chars) == CHOOSE n \in chars : TRUE

PieceOf(src, start, len, chars) == [src |-> src, start |-> start, len |-> len, chars |-> chars]
NoText == PieceOf("Original", 0, 0, {0})

Bytes(piece) == Within(buffers[piece.src], piece.start, piece.start + piece.len)

\* source_char_count, of the part [from, to) of a piece.
CountPart(piece, from, to) == Scalars(Within(Bytes(piece), from, to))

\* source_byte_offset_at_char, from the start of the piece.
ByteInPart(piece, from, to, n) ==
  LET part == Within(Bytes(piece), from, to)
  IN  from + Min({at \in 0..Len(part) :
                    at = Len(part) \/ (Boundary(part, at) /\ Scalars(Upto(part, at)) = n)})

\* partial_piece_char_len.
PartOf(piece, from, to) ==
  PieceOf(piece.src, piece.start + from, to - from,
          IF Known(piece.chars) THEN {CountPart(piece, from, to)} ELSE {})

\* split_piece_char_len: what is right of the cut has the scalars that remain.
RightOf(piece, at) ==
  [PartOf(piece, at, piece.len) EXCEPT
     !.chars = {n - CountPart(piece, 0, at) : n \in piece.chars}]

-----------------------------------------------------------------------------
(* Nodes. *)

NoPieces == [height |-> 0, count |-> 0, bytes |-> 0, chars |-> {0}]

NewPiece(piece) ==
  [piece |-> piece, left |-> NoPieces, right |-> NoPieces,
   height |-> 1, count |-> 1, bytes |-> piece.len, chars |-> piece.chars]

\* update_summary.
Summed(node) ==
  [node EXCEPT !.height = 1 + Max({node.left.height, node.right.height}),
               !.count = 1 + node.left.count + node.right.count,
               !.bytes = node.left.bytes + node.piece.len + node.right.bytes,
               !.chars = Together(Together(node.left.chars, node.piece.chars), node.right.chars)]

RECURSIVE BuildBalanced(_)
BuildBalanced(ps) ==
  LET middle == Len(ps) \div 2
  IN  IF ps = <<>> THEN NoPieces
      ELSE Summed([NewPiece(ps[middle + 1]) EXCEPT
                     !.left = BuildBalanced(Upto(ps, middle)),
                     !.right = BuildBalanced(Within(ps, middle + 1, Len(ps)))])

RotatedLeft(root) ==
  LET pivot == root.right
  IN  Summed([pivot EXCEPT !.left = Summed([root EXCEPT !.right = pivot.left])])
RotatedRight(root) ==
  LET pivot == root.left
  IN  Summed([pivot EXCEPT !.right = Summed([root EXCEPT !.left = pivot.right])])

\* A single rotation whatever leans on the other side.
BalancedOnce(node) ==
  LET sum == Summed(node)
  IN  CASE sum.left.height > sum.right.height + 1 -> RotatedRight(sum)
        [] sum.right.height > sum.left.height + 1 -> RotatedLeft(sum)
        [] OTHER -> sum

\* balance.
Balanced(node) ==
  LET sum == Summed(node)
      left == sum.left
      right == sum.right
  IN  CASE left.height > right.height + 1 ->
             RotatedRight(IF left.right.height > left.left.height
                          THEN [sum EXCEPT !.left = RotatedLeft(left)] ELSE sum)
        [] right.height > left.height + 1 ->
             RotatedLeft(IF right.left.height > right.right.height
                         THEN [sum EXCEPT !.right = RotatedRight(right)] ELSE sum)
        [] OTHER -> sum

RECURSIVE JoinTrees(_, _, _)
JoinTrees(left, node, right) ==
  CASE left.height > right.height + 1 ->
         Balanced([left EXCEPT !.right = JoinTrees(left.right, node, right)])
    [] right.height > left.height + 1 ->
         Balanced([right EXCEPT !.left = JoinTrees(left, node, right.left)])
    [] OTHER -> Summed([node EXCEPT !.left = left, !.right = right])

\* split: the first n pieces, and the others.
RECURSIVE SplitAfter(_, _)
SplitAfter(node, n) ==
  IF node.count = 0 THEN [before |-> NoPieces, after |-> NoPieces]
  ELSE IF n <= node.left.count
  THEN LET cut == SplitAfter(node.left, n)
       IN  [cut EXCEPT !.after = JoinTrees(@, node, node.right)]
  ELSE LET cut == SplitAfter(node.right, n - node.left.count - 1)
       IN  [cut EXCEPT !.before = JoinTrees(node.left, node, @)]

RECURSIVE TakeMax(_)
TakeMax(node) ==
  IF node.right.count = 0
  THEN [rest |-> node.left, max |-> Summed([node EXCEPT !.left = NoPieces])]
  ELSE LET taken == TakeMax(node.right)
       IN  [taken EXCEPT !.rest = Balanced([node EXCEPT !.right = taken.rest])]

\* concat.
Concatenated(left, right) ==
  LET taken == TakeMax(left)
  IN  CASE left.count = 0 -> right
        [] right.count = 0 -> left
        [] OTHER -> JoinTrees(taken.rest, taken.max, right)

ReplacePieces(node, from, to, ps) ==
  LET head == SplitAfter(node, from)
      tail == SplitAfter(head.after, to - from)
  IN  Concatenated(Concatenated(head.before, BuildBalanced(ps)), tail.after)

\* set.
RECURSIVE SetPiece(_, _, _)
SetPiece(node, index, piece) ==
  Summed(CASE index < node.left.count -> [node EXCEPT !.left = SetPiece(@, index, piece)]
           [] index = node.left.count -> [node EXCEPT !.piece = piece]
           [] OTHER -> [node EXCEPT !.right = SetPiece(@, index - node.left.count - 1, piece)])

\* for_each_from.
RECURSIVE PiecesFrom(_, _)
PiecesFrom(node, index) ==
  LET before == node.left.count
      behind == IF index > before THEN index - before - 1 ELSE 0
  IN  IF node.count = 0 THEN <<>>
      ELSE (IF index < before THEN PiecesFrom(node.left, index) ELSE <<>>)
             \o (IF index <= before THEN <<node.piece>> ELSE <<>>)
             \o (IF index <= before \/ behind < node.right.count
                 THEN PiecesFrom(node.right, behind) ELSE <<>>)

Collected(node, from, to) == Upto(PiecesFrom(node, from), to - from)

-----------------------------------------------------------------------------
(* Lookups. *)

\* locate: the piece behind a boundary, but the last one at the end.
RECURSIVE LocatedIn(_, _, _)
LocatedIn(node, offset, preceding) ==
  LET index == preceding + node.left.count
      end == node.left.bytes + node.piece.len
  IN  CASE offset < node.left.bytes -> LocatedIn(node.left, offset, preceding)
        [] offset >= node.left.bytes /\ offset < end ->
             [index |-> index, local |-> offset - node.left.bytes]
        [] node.right.count = 0 -> [index |-> index, local |-> node.piece.len]
        [] OTHER -> LocatedIn(node.right, offset - end, index + 1)
PieceAt(offset) == LocatedIn(pieceTree, Min({offset, pieceTree.bytes}), 0)

\* logical_start.
RECURSIVE StartOf(_, _)
StartOf(node, index) ==
  CASE node.count = 0 -> 0
    [] node.count > 0 /\ index < node.left.count -> StartOf(node.left, index)
    [] node.count > 0 /\ index = node.left.count -> node.left.bytes
    [] OTHER -> node.left.bytes + node.piece.len + StartOf(node.right, index - node.left.count - 1)

\* Of a node whose subtree begins at `start`: where its piece does, and the
\* part of the piece that is in [from, to).
PieceStart(node, start) == start + node.left.bytes
Clipped(node, start, at) ==
  IF at < PieceStart(node, start) THEN 0 ELSE Min({at - PieceStart(node, start), node.piece.len})
Outside(node, start, from, to) == node.count = 0 \/ to <= start \/ from >= start + node.bytes
Cached(node, start, from, to) ==
  from <= start /\ start + node.bytes <= to /\ Known(node.chars)

PartChars(node, start, from, to) ==
  LET lo == Clipped(node, start, from)
      hi == Clipped(node, start, to)
  IN  CASE lo >= hi -> 0
        [] lo = 0 /\ hi = node.piece.len /\ Known(node.piece.chars) -> Number(node.piece.chars)
        [] OTHER -> CountPart(node.piece, lo, hi)

\* try_char_count_in.
RECURSIVE CharsWithin(_, _, _, _)
CharsWithin(node, start, from, to) ==
  CASE Outside(node, start, from, to) -> 0
    [] ~Outside(node, start, from, to) /\ Cached(node, start, from, to) -> Number(node.chars)
    [] OTHER ->
         CharsWithin(node.left, start, from, to) + PartChars(node, start, from, to)
           + CharsWithin(node.right, PieceStart(node, start) + node.piece.len, from, to)

\* try_byte_at_scalar_node: all scalars of the subtree are known.
RECURSIVE ByteAtScalarOf(_, _, _)
ByteAtScalarOf(node, start, n) ==
  LET ahead == n - Number(node.left.chars)
      here == Number(node.piece.chars)
      at == PieceStart(node, start)
  IN  CASE n = 0 -> start
        [] n > 0 /\ ahead < 0 -> ByteAtScalarOf(node.left, start, n)
        [] n > 0 /\ ahead >= 0 /\ ahead < here ->
             at + ByteInPart(node.piece, 0, node.piece.len, ahead)
        [] n > 0 /\ ahead = here -> at + node.piece.len
        [] OTHER -> ByteAtScalarOf(node.right, at + node.piece.len, ahead - here)

\* try_find_scalar_node: where the n-th scalar ends, or how many are left.
RECURSIVE FoundScalar(_, _, _, _, _)
FoundScalar(node, start, from, to, n) ==
  LET left == FoundScalar(node.left, start, from, to, n)
      here == PartChars(node, start, from, to)
      lo == Clipped(node, start, from)
      hi == Clipped(node, start, to)
      at == PieceStart(node, start)
  IN  IF Outside(node, start, from, to) THEN [at |-> {}, n |-> n]
      ELSE IF Cached(node, start, from, to)
      THEN IF n > Number(node.chars) THEN [at |-> {}, n |-> n - Number(node.chars)]
           ELSE [at |-> {ByteAtScalarOf(node, start, n)}, n |-> n]
      ELSE CASE left.at # {} -> left
             [] left.at = {} /\ lo < hi /\ left.n <= here ->
                  [at |-> {at + ByteInPart(node.piece, lo, hi, left.n)}, n |-> left.n]
             [] OTHER -> FoundScalar(node.right, at + node.piece.len, from, to, left.n - here)

\* try_byte_offset_after_chars.
ByteAfterChars(from, to, n) ==
  LET end == Min({to, pieceTree.bytes})
      found == FoundScalar(pieceTree, 0, from, end, n)
  IN  CASE from >= end \/ n = 0 -> Min({from, pieceTree.bytes})
        [] from < end /\ n > 0 /\ found.at = {} -> end
        [] OTHER -> Number(found.at)

-----------------------------------------------------------------------------
(* Edits. *)

Adjoining(p, q) == p.src = q.src /\ p.start + p.len = q.start
Extending(p, q) == [p EXCEPT !.len = @ + q.len, !.chars = Together(@, q.chars)]

\* replace_piece_run: one neighbour on each side may be joined with what is new.
CoalescedRun(ps) ==
  LET Add(done, p) ==
        CASE p.len = 0 -> done
          [] p.len > 0 /\ done # <<>> /\ Adjoining(Last(done), p) ->
               Append(Front(done), Extending(Last(done), p))
          [] OTHER -> Append(done, p)
      all == FoldLeft(Add, <<>>, ps)
  IN  IF all = <<>> THEN <<NoText>> ELSE all

RunReplaced(node, from, to, ps) ==
  LET first == IF from = 0 THEN 0 ELSE from - 1
      last == Min({to + 1, node.count})
  IN  ReplacePieces(node, first, last,
        CoalescedRun(Collected(node, first, from) \o ps \o Collected(node, to, last)))

\* insert_pieces_at.
PiecesInserted(node, at, ps) ==
  LET host == LocatedIn(node, at, 0)
      piece == Head(PiecesFrom(node, host.index))
  IN  RunReplaced(node, host.index, host.index + 1,
        <<PartOf(piece, 0, host.local)>> \o ps \o <<RightOf(piece, host.local)>>)

\* The end of a run of pieces before `to`.
DeletedTo(to) ==
  LET end == PieceAt(to) IN IF end.local = 0 THEN end.index ELSE end.index + 1

\* delete_byte_range: of each piece from the first one on what stays and what
\* goes, by the part of it that is in [from, to).
Deleted(from, to) ==
  LET first == PieceAt(from).index
      hit == Collected(pieceTree, first, DeletedTo(to))
      Begin(k) == StartOf(pieceTree, first + k - 1)
      Lo(k) == IF from > Begin(k) THEN Min({from - Begin(k), hit[k].len}) ELSE 0
      Hi(k) == Min({to - Begin(k), hit[k].len})
  IN  [tree |-> RunReplaced(pieceTree, first, DeletedTo(to),
                  FlattenSeq([k \in DOMAIN hit |->
                    <<PartOf(hit[k], 0, Lo(k)), PartOf(hit[k], Hi(k), hit[k].len)>>])),
       pieces |-> SelectSeq([k \in DOMAIN hit |-> PartOf(hit[k], Lo(k), Hi(k))],
                            LAMBDA p : p.len > 0)]

-----------------------------------------------------------------------------
(* Steps. *)

TreeInit ==
  /\ \E original \in Originals, known \in BOOLEAN :
       /\ buffers = [Original |-> original, Add |-> <<>>]
       /\ pieceTree = BuildBalanced(<<PieceOf("Original", 0, Len(original),
                                         IF known THEN {Scalars(original)} ELSE {})>>)
       /\ treeText = original
  /\ removed = {}

TreeBoundaries == {at \in 0..Len(treeText) : Boundary(treeText, at)}
TextSpliced(from, to, text) == Upto(treeText, from) \o text \o Within(treeText, to, Len(treeText))

\* What is added to the add buffer.
Adds(text) ==
  /\ buffers' = [buffers EXCEPT !.Add = @ \o text] /\ Len(buffers'.Add) <= MaxTyped
  /\ removed' = {}
AddedPiece(text) == PieceOf("Add", Len(buffers.Add), Len(text), {Scalars(text)})

\* insert_at_cursor: the piece before the cursor grows if it ends the add buffer.
TypeInto ==
  /\ \E at \in TreeBoundaries, c \in TypedInto :
       LET new == AddedPiece(c)
           host == PieceAt(at)
           Piece0(index) == Head(PiecesFrom(pieceTree, index))
           here == Piece0(host.index)
       IN  /\ Adds(c) /\ treeText' = TextSpliced(at, at, c)
           /\ pieceTree' =
                CASE Adjoining(here, new) /\ host.local = here.len ->
                       SetPiece(pieceTree, host.index, Extending(here, new))
                  [] ~(Adjoining(here, new) /\ host.local = here.len) /\ host.local = 0
                       /\ host.index > 0 /\ Adjoining(Piece0(host.index - 1), new) ->
                       SetPiece(pieceTree, host.index - 1, Extending(Piece0(host.index - 1), new))
                  [] OTHER -> PiecesInserted(pieceTree, at, <<new>>)

\* splice_replacement.
ReplaceText ==
  \E from, to \in TreeBoundaries, text \in PastedInto \cup {<<>>} :
    /\ from <= to /\ (from < to \/ text # <<>>)
    /\ treeText' = TextSpliced(from, to, text)
    /\ LET rest == IF from < to THEN Deleted(from, to).tree ELSE pieceTree
       IN  IF text = <<>>
           THEN /\ removed' = {[at |-> from, pieces |-> Deleted(from, to).pieces]}
                /\ pieceTree' = rest /\ UNCHANGED buffers
           ELSE Adds(text) /\ pieceTree' = PiecesInserted(rest, from, <<AddedPiece(text)>>)

\* The undo of a deletion puts its pieces back.
PutBack ==
  /\ \E r \in removed :
       /\ pieceTree' = PiecesInserted(pieceTree, r.at, r.pieces)
       /\ treeText' = TextSpliced(r.at, r.at,
                                  FlattenSeq([k \in DOMAIN r.pieces |-> Bytes(r.pieces[k])]))
  /\ removed' = {} /\ UNCHANGED buffers

TreeNext == TypeInto \/ ReplaceText \/ PutBack

TreeSpec == TreeInit /\ [][TreeNext]_treeVars

-----------------------------------------------------------------------------
(* Properties. *)

RECURSIVE NodesAreSound(_)
NodesAreSound(node) ==
  node.count = 0 \/
    /\ node = Summed(node)
    /\ node.left.height <= node.right.height + 1 /\ node.right.height <= node.left.height + 1
    /\ \A n \in node.piece.chars : n = Scalars(Bytes(node.piece))
    /\ NodesAreSound(node.left) /\ NodesAreSound(node.right)

\* After any splices the tree is balanced, its sums are those of its pieces and
\* its pieces spell the document; and every byte is found in its piece, every
\* range has the scalars of its text, and the n-th of them ends where it does in
\* the text, whether the counts are cached or asked for.
TreeIsExact ==
  LET ps == PiecesFrom(pieceTree, 0)
      spelt == FlattenSeq([k \in DOMAIN ps |-> Bytes(ps[k])])
      ends == [at \in TreeBoundaries |-> Scalars(Upto(treeText, at))]
  IN  /\ NodesAreSound(pieceTree)
      /\ Len(ps) = pieceTree.count /\ spelt = treeText
      /\ \A at \in 0..Len(treeText) :
           LET found == PieceAt(at)
           IN  /\ StartOf(pieceTree, found.index) + found.local = at
               /\ \/ found.local < ps[found.index + 1].len
                  \/ at = Len(treeText) /\ found.index = pieceTree.count - 1
      /\ \A from, to \in TreeBoundaries :
           from <= to =>
             /\ CharsWithin(pieceTree, 0, from, to) = ends[to] - ends[from]
             /\ \A at \in TreeBoundaries :
                  at \in from..to => ByteAfterChars(from, to, ends[at] - ends[from]) = at
=============================================================================
