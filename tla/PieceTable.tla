------------------------------ MODULE PieceTable ------------------------------
(***************************************************************************)
(* A text buffer as buffer/piece_table keeps it: pieces over the original  *)
(* text and the add buffer, a cursor, and the undo stack of buffer/undo.rs *)
(* whose transactions hold piece edits, with its byte budget and with the  *)
(* compaction of the add buffer that dropped history makes possible.  The  *)
(* dirty state of app/file_state.rs is refreshed after every edit.         *)
(*                                                                         *)
(* The cursor's row and column are abstracted to its offset: a newline     *)
(* before the cursor is what makes delete_back join two lines.             *)
(***************************************************************************)
EXTENDS Pieces

CONSTANTS
  Scalars,          \* the scalars of a text besides the newline
  Newline,
  Typed,            \* what is typed one at a time
  Pastes,           \* texts a paste or a replacement can insert, of any number of lines
  MaxTransactions,  \* UndoRetentionPolicy.max_transactions
  MaxBytes,         \* UndoRetentionPolicy.max_bytes
  TransactionCost,  \* size_of::<RecordedTransaction>()
  EditCost,         \* size_of::<PieceEdit>()
  PieceCost,        \* size_of::<Piece>()
  CompactMin,       \* ADD_COMPACTION_MIN_RECLAIM_BYTES
  MaxPosition,      \* bound on the position counter, hence on edits
  MaxRanges,        \* bound on the ranges of a batch
  Widths            \* the scalars a range of a batch of several may have

ASSUME PieceTableAssumption ==
  /\ Original \in Seq(Scalars \cup {Newline})
  /\ Typed \subseteq Scalars \cup {Newline} /\ Newline \notin Scalars
  /\ MaxTransactions \in Nat \ {0} /\ MaxPosition \in Nat \ {0}
  /\ {MaxBytes, TransactionCost, EditCost, PieceCost, CompactMin, MaxRanges} \cup Widths \subseteq Nat
  /\ Pastes \subseteq Seq(Scalars \cup {Newline})

VARIABLES
  add, pieces, cursor,
  undo, redo, baseId, nextId, currentId, activeRun,
  retained,         \* retained_bytes of undo and redo
  discarded,        \* discarded_add_bytes since the last compaction check
  savedId, unavailable, dirty,
  savedDoc          \* history variable: the document last opened or saved

storage == <<add, pieces, cursor>>
history == <<undo, redo, baseId, nextId, currentId, activeRun, retained, discarded>>
file    == <<savedId, unavailable, dirty, savedDoc>>
vars    == <<storage, history, file>>

Runs  == {"Typing", "Backspace", "DeleteForward"}
NoRun == "None"

Doc   == Text(pieces, add)
Chars == Scalars \cup {Newline}

-----------------------------------------------------------------------------
(* Transactions and their retained size. *)

BytesOf(edits) ==
  TransactionCost
    + SumOver(LAMBDA e : EditCost + PieceCost * Len(e.pieces) + TotalLen(e.pieces), edits)
AddBytesOf(edits) == SumOver(LAMBDA e : AddLen(e.pieces), edits)

\* docBefore and docAfter are history fields: the documents on both sides.
Transaction(from, to, edits, doc) ==
  [id |-> nextId, before |-> from, after |-> to, edits |-> edits,
   bytes |-> BytesOf(edits), addBytes |-> AddBytesOf(edits),
   docBefore |-> Doc, docAfter |-> doc]

SumBytes(ts)    == SumOver(LAMBDA t : t.bytes, ts)
SumAddBytes(ts) == SumOver(LAMBDA t : t.addBytes, ts)

PiecesOf(ts) ==
  UNION {UNION {ToSet(e.pieces) : e \in ToSet(t.edits)} : t \in ToSet(ts)}

RebaseHistory(ts, live) ==
  [i \in 1..Len(ts) |->
     [ts[i] EXCEPT !.edits =
        [j \in 1..Len(ts[i].edits) |->
           [ts[i].edits[j] EXCEPT !.pieces = RebaseAll(@, live)]]]]

Retained(base, u, r) ==
  {base} \cup {u[i].id : i \in 1..Len(u)} \cup {r[i].id : i \in 1..Len(r)}

\* The prune loop: drop the oldest while more than one is left and a limit is
\* exceeded.
DropCount(u, bytes) ==
  CHOOSE k \in 0..(Len(u) - 1) :
    /\ \/ k = Len(u) - 1
       \/ /\ Len(u) - k <= MaxTransactions
          /\ bytes - SumBytes(SubSeq(u, 1, k)) <= MaxBytes
    /\ \A j \in 0..(k - 1) :
         \/ Len(u) - j > MaxTransactions
         \/ bytes - SumBytes(SubSeq(u, 1, j)) > MaxBytes

RefreshDirty ==
  /\ unavailable' = (unavailable \/ savedId \notin Retained(baseId', undo', redo'))
  /\ dirty' = (unavailable' \/ currentId' # savedId)
  /\ UNCHANGED <<savedId, savedDoc>>

\* The add bytes dropped since the last check, when an edit drops the redo
\* branch and prunes the transactions in gone.
Lost(gone) == discarded + SumAddBytes(redo) + SumAddBytes(gone)

\* The end of every recorded edit: u is the undo side with the new or extended
\* transaction on top, ps and ad are the pieces and add buffer after the edit.
\* Redo is dropped, history is pruned, and once enough dropped add bytes have
\* piled up the add buffer is compacted if that frees enough of it.
Commit(u, bytes, ps, ad, run) ==
  LET k      == DropCount(u, bytes)
      gone   == SubSeq(u, 1, k)
      kept   == SubSeq(u, k + 1, Len(u))
      lost   == Lost(gone)
      check  == lost >= CompactMin /\ Len(ad) >= CompactMin
      live   == AddOffsets(ToSet(ps) \cup PiecesOf(kept))
      free   == Len(ad) - Cardinality(live)
      pack   == check /\ free >= CompactMin /\ free >= (Len(ad) + 3) \div 4
  IN  /\ nextId < MaxPosition
      /\ redo' = <<>>
      /\ undo' = IF pack THEN RebaseHistory(kept, live) ELSE kept
      /\ pieces' = IF pack THEN RebaseAll(ps, live) ELSE ps
      /\ add' = IF pack THEN KeepLive(ad, live) ELSE ad
      /\ baseId' = IF k = 0 THEN baseId ELSE u[k].id
      /\ retained' = bytes - SumBytes(gone)
      /\ discarded' = IF check THEN 0 ELSE lost
      /\ currentId' = nextId
      /\ nextId' = nextId + 1
      /\ activeRun' = run
      /\ RefreshDirty

Record(edits, to, ps, ad, run) ==
  LET t == Transaction(cursor, to, edits, Text(ps, ad))
  IN  Commit(Append(undo, t), retained - SumBytes(redo) + t.bytes, ps, ad, run)

\* The newest transaction with its only edit replaced, at a new position.
Extended(t, to, edit, moreBytes, moreAdd, doc) ==
  [t EXCEPT !.id = nextId, !.after = to, !.edits = <<edit>>, !.docAfter = doc,
            !.bytes = @ + moreBytes, !.addBytes = @ + moreAdd]

\* An active run has no redo branch, so there is none for Commit to drop.
Extend(t, ps, ad) ==
  Commit(Append(Front(undo), t), retained - Last(undo).bytes + t.bytes, ps, ad, activeRun)

-----------------------------------------------------------------------------
Init ==
  /\ add = <<>> /\ pieces = OpenPieces /\ cursor = 0
  /\ undo = <<>> /\ redo = <<>>
  /\ baseId = 0 /\ nextId = 1 /\ currentId = 0
  /\ activeRun = NoRun
  /\ retained = 0 /\ discarded = 0
  /\ savedId = 0 /\ unavailable = FALSE /\ dirty = FALSE
  /\ savedDoc = Original

\* A typed scalar joins the typing run when it continues the run's one piece
\* in the document and in the add buffer alike.
JoinsTyping(at, p) ==
  /\ activeRun = "Typing"
  /\ undo # <<>>
  /\ LET t == Last(undo) IN
       /\ t.after = at
       /\ Len(t.edits) = 1 /\ t.edits[1].op = "Insert" /\ Len(t.edits[1].pieces) = 1
       /\ LET q == t.edits[1].pieces[1]
          IN  t.edits[1].at + q.len = at /\ Adjacent(q, p)

InsertChar(ch) ==
  LET p  == Piece("Add", Len(add), 1)
      ps == InsertScalar(pieces, cursor, p)
      ad == Append(add, ch)
      t  == Last(undo)
      e  == [t.edits[1] EXCEPT !.pieces[1].len = @ + 1]
  IN  /\ cursor' = cursor + 1
      /\ IF JoinsTyping(cursor, p)
         THEN Extend(Extended(t, cursor + 1, e, 1, 1, Text(ps, ad)), ps, ad)
         ELSE Record(<<Insert(cursor, <<p>>)>>, cursor + 1, ps, ad, "Typing")

InsertNewline ==
  LET p == Piece("Add", Len(add), 1)
  IN  /\ cursor' = cursor + 1
      /\ Record(<<Insert(cursor, <<p>>)>>, cursor + 1,
                InsertScalar(pieces, cursor, p), Append(add, Newline), NoRun)

\* Another deleted scalar joins its run when it is next to what the run has
\* removed: in front of it for Backspace, at the same place for Delete.
JoinsDelete(run, at, len) ==
  /\ activeRun = run
  /\ undo # <<>>
  /\ LET t == Last(undo) IN
       /\ Len(t.edits) = 1 /\ t.edits[1].op = "Delete"
       /\ IF run = "Backspace" THEN at + len = t.edits[1].at ELSE at = t.edits[1].at

JoinedAtEnd(run, at, removed) ==
  Delete(at, Last(undo).edits[1].pieces \o removed)
JoinedDelete(run, at, removed) ==
  LET old == Last(undo).edits[1].pieces
  IN  IF run = "Backspace"
      THEN Delete(at, MergeBoundary(removed \o old, Len(removed) + 1))
      ELSE Delete(at, MergeBoundary(old \o removed, Len(old) + 1))

DeleteScalar(run, at) ==
  LET cut == DeleteRange(pieces, at, at + 1)
      t   == Last(undo)
      e   == JoinedDelete(run, at, cut.removed)
      n   == Len(e.pieces) - Len(t.edits[1].pieces)
  IN  /\ cursor' = at
      /\ IF JoinsDelete(run, at, 1)
         THEN Extend(Extended(t, at, e, 1 + PieceCost * n, AddLen(cut.removed),
                              Text(cut.pieces, add)),
                     cut.pieces, add)
         ELSE Record(<<Delete(at, cut.removed)>>, at, cut.pieces, add, run)

\* Removing a newline is a transaction of its own.
JoinLines(at) ==
  LET cut == DeleteRange(pieces, at, at + 1)
  IN  /\ cursor' = at
      /\ Record(<<Delete(at, cut.removed)>>, at, cut.pieces, add, NoRun)

EndRun ==
  /\ activeRun' = NoRun
  /\ UNCHANGED <<add, pieces, undo, redo, baseId, nextId, currentId, retained, discarded, file>>

DeleteBack ==
  \/ /\ cursor > 0
     /\ IF Doc[cursor] = Newline THEN JoinLines(cursor - 1)
        ELSE DeleteScalar("Backspace", cursor - 1)
  \/ cursor = 0 /\ EndRun /\ UNCHANGED cursor

DeleteForward ==
  \/ /\ cursor < Len(Doc)
     /\ IF Doc[cursor + 1] = Newline THEN JoinLines(cursor)
        ELSE DeleteScalar("DeleteForward", cursor)
  \/ cursor = Len(Doc) /\ EndRun /\ UNCHANGED cursor

Move(to) == cursor' = to /\ EndRun

\* What replacing one range by new makes of the pieces and of the edits so far.
ReplaceOne(acc, r, new) ==
  LET cut == DeleteRange(acc.pieces, r[1], r[2])
      del == IF cut.removed = <<>> THEN <<>> ELSE <<Delete(r[1], cut.removed)>>
      ins == IF new = <<>> THEN <<>> ELSE <<Insert(r[1], new)>>
  IN  [pieces |-> InsertPieces(cut.pieces, r[1], new),
       edits  |-> acc.edits \o del \o ins]
ReplaceEach(acc, ranges, new) == Along(LAMBDA x, r : ReplaceOne(x, r, new), acc, ranges)

\* Replace ranges, given from the end of the document to its start, by one
\* text.  Every range gets the same piece of the add buffer.  A single
\* replacement (replace_range) is the batch of one.
ReplaceRanges(ranges, text) ==
  LET new  == IF text = <<>> THEN <<>> ELSE <<Piece("Add", Len(add), Len(text))>>
      done == ReplaceEach([pieces |-> pieces, edits |-> <<>>], ranges, new)
      to   == Last(ranges)[1] + Len(text)
  IN  /\ cursor' = to
      /\ Record(done.edits, to, done.pieces, add \o text, NoRun)

Undo ==
  /\ undo # <<>>
  /\ LET t == Last(undo) IN
       /\ pieces' = RevertEdits(pieces, t.edits)
       /\ cursor' = t.before
       /\ undo' = Front(undo)
       /\ redo' = Append(redo, t)
  /\ currentId' = IF undo' = <<>> THEN baseId ELSE Last(undo').id
  /\ activeRun' = NoRun
  /\ UNCHANGED <<add, baseId, nextId, retained, discarded>>
  /\ RefreshDirty

Redo ==
  /\ redo # <<>>
  /\ LET t == Last(redo) IN
       /\ pieces' = ApplyEdits(pieces, t.edits)
       /\ cursor' = t.after
       /\ undo' = Append(undo, t)
       /\ redo' = Front(redo)
       /\ currentId' = t.id
  /\ activeRun' = NoRun
  /\ UNCHANGED <<add, baseId, nextId, retained, discarded>>
  /\ RefreshDirty

\* Saving under the position of the next edit, and without ending the run.
SaveAsNext ==
  /\ activeRun' = NoRun
  /\ savedId' = nextId
  /\ unavailable' = FALSE
  /\ dirty' = FALSE
  /\ savedDoc' = Doc
  /\ UNCHANGED <<storage, undo, redo, baseId, nextId, currentId, retained, discarded>>
SaveInRun ==
  /\ activeRun' = activeRun
  /\ savedId' = currentId
  /\ unavailable' = FALSE
  /\ dirty' = FALSE
  /\ savedDoc' = Doc
  /\ UNCHANGED <<storage, undo, redo, baseId, nextId, currentId, retained, discarded>>

Save ==
  /\ activeRun' = NoRun
  /\ savedId' = currentId
  /\ unavailable' = FALSE
  /\ dirty' = FALSE
  /\ savedDoc' = Doc
  /\ UNCHANGED <<storage, undo, redo, baseId, nextId, currentId, retained, discarded>>

\* The batches that snapshot_ranges accepts, in its order: from the end of the
\* document to its start, without an overlap and without two ranges that begin
\* at the same place.  A batch of one is any range that is not a no-op.
Batches(text) ==
  LET n == Len(Doc)
      R == {r \in (0..n) \X (0..n) : r[1] < r[2] \/ (r[1] = r[2] /\ text # <<>>)}
      Narrow == {r \in R : r[2] - r[1] \in Widths}
  IN {<<r>> : r \in R}
       \cup {s \in UNION {[1..m -> Narrow] : m \in 2..MaxRanges} :
               \A k \in 2..Len(s) : s[k][2] <= s[k - 1][1] /\ s[k][1] # s[k - 1][1]}

Next ==
  \/ \E ch \in Typed \ {Newline} : InsertChar(ch)
  \/ Newline \in Typed /\ InsertNewline
  \/ DeleteBack
  \/ DeleteForward
  \/ \E to \in 0..Len(Doc) : Move(to)
  \/ /\ nextId < MaxPosition
     /\ \E text \in Pastes : \E ranges \in Batches(text) : ReplaceRanges(ranges, text)
  \/ Undo
  \/ Redo
  \/ Save

Spec == Init /\ [][Next]_vars

-----------------------------------------------------------------------------
(* Properties. *)

InSource(p) ==
  /\ p.src \in {"Original", "Add"}
  /\ p.start + p.len <= Len(IF p.src = "Add" THEN add ELSE Original)

\* Types; and no piece, in the document or in the history, ever points outside
\* its source: what compaction moves, it moves everywhere.
TypeOK ==
  /\ add \in Seq(Chars)
  /\ cursor \in 0..Len(Doc)
  /\ nextId \in 1..MaxPosition
  /\ {baseId, currentId, savedId} \subseteq 0..(nextId - 1)
  /\ activeRun \in Runs \cup {NoRun}
  /\ {unavailable, dirty} \subseteq BOOLEAN
  /\ retained \in Nat /\ discarded \in Nat
  /\ \A p \in ToSet(pieces) \cup PiecesOf(undo) \cup PiecesOf(redo) : InSource(p)

\* The cached sizes the byte budget is decided on are the real ones, although
\* a run updates them by increments and pruning by differences; and by those
\* sizes the history, undo and redo together, is within both limits unless it is
\* down to one transaction.
AccountingExact ==
  /\ retained = SumBytes(undo) + SumBytes(redo)
  /\ \A t \in ToSet(undo) \cup ToSet(redo) :
       t.bytes = BytesOf(t.edits) /\ t.addBytes = AddBytesOf(t.edits)
  /\ Len(undo) + Len(redo) > 1 =>
       Len(undo) + Len(redo) <= MaxTransactions /\ retained <= MaxBytes

\* Add-buffer bytes nothing refers to any more are all accounted for: what
\* was dropped since the last check, and what that check judged not worth it.
GarbageBounded ==
  LET live    == AddOffsets(ToSet(pieces) \cup PiecesOf(undo) \cup PiecesOf(redo))
      garbage == Len(add) - Cardinality(live)
  IN  garbage <= discarded \/ garbage - discarded < CompactMin
        \/ garbage - discarded < (Len(add) + 3) \div 4

\* Undo and redo are exact: reverting the retained edits one by one from the
\* present document passes through exactly the documents that were there, and
\* so does applying the redo edits, whatever runs, prunes and compactions did
\* to the pieces meanwhile.
HistoryReplays ==
  LET n == Len(undo)
      m == Len(redo)
      back[i \in 0..n] == IF i = n THEN pieces ELSE RevertEdits(back[i + 1], undo[i + 1].edits)
      on[i \in 1..(m + 1)] == IF i = m + 1 THEN pieces ELSE ApplyEdits(on[i + 1], redo[i].edits)
  IN  /\ \A i \in 1..n : Text(back[i - 1], add) = undo[i].docBefore
      /\ \A i \in 1..m : Text(on[i], add) = redo[i].docAfter

\* After any sequence of edits the history replays, and what the pieces refer to, what
\* the history is charged for and what compaction may reclaim agree with the add buffer.
HistoryIsExact == TypeOK /\ AccountingExact /\ GarbageBounded /\ HistoryReplays

-----------------------------------------------------------------------------
(* The abstract history: each transaction links two documents. *)

Abstract(ts) ==
  [i \in 1..Len(ts) |->
     [id |-> ts[i].id, before |-> ts[i].docBefore, after |-> ts[i].docAfter]]

History == INSTANCE UndoHistory WITH
             Content <- Seq(Chars), doc <- Doc,
             undo <- Abstract(undo), redo <- Abstract(redo)

\* The piece table keeps the promises of an edit history.
ImplementsHistory == History!Spec
=============================================================================
