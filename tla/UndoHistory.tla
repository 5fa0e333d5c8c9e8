----------------------------- MODULE UndoHistory -----------------------------
(***************************************************************************)
(* The edit history of one buffer and the "is it saved?" question that is  *)
(* answered from it: the UndoStack of buffer/undo.rs with the FileState    *)
(* fields of app/file_state.rs.                                            *)
(*                                                                         *)
(* A document is an opaque value of Content.  A transaction links the      *)
(* document before it to the document after it and carries the position    *)
(* (the code's `id`) of the state after it.  How a transaction's piece     *)
(* edits really take one document to the other is the subject of           *)
(* PieceTable, which implements this specification.                        *)
(*                                                                         *)
(* The byte budget of the retention policy is the one thing left open      *)
(* here: a prune may always discard more than the transaction limit asks   *)
(* for.  PieceTable decides it by counting bytes, as the code does.        *)
(***************************************************************************)
EXTENDS Naturals, Sequences

CONSTANTS
  Content,          \* the documents a buffer can hold
  MaxTransactions,  \* UndoRetentionPolicy.max_transactions
  MaxPosition       \* bound on the position counter (u64 in the code)

ASSUME UndoHistoryAssumption ==
  /\ MaxTransactions \in Nat \ {0}
  /\ MaxPosition \in Nat \ {0}

VARIABLES
  doc,          \* the document now
  undo,         \* oldest first
  redo,         \* the transaction undone last is the last one
  baseId,       \* the position before undo[1]
  nextId,       \* the next position to hand out
  currentId,    \* the position of doc
  activeRun,    \* the run the newest transaction may still be extended by
  savedId,      \* FileState.saved_history_position
  unavailable,  \* FileState.saved_history_unavailable
  dirty,        \* FileState.dirty
  savedDoc      \* history variable: the document last opened or saved

history == <<undo, redo, baseId, nextId, currentId, activeRun>>
file    == <<savedId, unavailable, dirty>>
vars    == <<doc, history, file, savedDoc>>

Runs     == {"Typing", "Backspace", "DeleteForward"}
NoRun    == "None"
Position == 0..MaxPosition
Transaction == [id : Position, before : Content, after : Content]

-----------------------------------------------------------------------------
(* The parts of the code every operation goes through. *)

Newest(s)    == s[Len(s)]
AllButNewest(s) == SubSeq(s, 1, Len(s) - 1)

\* The positions the history can still return to.
Retained(base, u, r) ==
  {base} \cup {u[i].id : i \in 1..Len(u)} \cup {r[i].id : i \in 1..Len(r)}

\* How many of the oldest transactions a prune may drop: enough to meet the
\* transaction limit, more under byte pressure, never the newest one.
DropCounts(u) == {k \in 0..(Len(u) - 1) : Len(u) - k <= MaxTransactions}

\* The state once transaction list u has been pruned.
Prune(u) ==
  \E k \in DropCounts(u) :
     /\ undo' = SubSeq(u, k + 1, Len(u))
     /\ baseId' = IF k = 0 THEN baseId ELSE u[k].id

\* Whether the saved position is gone for good is latched; dirty compares it
\* with where the history stands now.
RefreshDirty ==
  /\ unavailable' = (unavailable \/ savedId \notin Retained(baseId', undo', redo'))
  /\ dirty' = (unavailable' \/ currentId' # savedId)
  /\ UNCHANGED <<savedId, savedDoc>>

\* Push with the redo branch left in place, and with positions counted from
\* the present one, so that one handed out before undo is handed out again:
\* what the properties below must catch.
PushKeepingRedo(run) ==
  /\ nextId < MaxPosition
  /\ currentId' = nextId
  /\ nextId' = nextId + 1
  /\ activeRun' = run
  /\ redo' = redo
  /\ doc' \in Content
  /\ Prune(Append(undo, [id |-> nextId, before |-> doc, after |-> doc']))
  /\ RefreshDirty
PushAfterCurrent(run) ==
  /\ nextId < MaxPosition
  /\ currentId' = currentId + 1
  /\ nextId' = nextId + 1
  /\ activeRun' = run
  /\ redo' = <<>>
  /\ doc' \in Content
  /\ Prune(Append(undo, [id |-> currentId + 1, before |-> doc, after |-> doc']))
  /\ RefreshDirty

\* A new newest transaction: it takes the next position, and it ends the
\* branch that undo had left open for redo.
Push(run) ==
  /\ nextId < MaxPosition
  /\ currentId' = nextId
  /\ nextId' = nextId + 1
  /\ activeRun' = run
  /\ redo' = <<>>
  /\ doc' \in Content
  /\ Prune(Append(undo, [id |-> nextId, before |-> doc, after |-> doc']))
  /\ RefreshDirty

-----------------------------------------------------------------------------
(* Opening a document: clean at position 0, or imported from standard input
   with no saved position at all. *)
Init ==
  /\ doc \in Content
  /\ undo = <<>> /\ redo = <<>>
  /\ baseId = 0 /\ nextId = 1 /\ currentId = 0
  /\ activeRun = NoRun
  /\ savedId = 0
  /\ unavailable \in BOOLEAN
  /\ dirty = unavailable
  /\ savedDoc = doc

\* A newline, a paste, a replacement, a line join: independent transactions.
Record == Push(NoRun)

\* One typed or deleted scalar that starts a transaction of its own, because
\* no run of its kind is active or the active one is not adjacent to it.
RecordRun(run) == Push(run)

\* One scalar that extends the newest transaction, which moves to a new
\* position: the position it had is no longer in the history.
ExtendRun(run) ==
  /\ activeRun = run
  /\ undo # <<>>
  /\ nextId < MaxPosition
  /\ doc' \in Content
  /\ Prune(Append(AllButNewest(undo),
                  [id |-> nextId, before |-> Newest(undo).before, after |-> doc']))
  /\ currentId' = nextId
  /\ nextId' = nextId + 1
  /\ UNCHANGED <<redo, activeRun>>
  /\ RefreshDirty

\* A cursor move, or a key that edits nothing, ends the run.
FinishRun ==
  /\ activeRun # NoRun
  /\ activeRun' = NoRun
  /\ UNCHANGED <<doc, undo, redo, baseId, nextId, currentId, file, savedDoc>>

Undo ==
  /\ undo # <<>>
  /\ doc' = Newest(undo).before
  /\ undo' = AllButNewest(undo)
  /\ redo' = Append(redo, Newest(undo))
  /\ currentId' = IF undo' = <<>> THEN baseId ELSE Newest(undo').id
  /\ activeRun' = NoRun
  /\ UNCHANGED <<baseId, nextId>>
  /\ RefreshDirty

Redo ==
  /\ redo # <<>>
  /\ doc' = Newest(redo).after
  /\ undo' = Append(undo, Newest(redo))
  /\ redo' = AllButNewest(redo)
  /\ currentId' = Newest(redo).id
  /\ activeRun' = NoRun
  /\ UNCHANGED <<baseId, nextId>>
  /\ RefreshDirty

\* Saving under the position of the next edit.
SaveAsNext ==
  /\ activeRun' = NoRun
  /\ savedId' = nextId
  /\ unavailable' = FALSE
  /\ dirty' = FALSE
  /\ savedDoc' = doc
  /\ UNCHANGED <<doc, undo, redo, baseId, nextId, currentId>>

\* A successful save ends the run first, so that typing on cannot move the
\* saved position along, and makes the present position the saved one.
Save ==
  /\ activeRun' = NoRun
  /\ savedId' = currentId
  /\ unavailable' = FALSE
  /\ dirty' = FALSE
  /\ savedDoc' = doc
  /\ UNCHANGED <<doc, undo, redo, baseId, nextId, currentId>>

\* A reload installs a new buffer with an empty history.
Reload ==
  /\ doc' \in Content
  /\ undo' = <<>> /\ redo' = <<>>
  /\ baseId' = 0 /\ nextId' = 1 /\ currentId' = 0
  /\ activeRun' = NoRun
  /\ savedId' = 0
  /\ unavailable' = FALSE
  /\ dirty' = FALSE
  /\ savedDoc' = doc'

Next ==
  \/ Record
  \/ \E run \in Runs : RecordRun(run) \/ ExtendRun(run)
  \/ FinishRun
  \/ Undo
  \/ Redo
  \/ Save
  \/ Reload

Spec == Init /\ [][Next]_vars

-----------------------------------------------------------------------------
(* Properties. *)

InTypes ==
  /\ doc \in Content
  /\ undo \in Seq(Transaction)
  /\ redo \in Seq(Transaction)
  /\ baseId \in Position
  /\ nextId \in Position
  /\ currentId \in Position
  /\ activeRun \in Runs \cup {NoRun}
  /\ savedId \in Position
  /\ unavailable \in BOOLEAN
  /\ dirty \in BOOLEAN
  /\ savedDoc \in Content

\* Every position in use has been handed out: the next edit gets a new one.
TypeOK ==
  /\ InTypes
  /\ {baseId, currentId, savedId} \subseteq 0..(nextId - 1)

\* A buffer shown as clean holds exactly the document that was last opened or
\* saved, however it got there: typing, undoing past the save, redoing back
\* to it, or pruning in between (refresh_dirty compares two numbers only).
CleanIsSaved == ~dirty => doc = savedDoc

\* While the saved position is still in the history, walking there by undo or
\* redo shows the saved document: the position names one document and no other.
SavedPositionHoldsSavedDoc ==
  ~unavailable =>
    /\ \A i \in 1..Len(undo) : undo[i].id = savedId => undo[i].after = savedDoc
    /\ \A i \in 1..Len(redo) : redo[i].id = savedId => redo[i].after = savedDoc
    /\ \A i \in 1..Len(undo) :
         (i = 1 /\ baseId = savedId) => undo[i].before = savedDoc

\* Going back is not a one-way street: undo and redo line up end to end, so
\* any undo followed by a redo, or the reverse, comes back to the same document.
HistoryIsAChain ==
  /\ \A i \in 1..Len(undo) :
       undo[i].after = IF i = Len(undo) THEN doc ELSE undo[i + 1].before
  /\ \A i \in 1..Len(redo) :
       redo[i].before = IF i = Len(redo) THEN doc ELSE redo[i + 1].after

\* The history never keeps more transactions than the policy allows, and undo
\* and redo only move transactions from one side to the other.
WithinTransactionLimit == Len(undo) + Len(redo) <= MaxTransactions

\* Only the newest transaction can be extended, and never past a redo branch:
\* the expectation "an active run has an undo transaction" (undo.rs:552).
ActiveRunIsNewest == activeRun # NoRun => undo # <<>> /\ redo = <<>>

\* A position that left the history never comes back in the same buffer: if it
\* did, a lost save point would turn a modified document clean again.
NoPositionReturns ==
  [][nextId <= nextId' =>
       \A p \in 0..(nextId - 1) :
          p \notin Retained(baseId, undo, redo)
            => p \notin Retained(baseId', undo', redo')]_vars
=============================================================================
