----------------------------- MODULE PagedHistory -----------------------------
(***************************************************************************)
(* A file opened page by page (buffer/paged_file.rs and its history.rs,    *)
(* stream.rs and buffer_impl.rs): each page is a piece table with a        *)
(* history of its own that never prunes by itself, and one global history  *)
(* orders the transactions of all pages.  Only the active page and the     *)
(* pages that are needed again are in memory; every other page is read     *)
(* from the file when it is activated, and copied from it by a save.       *)
(*                                                                         *)
(* A page's text is an opaque value; cursors are abstracted, so an edit    *)
(* that crosses to the neighbour page may happen at any time.              *)
(***************************************************************************)
EXTENDS Naturals, Sequences, SequencesExt, FiniteSetsExt, Functions

CONSTANTS
  LastPage,         \* pages are 1..LastPage
  PageTexts,        \* what a page can hold
  Original,         \* what every page of the file holds
  Sizes,            \* the bytes a new transaction may retain
  Overhead,         \* size_of::<PageTransaction>()
  MaxTransactions, MaxBytes,   \* UndoRetentionPolicy
  MaxPosition       \* bound on the position counter

ASSUME PagedHistoryAssumption ==
  /\ LastPage \in Nat \ {0} /\ Original \in PageTexts
  /\ Sizes \subseteq Nat /\ Overhead \in Nat
  /\ {MaxTransactions, MaxPosition} \subseteq Nat \ {0} /\ MaxBytes \in Nat

VARIABLES
  onScreen,     \* the page on screen
  pages,        \* the pages in memory: active and `retained`
  undo, redo,   \* PageHistory: oldest first, and undone last last
  baseId, nextId, currentId,
  retained,     \* PageHistory.retained_estimate_bytes
  savedId, unavailable, modified, savedDoc   \* FileState, see UndoHistory

history == <<undo, redo, baseId, nextId, currentId, retained>>
fileState    == <<savedId, unavailable, modified, savedDoc>>
pagesVars    == <<onScreen, pages, history, fileState>>

Pages == 1..LastPage
NoRun == "None"
Runs  == {"Typing", "Backspace", "DeleteForward"}

-----------------------------------------------------------------------------
(* One page: a PieceTable with external history retention. *)

Load == [text |-> Original, undo |-> <<>>, redo |-> <<>>,
         base |-> 0, next |-> 1, current |-> 0, run |-> NoRun]

FinishRun(page) == [page EXCEPT !.run = NoRun]

\* A page may be dropped only if the file still says all there is to know of it.
NeedsRetentionForHistory(page) == page.undo # <<>> \/ page.redo # <<>>
NeedsRetention(page) == page.undo # <<>> \/ page.redo # <<>> \/ page.current # 0

\* An edit that is a transaction of its own, or starts a run.
RecordLocally(page, text, bytes, run) ==
  [page EXCEPT
     !.text = text, !.redo = <<>>, !.run = run,
     !.undo = Append(@, [before |-> page.text, after |-> text, bytes |-> bytes,
                         id |-> page.next]),
     !.current = page.next, !.next = @ + 1]

\* A scalar that extends the newest transaction, which takes a new position.
Extended(page, text) ==
  [page EXCEPT
     !.text = text,
     !.undo = Append(Front(page.undo),
                     [Last(page.undo) EXCEPT !.after = text, !.bytes = @ + 1,
                                             !.id = page.next]),
     !.current = page.next, !.next = @ + 1]

LocalEdits(page) ==
  {RecordLocally(page, text, bytes, run) :
     text \in PageTexts \ {page.text}, bytes \in Sizes, run \in Runs \cup {NoRun}}
  \cup (IF page.run = NoRun THEN {} ELSE {Extended(page, text) : text \in PageTexts})

ClearRedo(page) == [page EXCEPT !.redo = <<>>]

\* discard_oldest_undo_transactions: the newest transaction of an active run stays.
DiscardKeepingBase(page, count) ==
  [page EXCEPT !.undo = SubSeq(@, count + 1, Len(@))]
DiscardLocally(page, count) ==
  LET most == Len(page.undo) - (IF page.run = NoRun THEN 0 ELSE 1)
      k == IF count < most THEN count ELSE most
  IN  IF k <= 0 THEN page
      ELSE [page EXCEPT !.base = page.undo[k].id,
                        !.undo = SubSeq(@, k + 1, Len(@))]

Undone(page) ==
  IF page.undo = <<>> THEN FinishRun(page)
  ELSE LET rest == Front(page.undo)
       IN  [page EXCEPT !.text = Last(page.undo).before, !.run = NoRun,
                        !.undo = rest, !.redo = Append(@, Last(page.undo)),
                        !.current = IF rest = <<>> THEN page.base ELSE Last(rest).id]

Redone(page) ==
  IF page.redo = <<>> THEN FinishRun(page)
  ELSE [page EXCEPT !.text = Last(page.redo).after, !.run = NoRun,
                    !.redo = Front(@), !.undo = Append(@, Last(page.redo)),
                    !.current = Last(page.redo).id]

-----------------------------------------------------------------------------
(* Lists of transactions of all pages. *)

\* Those of page p.
Own(s, p) ==
  LET own[k \in 0..Len(s)] ==
        IF k = 0 THEN <<>>
        ELSE IF s[k].page = p THEN Append(own[k - 1], s[k]) ELSE own[k - 1]
  IN  own[Len(s)]

\* What they retain.
Bytes(s) ==
  LET sum[k \in 0..Len(s)] == IF k = 0 THEN 0 ELSE sum[k - 1] + s[k].bytes
  IN  sum[Len(s)]

-----------------------------------------------------------------------------
(* The pages in memory. *)

\* park_active: the page that leaves ends its run and is kept if it must be.
Park(mem, from) ==
  LET page == FinishRun(mem[from])
  IN  IF NeedsRetention(page) THEN [mem EXCEPT ![from] = page]
      ELSE Restrict(mem, DOMAIN mem \ {from})

\* activate_page, activate_retained.
Activate(mem, from, to) ==
  IF to = from THEN mem
  ELSE LET parked == Park(mem, from)
       IN  [p \in DOMAIN parked \cup {to} |-> IF p \in DOMAIN mem THEN parked[p] ELSE Load]

\* apply_history_change, with the clean-up of pages nobody needs any more.
ApplyChange(mem, at, redone, pruned) ==
  LET touched == [p \in DOMAIN mem |->
                    DiscardLocally(IF \E i \in DOMAIN redone : redone[i].page = p
                                   THEN ClearRedo(mem[p]) ELSE mem[p], Len(Own(pruned, p)))]
  IN  Restrict(touched, {p \in DOMAIN mem : p = at \/ NeedsRetention(touched[p])})

Text(mem, p) == IF p \in DOMAIN mem THEN mem[p].text ELSE Original
Whole(mem)   == [p \in Pages |-> Text(mem, p)]
document     == Whole(pages)

\* What stream_document writes: a page at local position 0 is copied from the file.
streamed ==
  [p \in Pages |-> IF p \in DOMAIN pages /\ pages[p].current # 0
                   THEN pages[p].text ELSE Original]

History ==
  INSTANCE UndoHistory WITH
    Content   <- [Pages -> PageTexts],
    doc       <- document,
    undo      <- [i \in DOMAIN undo |-> [id |-> undo[i].id, before |-> undo[i].before,
                                         after |-> undo[i].after]],
    redo      <- [i \in DOMAIN redo |-> [id |-> redo[i].id, before |-> redo[i].before,
                                         after |-> redo[i].after]],
    dirty     <- modified,
    activeRun <- pages[onScreen].run

-----------------------------------------------------------------------------
(* The global history. *)

\* prune_undo: how many of the oldest of u go when they retain `total`.
PruneCountByNumber(u, total) ==
  IF Len(u) > MaxTransactions THEN Len(u) - MaxTransactions ELSE 0
PruneCount(u, total) ==
  LET Enough(k) == Len(u) - k <= MaxTransactions
                   /\ total - Bytes(SubSeq(u, 1, k)) <= MaxBytes
  IN  Min({k \in 0..(Len(u) - 1) : Enough(k)} \cup {Len(u) - 1})

\* record, extend_current: the newest transaction is t, whichever came before.
CommitChange(mem, at, older, t, redone, total) ==
  LET u == Append(older, t)
      k == PruneCount(u, total)
      pruned == SubSeq(u, 1, k)
  IN  /\ undo' = SubSeq(u, k + 1, Len(u))
      /\ baseId' = IF k = 0 THEN baseId ELSE u[k].id
      /\ currentId' = nextId /\ nextId' = nextId + 1
      /\ retained' = total - Bytes(pruned)
      /\ onScreen' = at
      /\ pages' = ApplyChange(mem, at, redone, pruned)

\* mutate_active on page `at`, which mem holds: an edit that leaves the number
\* of the page's transactions alone has extended the newest one.
Mutate(mem, at) ==
  /\ nextId < MaxPosition
  /\ \E page \in LocalEdits(mem[at]) :
       LET after == [mem EXCEPT ![at] = page]
           bytes == Last(page.undo).bytes + Overhead
           extends == Len(page.undo) = Len(mem[at].undo)
       IN  IF extends /\ undo # <<>>
           THEN /\ CommitChange(after, at, Front(undo),
                          [Last(undo) EXCEPT !.id = nextId, !.bytes = bytes,
                                             !.after = Whole(after)],
                          <<>>, retained - Last(undo).bytes + bytes)
                /\ UNCHANGED redo
           ELSE /\ CommitChange(after, at, undo,
                          [page |-> at, id |-> nextId, bytes |-> bytes,
                           before |-> document, after |-> Whole(after)],
                          redo, retained - Bytes(redo) + bytes)
                /\ redo' = <<>>
  /\ History!RefreshDirty

PagesInit ==
  /\ onScreen = 1 /\ pages = [p \in {1} |-> Load]
  /\ undo = <<>> /\ redo = <<>>
  /\ baseId = 0 /\ nextId = 1 /\ currentId = 0 /\ retained = 0
  /\ savedId = 0 /\ unavailable = FALSE /\ modified = FALSE /\ savedDoc = document

EditPage == Mutate(pages, onScreen)

\* Delete at the end of a page, or backspace at its start: the edit is made on
\* the neighbour, which becomes the active page.
EditNeighbour ==
  \E to \in Pages \cap {onScreen - 1, onScreen + 1} :
     Mutate(Activate(pages, onScreen, to), to)

\* A cursor move, or a page change that cannot read its page.
EndRun ==
  /\ pages[onScreen].run # NoRun
  /\ pages' = [pages EXCEPT ![onScreen] = FinishRun(@)]
  /\ UNCHANGED <<onScreen, history, fileState>>

\* Page up, page down, or a search hit on any page.
ChangePage ==
  \E to \in Pages \ {onScreen} :
     /\ pages' = Activate(pages, onScreen, to)
     /\ onScreen' = to
     /\ UNCHANGED <<history, fileState>>

Undo ==
  /\ undo # <<>>
  /\ LET t == Last(undo)
         mem == Activate(pages, onScreen, t.page)
     IN  /\ onScreen' = t.page
         /\ pages' = [mem EXCEPT ![t.page] = Undone(@)]
         /\ undo' = Front(undo) /\ redo' = Append(redo, t)
         /\ currentId' = IF undo' = <<>> THEN baseId ELSE Last(undo').id
  /\ UNCHANGED <<baseId, nextId, retained>>
  /\ History!RefreshDirty

Redo ==
  /\ redo # <<>>
  /\ LET t == Last(redo)
         mem == Activate(pages, onScreen, t.page)
     IN  /\ onScreen' = t.page
         /\ pages' = [mem EXCEPT ![t.page] = Redone(@)]
         /\ undo' = Append(undo, t) /\ redo' = Front(redo)
         /\ currentId' = t.id
  /\ UNCHANGED <<baseId, nextId, retained>>
  /\ History!RefreshDirty

\* A save writes what stream_document gives; the buffer keeps its descriptor.
SavePages ==
  /\ pages' = [pages EXCEPT ![onScreen] = FinishRun(@)]
  /\ savedId' = currentId /\ unavailable' = FALSE /\ modified' = FALSE
  /\ savedDoc' = streamed
  /\ UNCHANGED <<onScreen, history>>

PagesNext == EditPage \/ EditNeighbour \/ EndRun \/ ChangePage \/ Undo \/ Redo \/ SavePages

PagesSpec == PagesInit /\ [][PagesNext]_pagesVars

-----------------------------------------------------------------------------
(* Properties. *)

PageChange == [before : PageTexts, after : PageTexts, bytes : Nat, id : 1..MaxPosition]

PagesTypeOK ==
  /\ onScreen \in DOMAIN pages /\ DOMAIN pages \subseteq Pages
  /\ \A p \in DOMAIN pages :
       /\ pages[p].text \in PageTexts /\ pages[p].run \in Runs \cup {NoRun}
       /\ \A i \in DOMAIN pages[p].undo : pages[p].undo[i] \in PageChange
       /\ \A i \in DOMAIN pages[p].redo : pages[p].redo[i] \in PageChange
       /\ p # onScreen => pages[p].run = NoRun
  /\ {baseId, currentId, savedId} \subseteq 0..(nextId - 1) /\ nextId \in 1..MaxPosition

\* A page's own history is the global history as far as it is about that page:
\* a global undo always finds, as the newest of its page, the very change it
\* is to take back, with the bytes it accounted for.
Local(s, p) ==
  LET own == Own(s, p)
  IN  [i \in DOMAIN own |-> <<own[i].before[p], own[i].after[p], own[i].bytes>>]
Held(s) == [i \in DOMAIN s |-> <<s[i].before, s[i].after, s[i].bytes + Overhead>>]
LocalFollowsGlobal ==
  \A p \in DOMAIN pages :
     /\ Held(pages[p].undo) = Local(undo, p)
     /\ Held(pages[p].redo) = Local(redo, p)

\* What the code takes for granted over steps that drop pages and prune:
\* "edited page must remain retained for undo" (paged_file.rs:291), and for
\* redo, a page some transaction goes back to is in memory; and "only the
\* newest global page transaction may extend" (history.rs:86), a run that is
\* open on the active page is the newest transaction of all pages.
ExpectationsHold ==
  /\ \A s \in {undo, redo} : \A i \in DOMAIN s : s[i].page \in DOMAIN pages
  /\ pages[onScreen].run # NoRun => undo # <<>> /\ redo = <<>> /\ Last(undo).page = onScreen

\* A save that copies from the file every page that stands at its first
\* position writes the document as edited.
StreamIsDocument == streamed = document

\* The estimate that drives pruning is the sum it stands for, and exceeds the
\* budget only for a transaction that does so alone.
EstimateExact ==
  /\ retained = Bytes(undo) + Bytes(redo)
  /\ retained <= MaxBytes \/ Len(undo) + Len(redo) = 1

\* The two levels of history never fall out of step, in pages on screen or off it.
HistoriesInStep == PagesTypeOK /\ LocalFollowsGlobal /\ ExpectationsHold /\ EstimateExact

\* The pages together are one document with one history: leaving a page,
\* dropping it and reading it again changes nothing, and undo and redo
\* walk through the edits of all pages in the order they were made.
ImplementsHistory == History!Spec
=============================================================================
