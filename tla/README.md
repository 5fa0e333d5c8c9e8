# TLA+ models of catomic

Catomic is a terminal text editor. This directory holds TLA+ modules that model
the parts of it on which a user's text depends, TLC configurations that check
them on small instances, and proofs checked by TLAPS. Everything here is
translated from the Rust code under `src/`; the tables name the files. Paths
below are relative to `src/src/` unless they start with `docs/`.

Sections: 1 the system, 2 the modules, 3 the runs that pass, 4 the runs that find a
disagreement, 5 what is proved, 6 what is not modelled, 7 what is left.

## 1. The system

One thread runs the event loop (`app/runtime.rs`). Before it waits, and before it
dispatches every event, it polls what the background threads have produced: the
file watcher, the recovery worker, external commands and lint. A key is then
translated to an action and dispatched (`app/input.rs`); `prepare_editor_action`
runs in front of every action. Threads own no editor state: each gets an owned
copy of what it needs and returns one result through a channel. Other processes
share the disk, and nothing else, with the editor.

| Component | State | Operations | Interacts with | What makes it correct |
|---|---|---|---|---|
| Edit history (`buffer/undo.rs`, `app/file_state.rs`) | undo and redo transactions, base/current/next position, the active run, saved position, dirty | record, extend a run, finish a run, undo, redo, prune, save, reload | every buffer; save and reload | clean means saved; a position names one document; undo and redo are inverse; limits hold |
| Piece table (`buffer/piece_table/`) | original source, append-only add buffer, piece tree, cursor, history, retained and discarded byte counts | insert, newline, delete, join, replace range(s), move, undo, redo, compact | history | undo is exact after coalescing, pruning and compaction; no piece points nowhere |
| Paged buffer (`buffer/paged_file*`) | pages, a history per page and one global order | the same over pages, save | history | global undo order; a page that is not in memory is the one in the file |
| Line and cell indexes (`buffer/line_index.rs`, `cell_index.rs`, `large_file/`, `piece_table/file_original.rs`) | checkpoints, treaps of blocks, metadata of a page | scan, build, splice, repair, look up | piece table, paged buffer, rendering | a look-up is the position that splitting the text would give |
| Atomic save (`file/io.rs`, `file/io/atomic_unix.rs`) | staged file, inspected target, position in the protocol | stat, open, create, stream, exchange, unlink, roll back, discard | other processes, failures of system calls, crashes | no torn target, a complete copy at all times, nothing uninspected destroyed |
| Save guard and reload (`app/save.rs`, `app/reload.rs`, `app/confirmation.rs`) | path, baseline snapshot, dirty, armed confirmation, change on display | save, save as, reload, apply, report | atomic save, watcher, other processes | no unseen version overwritten, no unsaved text replaced without two presses |
| Watcher (`app/watch.rs`, `file/watcher.rs`) | the watcher, its queue, its restart count | poll, restart, give up | reload | a change is eventually noticed |
| Recovery sidecars (`app/recovery*`, `file/recovery.rs`) | timer, worker task, revision last written, offered candidate, preview | autosave, collect, save clean-up, offer, preview, apply, cancel | save, reload, buffer ring, other instances | an unsaved text is eventually recoverable; only what was previewed is applied, over what it was previewed against |
| Buffer ring (`app/buffers*`, `app/input.rs`, `app/command_prompt.rs`) | slots, current index, surface with the focus, detour to the configuration | open, switch, close, save as, quit | every per-buffer state | a slot's state travels with its text; nothing unsaved is closed unasked |
| External commands, hooks and lint (`external/task.rs`, `process_pipe.rs`, `app/external_command*`, `app/hooks.rs`, `app/lint*`) | task, pending preview, hook queue, findings | start, poll, cancel, time out, apply, discard | buffer ring, save | nothing outlives a command; output lands only on the text it was computed from |
| Search, goto, replace (`editor/search*`, `app/search.rs`, `app/replace*`) | query, progress, matches, the review | step, cancel, accept, replace | buffer, paged file | an incremental step finds what a full scan finds; each match is decided once |
| Keys and pointer (`app/navigation.rs`, `app/selection*`, `app/indentation.rs`, `app/input/editing.rs`) | cursor, selection, clipboard, drag | move, select, type, cut, copy, paste, indent | buffer, view | cursor and selection stand between graphemes of the text that is there |
| View (`app/viewport.rs`, `app/view.rs`, `app/help.rs`, `terminal/render/`, `terminal/screen.rs`) | scroll origin, size, soft wrap, overlay | reveal, scroll, wrap, resize, show help or preview | keys and pointer | the cursor is on screen; a click finds what is drawn there |
| Terminal session (`terminal/session.rs`, `terminal/signal.rs`) | raw mode, screen modes, pending signal and resize | set up, restore, signal, panic | runtime | the terminal is restored on every exit path |
| Self-update (`update/`) | backup, staged binary, workspace, stash | download or build, check, replace, roll back, merge | network, git, cargo, the user's checkout | a failed update leaves a working binary and the user's changes |
| Text formats, clipboard helper, styles and highlighting, configuration, command line | – | – | – | presentation, parsing and static data |

The behaviours that are hard, and hard to test: the disk changes between any two
looks at it; a save can fail or die between any two system calls; a confirmation
is pressed some time after the thing it confirms was shown; watcher events
interleave with keys; a history position must never stand for two documents; the
add buffer moves under pieces that undo still needs; results of background work
arrive after the text they were computed from has changed; an index is repaired
only around an edit; an updater is killed between a stash and its return.
`PROJECT.json` lists them under `hazards`, each at its line.

## 2. The modules

| Module | Models | Level |
|---|---|---|
| `UndoHistory` | `buffer/undo.rs`, `app/file_state.rs` | abstract: a document is one value |
| `Pieces` | the piece sequence operations of `buffer/piece_table/` | operators |
| `PieceTable` | `buffer/piece_table/` with its history, retention and compaction | detailed; implements `UndoHistory` |
| `PieceTree` | `buffer/piece_table/piece_tree.rs`, the splices of `edit.rs`, the look-ups of `query.rs` | one action per edit |
| `PagedHistory` | `buffer/paged_file*` | detailed; implements `UndoHistory` |
| `Ring` | what the open buffers promise the user | abstract: a list and a place in it |
| `BufferRing` | `app/buffers*`, `app/command_prompt.rs`, quit and the detour of `app/input.rs` | one action per key or command; implements `Ring` |
| `AtomicWrite` | `atomic_write_with` and its Linux commit | one action per system call |
| `FileSync` | save guard, reload, confirmations, watcher | one action per look at the disk |
| `Catnap` | recovery sidecars, autosave worker, offer and preview | one action per poll, key or worker step |
| `ExternalTask` | `external/task.rs`, `process_pipe.rs` | one action per step of a thread |
| `Workers` | `app/external_command*`, `app/hooks.rs`, `app/lint.rs` | one action per poll or key |
| `Terminal` | `terminal/session.rs`, `terminal/signal.rs`, the loop of `app/runtime.rs` | one action per write, signal or read |
| `Update` | `update/` | one action per call to git, cargo, network or file system |
| `Literal` | texts of bytes and the matcher of `editor/search/literal.rs` | operators |
| `Search` | `editor/search.rs`, `editor/goto_line.rs`, `app/search.rs` | one action per poll, worker step or key |
| `ReplaceReview` | `app/replace/review.rs`, `editor/search/forward.rs` | one action per batch or key |
| `FileOriginal` | `buffer/large_file/scan.rs`, `page_scan.rs`, `buffer/piece_table/file_original.rs` | operators |
| `LineIndex` | `buffer/line_index.rs`, `scalar_index.rs` | one action per chunk or edit |
| `Graphemes` | `editor/text_layout.rs` | operators |
| `CellIndex` | `buffer/cell_index.rs` | one action per chunk, edit or step of a repair |
| `Positions`, `Editing` | the cursor, the selection and the keys that edit | one action per key or gesture |
| `View` | `app/viewport.rs`, `app/view.rs`, `app/help.rs`, `terminal/render/` | one action per key, wheel, click or resize |
| `…Proofs` (7), `FoldFacts` | – | the proofs of section 5, and the lemmas they share |
| `MC…` | – | small instances |

How they compose. `PieceTable` composes `Pieces` and refines `UndoHistory`
(`ImplementsHistory`, an `INSTANCE … WITH` whose mapping reads each transaction as the
pair of documents on its two sides); `PagedHistory` refines it over the whole file.
`BufferRing` refines `Ring`. `FileSync` takes the outcome of `AtomicWrite` as one step:
`Commit` replaces only the version that `Inspect` saw, which is what
`SuccessReplacesInspected` establishes. `FileSync`, `BufferRing` and `Workers` reduce the
history to the bit `dirty`, which is what `CleanIsSaved` establishes. `Workers` takes
a command as one result that arrives at some poll, or never: that its output is whole
and that it ends is what `OutputIsComplete` and `TasksEnd` of `ExternalTask` establish.
`View` and `Editing` split the surface: `Editing` says what the keys do to text, cursor
and selection, with the pointer putting the cursor anywhere; `View` says where the
pointer leads and what is shown, with the keys leaving any text and cursor.

### UndoHistory

`undo`, `redo`, `baseId`, `nextId`, `currentId`, `activeRun` are the fields of
`UndoStack`; `savedId`, `unavailable` and `dirty` those of `FileState`; `savedDoc`
is a history variable. `Record`, `RecordRun`, `ExtendRun`, `FinishRun`, `Undo`,
`Redo` are its methods, each with the prune and the `refresh_dirty` that follow
it in the code; `Save` is `mark_saved`, `Reload` the installation of a new buffer.
How many of the oldest transactions a prune drops is bounded below by the
transaction limit and otherwise free, since the byte budget needs the pieces.

### Pieces and PieceTable

A document is a sequence of scalars, and one scalar is one byte: UTF-8 widths and
the indexes are elsewhere (`LineIndex`, `CellIndex`), and the balanced piece tree is
the sequence of its pieces (`PieceTree` has the tree), so a piece is a source, a start
and a length. Kept: the
splitting and merging of pieces at an edit, coalescing of typing and delete runs, the
exact retained-byte arithmetic, the prune loop, the trigger of compaction with its
three thresholds, and the rewriting of every piece of the document and of the history.
`docBefore` and `docAfter` of a transaction are history fields. A batch of replacements is
any list of ranges that `snapshot_ranges` accepts; the run has batches of at most two
one-scalar ranges (`MaxRanges`, `Widths`), the theorem has no such limit. A paste or a
replacement may have any number of lines: it is one transaction whose text has newlines.

### PieceTree

The AVL tree under the pieces: nodes are nested records with the sums they cache, an
`Option` is a set with at most one element, and bytes are those of `Literal`, so a
character can have two. `TypeInto`, `ReplaceText` and `PutBack` are an insertion at the
cursor, a replacement or deletion, and the undo of a deletion, with everything they do to
the tree: the search of the piece, its division, the joining with its neighbours, two
splits, two concatenations and their rotations. `TreeIsExact` says that the tree is
balanced, that every cached sum is the sum, that the pieces spell the document, and that
bytes and scalars are turned into each other as in the text. It is part of
`IndexIsExact`: `LineIndex` runs the tree as one of its subjects. Cursor, history and the
remapping after a compaction are in `PieceTable`.

### PagedHistory

`pages` are the pages in memory (`active` and `retained`), each a record of a piece
table's own history with external retention; `undo` … `retained` are the fields of
`PageHistory`. `Mutate` is `mutate_active` with the record or extension of the
global transaction, its prune, and `apply_history_change` over all pages. A page's
text is opaque and its cursor abstracted, so `EditNeighbour` may happen at any
time. `streamed` is what a save writes: pages that stand at their first position are
copied from the file. `before` and `after` of a transaction are history fields. The folds
over the lists (`Own`, `Bytes`) are recursive functions, so that they can be proved about. Not
modelled: the trust in the descriptor, the preservation of the backing across a save.

### Ring and BufferRing

`Ring` is a list of open buffers and the place of the one shown. `BufferRing` has what
the code has: fourteen fields of `App` for the active buffer and a deque of slots for
the others. A slot is a record with one entry per field, each naming the document it
belongs to, so a field that does not travel with its text shows. The text of a document
is only whether it is unsaved. Typed commands, prompts, the confirmation of a second
Ctrl+Q, Save As under a name another buffer has, the detour to the configuration file
and its templates are the actions. `Alias` is a link to the configuration file. "command"
stands for every one-line prompt, "view" for the read-only views and the replace prompts.
The confirmations of save conflict and reload are in `FileSync`, background work in
`Workers`. A created configuration file that cannot be read again ends the editor with the
error (`app/command_prompt.rs:490`) and is left out. A prompt that stays open when Ctrl+Q
leaves the configuration buffer is modelled and no property rules it out.

### AtomicWrite

A directory entry names an inode; an inode has data, a `stamp` (the size, mtime
and mode that `UnixMetadata` compares) and a `ctime`. Every system call of the
save that another process can get in front of is one action; each may fail by
itself. The other process replaces, rewrites, links, re-modes and removes the
target. Assumptions: a rewrite by another process moves the stamp (a rewrite of
the same size within one timestamp tick is invisible to the code and left out);
the staging name is fresh; a crash is the death of the process, so what was
written stays. `HardLinked` targets take the in-place path, and the properties
that cannot hold for them (the code warns of it) exclude them by name. What the
properties do not say: the rollback of a save that fails can put back the version it
displaced over one that came after it (`file/io/atomic_unix.rs:560`), so a failed save
can remove a second external version; `SuccessReplacesInspected` is about saves that
succeed.

### FileSync

A version stands for a `FileSnapshot`; every write makes a new one. Keys and the
watcher poll happen between operations; a save is `Inspect`, `Commit`,
`RewatchSaved`, `Capture`, a reload `Read`, `Apply`, `RewatchLoaded`, and the other
process acts in front of any of these. `CaptureMayFail` lets a look at the disk
fail. `known` and `pressed` are history variables: which paths hold a version that
was loaded, written or confirmed, and what the last Ctrl+R asked.

The code looks at the file several times and compares only some of the looks.
`InWindow` names the three windows in which a version that arrives is not compared
with anything: between the conflict check of a save and the inspection of the
writer (that version is overwritten without a word), between the commit and the
capture of the new baseline (it is adopted as saved, and overwritten by the next
save), and between the last comparison of a reload and the start of the new watcher
(noticed only by what looks next). `NoSilentOverwrite` counts what arrives there as
known, exempts saves of a buffer that has nothing to compare with (`blind`: the file
could not be examined, or there is no baseline, which `sync_baseline` shows to be a
defect) and holds for everything else.

### Catnap

One named file, its sidecar and an editor that is killed and started again.
`source` and `sidecar` are the two files with the modification times that
`load_candidate` compares; one clock dates every write and names every new text,
so no two writes share a time (two within one timestamp tick are left out).
`offer`, `task`, `lastWritten` and `elapsed` are the fields of `RecoveryState`;
`preview` is the focused `RecoveryPreview`, with what Enter compares. A save is
`Join`, `CommitSave`, `CleanUpSidecar`, the order of `do_atomic_save_to`; the worker's
`Write` happens whenever the thread gets there. `since`, `over`, `savedAt`, `restarted`
and the `overtaken` of a worker are history fields. Not modelled: Save As to another
path, the size cap, the reading of an untrusted sidecar.

Two windows of the code are exempt by name. `OffersHold` exempts a worker that was
`overtaken`: under way when `recover` was typed, which does not wait for it, so it
replaces the previewed sidecar; Enter then refuses. `DirtyIsCaught` speaks of the
buffer on screen, since only that one is polled, and exempts one that was reloaded
(`restarted`), which `catnap_reload` shows to be a defect.

### ExternalTask

`worker` is the program counter of `run_command` and `wait_for_exit`, `writer` and
`reader` those of the pipe threads, `task` the editor's side. The command may
exit, print, read, start a process in its group or outside it, at any time. Input
and output are counted in chunks, and one output stream stands for two.
One behaviour of the code that no property rules out: a command that exits well
without reading all its input is reported as failed when the writer thread sees the
stop flag before the broken pipe, since `join_writer` forgives only the latter.

### Workers

`running`, `preview`, `queue`, `active`, `lint` and `results` are the fields of
`ExternalCommandState`, of the focused `CommandPreview`, `HookState` and `LintState`,
and `text` … `saved` those of the buffer. While a command runs or is previewed the
keys of the preview are bound (`app/input/scope.rs`), so there is no save, prompt or
switch of buffers then, but typing reaches the text while it runs and the watcher
may reload a clean one at any time; `InEditor` and the guard of `Edit` say so. Every
poll of the main loop is an action; `Polled` says that the user acts only after
`pump` had its turn, since the loop polls before each event. The buffer has one path,
as the switch of buffers cancels all of this. The result of a command, and when it
comes, is free. `source`, `hook`, `chain`, `succeeded` and `helped` are history: the
text a command was started on, the link of a chain it is, the chains, the links that
succeeded, and the chains whose command the help key ended. Not modelled: surfaces
other than the editor, the preview and help, an application that fails, paged buffers.

### Terminal

`modes` is what the terminal has switched on, `active` what `restore()` believes it has
to undo, `progress` how far setup got; `flagged` holds the screens that have the
keyboard flags, since those live on the screen they were pushed on. Every write may
fail, a panic of the session or of a worker may come at any step, a signal and a resize
at any point of the loop. "reports" stands for mouse, focus and paste reports. Assumed:
the first read of the window size succeeds. Left out: the draining of late input.

### Update

The three routes of `update/`: the stable release, the latest commit built in the
checkout discovered beside the binary, and the latest commit built in a private clone.
Every call that may fail is an action, a run may be killed between any two and started
again, and meanwhile the remote moves and the user edits, commits and stashes in the
checkout. A binary is named by the revision it was built from. `written`, `committed` and
`raced` are history: what the user wrote, what they committed, and whether a stash of
theirs was taken by the updater's `stash drop` by position, which the code leaves open and
`ChangesSurvive` exempts. Assumed: the build identity of the installed binary is clean; a
`worktree add` that fails registers nothing; one updater at a time. A failure of
`rev-parse` right after the stash push is reported as one of the push, and a push that
finds nothing left to stash makes the newest older stash pass for the updater's own:
both are in the model. The recursion of the backup is one step.

### Literal, Search and ReplaceReview

A text is a sequence of bytes with two-byte characters and newlines, and the matcher
reads it segment by segment, keeping the end of what it has read, as in the code.
`Search` is the prompt with its worker over a small buffer (line by line), a large one
(poll by poll) and a paged file (page by page, with the edited pages of the memory),
forward, backward and to a line number, while the document changes. An edited page that
lies past the end of the file makes every search and goto fail; the model has it.
`ReplaceReview` gives every byte its origin, so that "each match is offered once, and
what was skipped is left as it was" can be said although everything moves.

### FileOriginal, LineIndex

The scan of a page in chunks cut anywhere, its metadata (line starts, scalar
checkpoints, compact offsets, elided returns of CRLF) and what they answer; the treap
of line blocks that replaces them at the first edit, with its splits, merges and
cached sums; the scalar index of the add buffer; and, as one more subject, the tree of
the pieces. `IndexIsExact` compares all of it with the text split in the obvious way,
and exempts pages with the defect of `pages_open`. The random priorities are a
short repeated sequence and a block holds one line.

### Graphemes and CellIndex

One scalar of each kind that matters to layout: plain, wide, tab, combining with what
precedes, prepending to what follows, regional indicator, control. `CellIndex` is the
builder fed with chunks, and the lazy repair around an edit with its two loops; the
balanced tree of blocks is their sequence, positions count scalars. `CellsAreExact`
compares every look-up with the layout of the whole line.

### Positions, Editing and View

`Editing` has every key and gesture that moves, selects, edits, indents, cuts or
pastes, with the snapping of the cursor to graphemes where the code does it. `pointed`
is set by a click inside a grapheme, which the code allows; the status-line selection,
the touch anchor, undo and read-only pages are left out. `View` has the scroll origin,
soft wrap, the reveal of the cursor in its three variants, the wheel, the pointer, resize,
the overlays, and the switches of line numbers and wrapping in the editor and the preview. The keys are over-approximated: any text, any cursor between graphemes.
The Markdown preview is the source reflowed at the width of the screen, which is what
its scroll position depends on. Lines are shorter than the 64 scalars of context that
the horizontal reveal reads. `CellsAreScalars` exempts lines with graphemes that are not
one cell wide where lines are not wrapped: there `reveal_horizontal_cells`
(`app/viewport.rs:241`) can leave a cursor undrawn, as in `xWWx` at width 4, column 3.
`CursorShown` leaves out `reveal_display_cursor` over wrapped rows as well, which reveals the
line of the cursor and not its row: under soft wrap, line numbers that appear narrow the rows
and can put a cursor that was drawn below the screen (`xxxx` at 5 by 3, cursor on row 1),
against `docs/phase-4-acceptance.md:16`. `SourceScrollReturns` leaves out the help over a source that was
scrolled away from its cursor, since closing the help reveals the cursor (run `view_help`).
Touch overlays, link hover, search in the help and the drag of the status are left out.

## 3. Runs that pass

TLC checks one module per run, so each passing run is a *sum*: it extends several
modules that share no state and starts in one of their `part`s, with the others at rest.

| Run | States | Parts | Questions | Bounds and why they are enough |
|---|---|---|---|---|
| `buffers` | 515 k | `PieceTable`, `BufferRing`, `Workers` | do runs, replacements, prune and compaction keep undo exact (`HistoryIsExact`) and implement the abstract history (`ImplementsHistory`)? do slots stay whole (`RingIsSound`, `ImplementsRing`), is nothing unsaved dropped (`NothingDiscarded`), does the detour come back (`DetourReturns`)? does output land only on its source (`AppliedOverSource`), a chain go on only after success (`ChainInOrder`), are findings about the text shown (`LintIsCurrent`)? | limits of 2 transactions and 8 bytes and compaction from 2 bytes, so each happens within 4 positions; a line pasted, a newline typed and pasted; three buffers, the least for which an order can go wrong; one link to the configuration file; 2 texts, so that a text can come back; 2 generations; chains of 2 hooks for the open and for one save |
| `documents` | 201 k | `UndoHistory`, `Catnap`, `ReplaceReview`, `LineIndex` with `PieceTree`, `CellIndex`, `View` | is clean the same as saved, does a position ever return? is an offer stale, replaced or applied over something else, does a modified text reach its sidecar? is each match decided once? do the indexes and the tree of the pieces agree with the text? is the cursor drawn, does a click find what is drawn, does the source come back where it was? | limit 3 so that a prune leaves a middle; 4 dates: load, edit, autosave, save or what another process does; all files of at most 4 characters and 5 bytes and three longer ones, read in chunks of 1, 3 and 20, with a checkpoint every 2 scalars; an add buffer of 3 bytes behind an original of 3, so up to five pieces and both kinds of rotation; blocks of 3 cells; screens of no height, without and with line numbers |
| `files` | 1.31 M | `FileSync` (in halves), `AtomicWrite`, `PagedHistory`, `Search`, `Editing`, `Update` | can a save tear, lose or wrongly overwrite anything, and does it report what happened? is anything unseen overwritten, anything unsaved replaced? do page histories and the global one stay in step, is a save the document (`HistoriesInStep`, `StreamIsDocument`, `ImplementsHistory`)? is the answer of a search the one of the text it was asked of? does the cursor stay between graphemes? does an update leave a whole binary and all changes? | 3 external steps against a save: two races and a change of metadata; all calls may fail; 4 versions: loaded, changed, changed again after a press, saved; in one half examinations of files fail and one file is written, in the other there are two files; 3 pages, so an edit, its neighbour and a page that is dropped; limit 3 and 6 bytes with sizes 1 and 3, so number and bytes both prune; two runs of the updater, so that one starts on what a killed one left |
| `event_loop` | 138 k | `FileSync`, `Terminal`, `ExternalTask` | is every change noticed, every signal and resize seen? is the terminal given back? does anything outlive a command, is its output whole, does it end? | 4 versions and one death of the watcher; examinations succeed; 3 resizes of two sizes; pipe of 1, limit 1, 2 chunks of output: full pipe, full capture, leftover |

`CHECK_DEADLOCK FALSE` is set where the system may stop: a save returns, an
editor waits for a key once the bound on writes is used up, an updater ends.
`buffers` declares the documents of the ring symmetric; its properties are safety
properties and name no document.

**Fairness.** In `FileSync`, `WF_vars(Step)`: the steps of
a save or reload are straight-line code. `SF_vars(CheckWatcher)` and
`SF_vars(CheckStopped)`: the loop polls the watcher before it waits and before it
dispatches every event (`poll_runtime_tasks_inner`,
`apply_ready_tasks_then_dispatch_terminal_event`), so keys cannot starve it; strong,
since a key's operation disables the poll for as long as it runs. In `Catnap`,
`WF` of `IntervalElapses` (time passes), `PollRecovery` (the event loop) and `Write` (the
worker thread runs); the property exempts a clock at its bound. In `ExternalTask`,
`WF` of the three threads, of the deadline and of the join. In `Terminal`, `WF` of
`SessionStep`, the thread of the loop, which waits for events with a time-out. Nothing is
assumed of the user, of another process, of a command or of the network. A sum has the
fairness of each part restricted to the behaviours of that part.

**Mutants.** `PROJECT.json` names for every property a change of one definition that a
plausible mistake in the code would be (a dropped guard, a missing reset, a swapped
order) and under which TLC finds the property violated.

## 4. Runs that find a disagreement

Each checks one sentence of the code's own documentation and finds a behaviour of
the code that contradicts it. `findings` in `PROJECT.json` quotes the sentence.

| Run | Property | What happens |
|---|---|---|
| `catnap_reload` | `EveryDirtyIsCaught` | after a reload, whose buffer counts its revisions from 0 again, a text with the revision number that was last autosaved is not autosaved |
| `workers_help` | `CancelledChainStops` | help ends the command of a hook without telling the hooks: they stall until a later command of the user ends, and if that succeeds the cancelled chain goes on |
| `ring_discard` | `NeverDiscardedUnasked` | accepting the configuration template replaces the buffer of the missing file although text has been typed into it |
| `ring_return` | `ReturnsToInvoker` | the detour remembers its way back as an index; closing a configuration buffer that was open before shifts it |
| `pages_open` | `PagesOpen` | trimming a CRLF line pops the scalar checkpoints of the long line before it, and the metadata built from the scan slices past them |
| `cell_repair` | `RepairsReadOn` | a prepending scalar typed before plain text makes the repair of the cell index read the same empty range forever |
| `view_help` | `HelpRestoresViewport` | the wheel scrolls the source away from its cursor; opening and closing the help brings back the cursor instead of the place that was left |
| `sync_baseline` | `ConflictsAreConfirmed` | a first Save As whose new baseline cannot be captured leaves the buffer without one; the next Ctrl+S overwrites whatever is there |

## 5. What is proved

The theorems hold for every value of the constants that satisfies the named `ASSUME`
of the module: any number of documents, versions, chunks, hooks, links or faults.
`PROJECT.json` lists them under `theorems`, each with the property of a run
that it states. Each proof has the same shape: type correctness, then an inductive
invariant that TLC checked first, one lemma or step per action, then the property.

| Proofs | Inductive invariant, and why the property alone is not inductive | Theorems |
|---|---|---|
| `DocumentProofs` (`UndoHistory`) | `Inv`: `HistoryIsAChain`, positions no larger than the counter, and `Ordered`: in the whole history positions increase from the oldest undo to the oldest redo, so no position occurs twice. Without it, a discarded transaction could carry the saved position and a redo could return to it | `HistoryAlwaysAChain`, `CleanBufferIsSaved`, `PositionsNeverReturn` |
| `PagedWorkersProofs` (`Workers`) | `SourceInv` (what runs with the generation of the buffer was started on the text that is there, or the text is newer), `HooksInv` (a queue is the rest of its chain, and all links before it succeeded), `LintInv` (a finding with the revision of the text is about it) | `OutputFitsItsSource`, `HooksFollow`, `FindingsAreCurrent` |
| `PagedWorkersProofs` (`PagedHistory`) | `PagedInv`: the local lists of each page in memory are its own part of the global ones (`InMemory`, with `Matches` and `Own`), a page that is not in memory has no part in them, a page that stands at position 0 holds the text of the file, each change begins where its neighbour ends (`Linked`), the estimate is the sum, a run on the page that is shown is the newest change of all. Without the pages that are not in memory a dropped page could still have been needed; without the links the mapping to `UndoHistory` has no document between two changes | `PagesCorrect`, `PageHistoriesFollow`, `SavesWhatWasEdited`, `PagesAreOneDocument` |
| `EventLoopProofs` (`Terminal`) | `SessionInv`: what the terminal has on is what `restore()` knows of, at each step of setup, reset and teardown, failed writes included | `TerminalIsRestored` |
| `EventLoopProofs` (`ExternalTask`) | `TaskInv`: what the child wrote is what is in the pipe, in the reader and in the result, in this order; each thread that is still there has a reason to end. Its bound on the capture is any number, while the run has 1 | `CommandLeavesNothing`, `OutputIsWhole` |
| `FileProofs` (`AtomicWrite`) | `SaveInv`: at each step of a save, what the temporary file, the target and the displaced version hold, and which of them the step can still take back | `TargetIsIntact`, `ReplacesWhatItInspected`, `SaveReportsTruly` |
| `FileProofs` (`FileSync`) | `SyncInv`: versions grow, so one that was seen never returns; what is pinned, armed or known existed; the phase of an operation says what it has compared | `ReloadQuestionIsDisplayed`, `SavesAreGuarded`, `ReloadsAskFirst` |
| `FileProofs` (`Update`) | `UpdateInv`: ranges; the backup and what was checked before the replacement; where the worktree and the clone are; the place of the updater's stash in the list, as the user pushes above it; what was taken back and given back | `BinaryAlwaysRecoverable`, `ChangesAlwaysSurvive` |
| `DocumentProofs` (`Catnap`) | `NapInv`: a sidecar not older than the file was taken after the last save; the worker that runs was started after the last save it could disturb; the revision 0 means the text that was loaded | `OffersAlwaysHold`, `RecoveredOverPreviewed` |
| `BufferRingProofs` | `RingInv`: the deque and the index are one list (`Indexed`) of distinct documents; what an armed confirmation may drop has been asked about (`Asked`); while no buffer comes or goes the index of the detour is the place of the buffer it began in (`WayBack`). Without `Asked`, the confirmation could be older than an edit | `RingIsAlwaysSound`, `NothingDiscardedUnasked`, `DetoursReturn`, `TheRingIsAList` |
| `PieceTableProofs` | `PInv`: what the pieces refer to is in bounds, and each side of the history is a `Chain`: there are contents, one between each two transactions, which their edits take one to the next, the last of them the present one, and which read as `docBefore` and `docAfter` of the transactions. Contents are the source and the offset of each scalar (`Refs`), because two pieces that are joined or divided refer to the same, and typing leaves the rest where it is. Without the chain an undo could take pieces out of a document they are not in; without the offsets it would not survive a compaction, which moves them. `Accounts` adds what is charged: each transaction is retained for the bytes its pieces hold, the sums are within the limits, and what nothing refers to in the add buffer was dropped since compaction was last considered, or is below its thresholds | `PieceTableImplementsHistory`, `HistoryExact` |
| `EditingProofs` | `EditInv`: the text is a document of at least one line and no line holds its own end; the cursor, both ends of the selection, the anchor of a drag and the last click are places in it, and all but the click are between graphemes while no pointer was put inside one; a live selection ends at the cursor. Without the anchor of the drag, a drag could begin a selection inside a grapheme. For the cuts `CutInv` adds that the cursor is at the start of its row | `KeysAlwaysKeepGraphemes`, `CutLinesAlwaysReturn` |

`PieceTableProofs` follows the references through every operation: dividing, joining and
coalescing pieces keeps them (`CoalesceIs`); an insertion and a deletion do to them what they
do to a text (`InsertPiecesIs`, `DeleteRangeIs`), and undo each other; edits that are applied or
reverted one by one lead along the chain (`ApplyEditsIs`, `RevertEditsIs`); a run that grows stays one
edit between the same two documents, whether it grows at its end or in front
(`InsertsBehind`, `InsertsBefore`); pruning takes transactions off the old end of the chain
only, and compaction renames the offsets by their rank among those that are still in use,
which no reading of a document or of the history notices (`RebaseAllIs`, `LinksPacked`).

`FoldFacts` has what these proofs share: induction over numbers and over sequences, stated
of sets since the theorems of the library take an operator as a parameter; that a function
defined by steps exists and that two such functions agree; associativity of joining
sequences, and how a sequence splits around a place. With them `EditingProofs` proves what the loops of
`Editing` and `Graphemes` do to texts of every length: splitting any text gives a document,
and splitting a text with a line after it gives its rows and that line (`SplitLines`); what
lies between two places is a text, and from one row to the next it is the row and its end
(`Selected`); `StartsInOrder` lists nothing but boundaries of graphemes, and all that `LaidOut`
places lies between boundaries, so the column that keeps a cell is one again.
`Editing` takes its alphabet as the constant `Scalar`;
`EditAssumption` says that the end of a line and the space are in it, that the documents and
pastes are texts of it, and that a tab stop is at least one cell wide
(`validate_tab_size` of the configuration).

Proof attempts changed the models where they were wrong. That of `SavesAreGuarded` failed
where a buffer has no baseline: the code overwrites there, and `sync_baseline` shows it. That of
`ChangesAlwaysSurvive` needs at least one run of the updater (`MaxLives >= 1`).

Only model-checked:

- liveness (`ChangesAreNoticed`, `EventsAreSeen`, `TasksEnd`, `DirtyIsCaught`): fairness and `ENABLED` are
  out of the prover's reach;
- what a fold over the data computes, where it is written with the operators of the
  libraries or with `RECURSIVE`: `SearchIsExact`, `ReviewIsExact`. The theorems about induction take
  an operator as a parameter, which the provers cannot instantiate. Where a loop is a recursive
  function, it is proved: what `Own` and `Bytes` of `PagedHistory` compute by well-founded
  induction over lengths, the loops of `Editing` and `Graphemes` by induction over sequences,
  what the turns of the ring in `BufferRing` compute by the least
  number of turns for which it would be wrong, the loops over pieces, edits and transactions in
  `PieceTable` by following them step by step;
- `IndexIsExact`, `CellsAreExact`, `ScreenIsTrue` and what else the modules with a `RECURSIVE` operator
  compute.

## 6. What is not modelled, and why

The notes of `components` in `PROJECT.json` say it part by part. In short: text formats
and standard input (conversions without state), the clipboard helper (one external
process, no state kept), the configuration and its validation beyond the limits the
other modules use, the command line and the help text, styles and syntax highlighting
(layout and colour), the Markdown renderer itself (its reflow is in `View`),
`LargeFileBuffer` (used by tests only), the policies of private files and the fallback for systems
without `renameat2`. One hazard has no property: between its validation and the write,
the path of a hard-linked target can be made to name another file
(`file/io/atomic_unix.rs:421`); the write then goes to the file that was opened.

## 7. What is left

The state machines that are still outside: the private policies of atomic writes, the
page cache, Save As of a buffer with a recovery sidecar.
