-------------------------------- MODULE Catnap --------------------------------
(***************************************************************************)
(* Recovery sidecars: the autosave poll, the worker thread that writes the *)
(* sidecar, the offer made when a file is opened, its preview, and the     *)
(* clean-up after a save (app/recovery.rs, app/recovery/preview.rs,        *)
(* file/recovery.rs), for one named file whose editor may be killed and    *)
(* started again, while other processes write the file or its sidecar.     *)
(*                                                                         *)
(* One clock dates every write and names every new text, so no two writes  *)
(* have the same modification time.  A save is three steps: join the       *)
(* worker, write the file, clean up.                                       *)
(***************************************************************************)
EXTENDS Integers

CONSTANTS
  MaxClock,     \* bound on edits, writes and deletions of the file
  MaxRevision,  \* bound on the changes of a buffer
  MaxFaults,    \* how many writes, reads and removals may fail
  Others        \* what other processes do

ASSUME CatnapAssumption ==
  /\ MaxClock \in Nat \ {0} /\ MaxRevision \in Nat /\ MaxFaults \in Nat
  /\ Others \subseteq {"write_file", "delete_file", "write_sidecar"}

VARIABLES
  source,       \* the file: its text and modification time
  sidecar,      \* the sidecar next to it; since is a history field
  clock,        \* the time of the newest write, text or deletion
  running,      \* whether the editor runs
  onScreen,     \* whether this buffer is the one on screen
  text,         \* what the buffer holds
  revision,     \* Buffer::content_revision
  unsaved,      \* FileState.dirty
  baseline,     \* FileState.disk_snapshot
  elapsed,      \* whether last_attempt is an interval ago
  lastWritten,  \* RecoveryState.last_written_history, or Never
  autosaving,   \* RecoveryState.task
  offer,        \* RecoveryState.offered_candidate
  preview,      \* the RecoveryPreview on screen
  saving,       \* the next step of a save under way
  faults,       \* how many calls have failed
  savedAt,      \* history variable: the time of the last save
  restarted     \* history variable: a reload has restarted the revisions under
                \* a revision that was autosaved, or was being

napBuffer == <<text, revision, unsaved, baseline>>
recovery  == <<elapsed, lastWritten, autosaving, offer, preview>>
napGhosts == <<savedAt, restarted>>
world     == <<running, onScreen, saving, faults, napGhosts>>
napVars   == <<source, sidecar, clock, napBuffer, recovery, world>>

NoSource == [text |-> 0, time |-> 0]
None     == [text |-> 0, time |-> 0, since |-> 0]
Never    == -1
NoTask   == [state |-> "none"]
NoView   == [open |-> FALSE]

Time == clock + 1
Tick == clock < MaxClock /\ clock' = Time
CallFails == faults < MaxFaults /\ faults' = faults + 1

\* load_candidate: the sidecar, if it is not older than the file.
Load == IF source = NoSource \/ sidecar.time >= source.time THEN sidecar ELSE None

Current(candidate) == candidate = sidecar

-----------------------------------------------------------------------------
NapInit ==
  /\ source \in {NoSource, [text |-> 1, time |-> 1]}
  /\ sidecar = None /\ clock = 1
  /\ running = FALSE /\ onScreen = FALSE
  /\ text = 0 /\ revision = 0 /\ unsaved = FALSE /\ baseline = NoSource
  /\ elapsed = FALSE /\ lastWritten = Never /\ autosaving = NoTask
  /\ offer = None /\ preview = NoView
  /\ saving = "idle" /\ faults = 0 /\ savedAt = 0 /\ restarted = FALSE

\* The file is opened: initialize offers what is newer than it.
OpenText ==
  /\ ~running /\ running' = TRUE /\ onScreen' = TRUE
  /\ text' = source.text /\ revision' = 0 /\ unsaved' = FALSE /\ baseline' = source
  /\ elapsed' = FALSE /\ lastWritten' = Never
  /\ \/ offer' = Load /\ UNCHANGED faults
     \/ CallFails /\ offer' = None
  /\ UNCHANGED <<source, sidecar, clock, autosaving, preview, saving, napGhosts>>

\* The editor is killed, or quits: the worker thread goes with it.
Killed ==
  /\ running /\ running' = FALSE /\ onScreen' = FALSE
  /\ text' = 0 /\ revision' = 0 /\ unsaved' = FALSE /\ baseline' = NoSource
  /\ elapsed' = FALSE /\ lastWritten' = Never /\ autosaving' = NoTask
  /\ offer' = None /\ preview' = NoView /\ saving' = "idle"
  /\ restarted' = FALSE
  /\ UNCHANGED <<source, sidecar, clock, faults, savedAt>>

Ready   == running /\ onScreen /\ saving = "idle"
Editing == Ready /\ preview = NoView

-----------------------------------------------------------------------------
(* The buffer. *)

EditText ==
  /\ Editing /\ Tick /\ revision < MaxRevision
  /\ text' = Time /\ unsaved' = TRUE /\ revision' = revision + 1
  /\ UNCHANGED <<source, sidecar, baseline, recovery, world>>

\* Undo back to what was loaded or saved.
UndoAll ==
  /\ Editing /\ unsaved /\ revision < MaxRevision
  /\ text' = baseline.text /\ unsaved' = FALSE /\ revision' = revision + 1
  /\ UNCHANGED <<source, sidecar, clock, baseline, recovery, world>>

\* A reload, confirmed or automatic (then also under a preview): a new buffer,
\* whose revisions count from 0 again, and the recovery state as it was.
ReloadText ==
  /\ Ready /\ source # baseline
  /\ preview = NoView \/ ~unsaved
  /\ text' = source.text /\ revision' = 0 /\ unsaved' = FALSE /\ baseline' = source
  /\ restarted' = (restarted \/ lastWritten # Never \/ autosaving # NoTask)
  /\ UNCHANGED <<source, sidecar, clock, recovery, running, onScreen, saving, faults, savedAt>>

\* Another buffer comes to the front, and with it that buffer's recovery
\* state; an open preview is closed first.
SwitchAway ==
  /\ Ready /\ onScreen' = FALSE
  /\ offer' = IF preview = NoView THEN offer ELSE preview.candidate
  /\ preview' = NoView
  /\ UNCHANGED <<source, sidecar, clock, napBuffer, elapsed, lastWritten, autosaving,
                 running, saving, faults, napGhosts>>

SwitchBack ==
  /\ running /\ ~onScreen /\ onScreen' = TRUE
  /\ UNCHANGED <<source, sidecar, clock, napBuffer, recovery, running, saving, faults, napGhosts>>

-----------------------------------------------------------------------------
(* Autosave: recovery::poll and the worker. *)

IntervalElapses ==
  /\ running /\ ~elapsed /\ elapsed' = TRUE
  /\ UNCHANGED <<source, sidecar, clock, napBuffer, lastWritten, autosaving, offer, preview, world>>

\* finish_task_if_ready.
CollectAnything ==
  /\ Ready /\ autosaving.state \in {"written", "failed"}
  /\ lastWritten' = autosaving.revision
  /\ autosaving' = NoTask
  /\ UNCHANGED <<source, sidecar, clock, napBuffer, elapsed, offer, preview, world>>
CollectWritten ==
  /\ Ready /\ autosaving.state \in {"written", "failed"}
  /\ lastWritten' = IF autosaving.state = "written" THEN autosaving.revision ELSE lastWritten
  /\ autosaving' = NoTask
  /\ UNCHANGED <<source, sidecar, clock, napBuffer, elapsed, offer, preview, world>>

\* autosave_is_due.
Due ==
  /\ unsaved /\ autosaving = NoTask
  /\ preview = NoView /\ offer = None
  /\ lastWritten # revision /\ elapsed

Autosave ==
  /\ Ready /\ Due
  /\ elapsed' = FALSE
  /\ \/ /\ autosaving' = [state |-> "running", text |-> text, revision |-> revision,
                    since |-> savedAt, overtaken |-> FALSE]
        /\ UNCHANGED faults
     \/ CallFails /\ UNCHANGED autosaving
  /\ UNCHANGED <<source, sidecar, clock, napBuffer, lastWritten, offer, preview,
                 running, onScreen, saving, napGhosts>>

\* The worker replaces the sidecar atomically, whatever the editor does.
Write ==
  /\ autosaving.state = "running" /\ Tick
  /\ sidecar' = [text |-> autosaving.text, time |-> Time, since |-> autosaving.since]
  /\ autosaving' = [autosaving EXCEPT !.state = "written"]
  /\ UNCHANGED <<source, napBuffer, elapsed, lastWritten, offer, preview, world>>

WriteFails ==
  /\ autosaving.state = "running" /\ CallFails
  /\ autosaving' = [autosaving EXCEPT !.state = "failed"]
  /\ UNCHANGED <<source, sidecar, clock, napBuffer, elapsed, lastWritten, offer, preview,
                 running, onScreen, saving, napGhosts>>

-----------------------------------------------------------------------------
(* A save: do_atomic_save_to, as far as recovery is concerned. *)

SaveText ==
  /\ Editing /\ saving' = "join"
  /\ UNCHANGED <<source, sidecar, clock, napBuffer, recovery, running, onScreen, faults, napGhosts>>

\* finish_before_save blocks until the worker is done, and drops its result.
JoinNobody ==
  /\ saving = "join" /\ saving' = "commit"
  /\ UNCHANGED <<source, sidecar, clock, napBuffer, recovery, running, onScreen, faults, napGhosts>>
Join ==
  /\ saving = "join" /\ saving' = "commit"
  /\ autosaving.state # "running" /\ autosaving' = NoTask
  /\ UNCHANGED <<source, sidecar, clock, napBuffer, elapsed, lastWritten, offer, preview,
                 running, onScreen, faults, napGhosts>>

CommitSave ==
  /\ saving = "commit" /\ Tick
  /\ source' = [text |-> text, time |-> Time]
  /\ baseline' = source' /\ unsaved' = FALSE /\ savedAt' = Time
  /\ saving' = "cleanup"
  /\ UNCHANGED <<sidecar, text, revision, recovery, running, onScreen, faults, restarted>>

SaveStops ==
  /\ saving = "commit" /\ saving' = "idle" /\ CallFails
  /\ UNCHANGED <<source, sidecar, clock, napBuffer, recovery, running, onScreen, napGhosts>>

\* after_save.
CleanUpSidecar ==
  /\ saving = "cleanup" /\ saving' = "idle"
  /\ lastWritten' = Never /\ elapsed' = FALSE /\ offer' = None
  /\ \/ sidecar' = None /\ UNCHANGED faults
     \/ CallFails /\ UNCHANGED sidecar
  /\ UNCHANGED <<source, clock, napBuffer, autosaving, preview, running, onScreen, napGhosts>>

-----------------------------------------------------------------------------
(* The preview. *)

View(candidate) ==
  [open |-> TRUE, candidate |-> candidate, revision |-> revision,
   baseline |-> baseline, source |-> source, over |-> text]

\* start_preview: the offer, or a fresh look at the sidecar; an offer that is
\* no longer what the sidecar holds, or cannot be compared with it, is dropped.
Show(candidate) ==
  \/ Current(candidate) /\ preview' = View(candidate) /\ offer' = None /\ UNCHANGED faults
  \/ Current(candidate) /\ CallFails /\ offer' = candidate /\ UNCHANGED preview
  \/ ~Current(candidate) /\ offer' = None /\ UNCHANGED <<preview, faults>>
  \/ CallFails /\ offer' = None /\ UNCHANGED preview

Recover ==
  /\ Editing /\ revision < MaxRevision
  /\ LET candidate == IF offer # None THEN offer ELSE Load
     IN  candidate # None /\ Show(candidate)
  /\ autosaving' = IF autosaving.state = "running" THEN [autosaving EXCEPT !.overtaken = TRUE] ELSE autosaving
  /\ UNCHANGED <<source, sidecar, clock, napBuffer, elapsed, lastWritten,
                 running, onScreen, saving, napGhosts>>

Cancel ==
  /\ Ready /\ preview.open
  /\ offer' = preview.candidate /\ preview' = NoView
  /\ UNCHANGED <<source, sidecar, clock, napBuffer, elapsed, lastWritten, autosaving, world>>

\* What makes Enter refuse: the buffer, its baseline or the file is not what
\* it was when the preview opened.
DriftedByRevision == revision # preview.revision
Drifted ==
  \/ revision # preview.revision
  \/ baseline # preview.baseline
  \/ source # preview.source

\* Enter: one edit, or a refusal that keeps the candidate on offer when the
\* source has drifted and drops it when the sidecar has.
AcceptPreview ==
  /\ Ready /\ preview.open
  /\ preview' = NoView
  /\ IF Drifted THEN offer' = preview.candidate /\ UNCHANGED <<text, revision, unsaved>>
     ELSE IF ~Current(preview.candidate) \/ preview.candidate.text = text
          THEN UNCHANGED <<text, revision, unsaved, offer>>
     ELSE /\ text' = preview.candidate.text
          /\ revision' = revision + 1 /\ unsaved' = TRUE
          /\ UNCHANGED offer
  /\ UNCHANGED <<source, sidecar, clock, baseline, elapsed, lastWritten, autosaving, world>>

-----------------------------------------------------------------------------
(* Other processes. *)

OtherWritesFile ==
  /\ "write_file" \in Others /\ Tick
  /\ source' = [text |-> Time, time |-> Time]
  /\ UNCHANGED <<sidecar, napBuffer, recovery, world>>

OtherDeletesFile ==
  /\ "delete_file" \in Others /\ source # NoSource /\ Tick
  /\ source' = NoSource
  /\ UNCHANGED <<sidecar, napBuffer, recovery, world>>

\* Another editor of the same file autosaves to the same sidecar.
OtherWritesSidecar ==
  /\ "write_sidecar" \in Others /\ Tick
  /\ sidecar' = [text |-> Time, time |-> Time, since |-> savedAt]
  /\ UNCHANGED <<source, napBuffer, recovery, world>>

PollRecovery == CollectWritten \/ Autosave
NapNext ==
  \/ OpenText \/ Killed \/ EditText \/ UndoAll \/ ReloadText \/ SwitchAway \/ SwitchBack
  \/ IntervalElapses \/ PollRecovery \/ Write \/ WriteFails
  \/ SaveText \/ Join \/ CommitSave \/ SaveStops \/ CleanUpSidecar
  \/ Recover \/ Cancel \/ AcceptPreview
  \/ OtherWritesFile \/ OtherDeletesFile \/ OtherWritesSidecar

NapSpec == NapInit /\ [][NapNext]_napVars

\* Time passes, the event loop polls, and a thread that was started runs.
FairNapSpec ==
  NapSpec /\ WF_napVars(IntervalElapses) /\ WF_napVars(PollRecovery) /\ WF_napVars(Write)

-----------------------------------------------------------------------------
(* Properties. *)

Candidate == [text : 0..MaxClock, time : 0..MaxClock, since : 0..MaxClock]

\* Types; a candidate is either on offer or in the preview, and a revision that
\* was written is one the buffer has had.
NapTypeOK ==
  /\ {source, baseline} \subseteq [text : 0..clock, time : 0..clock]
  /\ {sidecar, offer} \subseteq Candidate
  /\ clock \in 1..MaxClock /\ text \in 0..clock /\ revision \in 0..MaxRevision
  /\ {running, onScreen, unsaved, elapsed} \subseteq BOOLEAN
  /\ autosaving.state \in {"none", "running", "written", "failed"}
  /\ saving \in {"idle", "join", "commit", "cleanup"} /\ faults \in 0..MaxFaults
  /\ preview.open => offer = None
  /\ restarted \/ lastWritten \in Never..revision

Held == IF preview.open THEN preview.candidate ELSE offer
Offered == Held' \notin {None, Held} /\ source # NoSource
Written == sidecar' # sidecar /\ autosaving.state = "running" /\ autosaving'.state = "written"

\* "Successful save waits for an in-flight bounded catnap write ... then removes
\* the sidecar so a stale worker cannot recreate it" (docs/phase-8-acceptance.md:24):
\* however a save, the worker and a crash fall together, what is offered of an
\* existing file was taken of a text edited after the file was last saved.  And
\* "Autosave pauses while a recovery offer is unresolved, including after closing
\* its preview" (docs/user-guide.md:1189), so that editing cannot replace what
\* is offered: no worker writes under an offer or a preview, unless it was under
\* way when `recover` was run.
OffersHold ==
  []NapTypeOK /\
  [][/\ Offered => Held'.since = savedAt
     /\ Written => (offer = None /\ ~preview.open) \/ autosaving.overtaken]_napVars

\* Recovered text replaces the very text it was previewed over, of a file that
\* is still what it was then.
AppliedOverPreviewed ==
  [][preview.open /\ ~preview'.open /\ text' # text /\ running' =>
       preview.over = text /\ preview.source = source]_napVars

\* "a dirty named ordinary buffer ... gets an atomic, owner-only sibling
\* sidecar ... after the configured interval" (docs/user-guide.md:1177), while it
\* is on screen and unless an offer is unresolved or another editor of the file
\* has written the sidecar since (its texts are those as old as the sidecar).
Waiting(t) ==
  /\ running /\ onScreen /\ saving = "idle" /\ preview = NoView /\ offer = None
  /\ unsaved /\ text = t /\ clock < MaxClock
Caught(t)  == sidecar.text = t \/ (sidecar # None /\ sidecar.text = sidecar.time)
EveryDirtyIsCaught ==
  \A t \in 1..MaxClock : Waiting(t) ~> (Caught(t) \/ ~Waiting(t))

\* The same of a buffer that was not reloaded after an autosave: the revisions
\* of a reloaded buffer start again, and one of them may be taken for written.
DirtyIsCaught ==
  \A t \in 1..MaxClock :
     (Waiting(t) /\ ~restarted) ~> (Caught(t) \/ ~(Waiting(t) /\ ~restarted))
=============================================================================
