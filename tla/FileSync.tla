------------------------------- MODULE FileSync -------------------------------
(***************************************************************************)
(* One named buffer and its file on disk: the save guard (app/save.rs),    *)
(* the reload confirmation (app/reload.rs), the watcher (app/watch.rs) and *)
(* the one armed confirmation they share (app/confirmation.rs), while      *)
(* another process writes and deletes files.                               *)
(*                                                                         *)
(* A file version stands for a FileSnapshot: every write makes a new one.  *)
(* The user's keys and the watcher poll are taken between operations; a    *)
(* save or a reload is a sequence of steps on the disk, and the other      *)
(* process can act before each of them.  The commit of a save is the       *)
(* conditional replacement that AtomicWrite examines call by call.         *)
(***************************************************************************)
EXTENDS Naturals, FiniteSets

CONSTANTS
  Paths,            \* file names
  NoPath,           \* the path of an untitled buffer
  Initial,          \* the paths the buffer may start with
  MaxVersion,       \* bound on the writes of everybody
  MaxRestarts,      \* MAX_WATCHER_RESTARTS
  CaptureMayFail    \* whether reading a snapshot or a file may fail

Absent == 0

ASSUME FileSyncAssumption ==
  /\ NoPath \notin Paths /\ Initial \subseteq Paths \cup {NoPath}
  /\ IsFiniteSet(Paths) /\ MaxVersion \in Nat /\ MaxVersion >= Cardinality(Paths)
  /\ MaxRestarts \in Nat
  /\ CaptureMayFail \in BOOLEAN

VARIABLES
  disk,          \* Paths -> the version there, or Absent
  version,       \* the newest version
  path,          \* FileState.path
  snapshot,      \* FileState.disk_snapshot: a set of at most one version
  dirty,         \* FileState.dirty
  confirmation,  \* App.confirmation
  observed,      \* App.observed_change: a set of at most one change
  watcher,       \* App.file_watcher: Live, Dead (its worker is gone) or Gone
  hint,          \* whether a signal is queued in it
  restarts,      \* FileWatcher.restarts
  auto_reload,   \* the configuration
  op,            \* the save or reload under way
  known,         \* history variable: the paths whose version has been loaded,
                 \* written or confirmed, or came while nothing looks
  pressed        \* history variable: the change the last press of Ctrl+R armed

buffer   == <<path, snapshot, dirty>>
watching == <<watcher, hint, restarts>>
ghosts   == <<known, pressed>>
vars     == <<disk, version, buffer, confirmation, observed, watching, auto_reload, op, ghosts>>

-----------------------------------------------------------------------------
(* Observations and confirmations. *)

Change(kind, v) == [kind |-> kind, version |-> v]
Unchanged   == Change("Unchanged", Absent)
Interrupted == Change("Interrupted", Absent)  \* Unknown(ErrorKind::Interrupted)
Failed      == Change("Failed", Absent)       \* Unknown of any other kind

\* observe_external_file: a missing baseline makes any present file unchanged.
Compared(live, base) ==
  CASE live = Absent /\ Absent \notin base               -> Change("Deleted", Absent)
    [] live \in base \/ (base = {} /\ live # Absent) -> Unchanged
    [] OTHER                                           -> Change("Modified", live)

Observations(p, base) ==
  {Compared(disk[p], base)} \cup (IF CaptureMayFail THEN {Interrupted, Failed} ELSE {})

Reloadable(change) == change.kind \in {"Modified", "Deleted"}

Armed(kind, p, change, command) ==
  [kind |-> kind, path |-> p, change |-> change, command |-> command]
NoConfirmation == Armed("None", NoPath, Unchanged, FALSE)

\* prepare_editor_action: a key keeps only the confirmation it can complete.
Kept(kind) == IF confirmation.kind = kind THEN confirmation ELSE NoConfirmation

SaveMatchesAnything(p, change) == Kept("Save").path = p
SaveMatches(p, change) ==
  /\ Kept("Save").path = p
  /\ Kept("Save").change = change /\ change # Interrupted

ReloadMatches(change) ==
  Kept("Reload").path = path /\ Kept("Reload").change = change /\ Reloadable(change)

Disarmed == IF confirmation.kind = "Reload" THEN NoConfirmation ELSE confirmation

-----------------------------------------------------------------------------
(* What is under way. *)

Idle == [kind |-> "Idle", phase |-> "idle"]
StartSave(p, blind) ==
  [kind |-> "Save", phase |-> "inspect", target |-> p, pinned |-> Absent, blind |-> blind]
StartReload(change, giveUp) ==
  [kind |-> "Reload", phase |-> IF change.kind = "Deleted" THEN "apply" ELSE "read",
   change |-> change, giveUp |-> giveUp]

At(kind, phase) == op.kind = kind /\ op.phase = phase
GoOn(phase)     == op' = [op EXCEPT !.phase = phase]

\* A failed step gives the operation up and leaves everything as it is.
GiveUp ==
  /\ op' = Idle
  /\ UNCHANGED <<disk, version, buffer, confirmation, observed, watching, ghosts>>

\* refresh_file_watcher: a new watcher, if one can be made; it inherits the
\* restarts of the one it replaces, and nothing that one had queued.
Rewatch ==
  /\ watcher' \in {"Live", "Gone"}
  /\ hint' = FALSE
  /\ restarts' = IF watcher = "Gone" \/ watcher' = "Gone" THEN 0 ELSE restarts

-----------------------------------------------------------------------------
Init ==
  /\ path \in Initial
  /\ disk \in [Paths -> 0..Cardinality(Paths)]
  /\ \A p, q \in Paths : p # q /\ disk[p] = disk[q] => disk[p] = Absent
  /\ version = Cardinality(Paths)
  /\ snapshot = IF path = NoPath THEN {} ELSE {disk[path]}
  /\ dirty \in BOOLEAN /\ (dirty => path = NoPath)
  /\ confirmation = NoConfirmation /\ observed = {}
  /\ watcher = IF path = NoPath THEN "Gone" ELSE "Live"
  /\ hint = FALSE /\ restarts = 0
  /\ auto_reload \in BOOLEAN
  /\ op = Idle
  /\ known = {path} \cap Paths /\ pressed = {}

(* The user's keys. *)

Key ==
  op = Idle /\ UNCHANGED <<disk, version, path, snapshot, watching, auto_reload>>

\* The save may go ahead over the observed change: it is the one the user was
\* shown and has confirmed.
ForceSave(p, change) ==
  /\ op' = StartSave(p, change = Failed)
  /\ known' = IF Kept("Save").change.version = disk[p] THEN known \cup {p} ELSE known
  /\ confirmation' = Kept("Save")
  /\ UNCHANGED observed

\* Nothing to ask about; without a baseline, nothing was compared.
SaveNow(p) ==
  /\ op' = StartSave(p, p = path /\ snapshot = {})
  /\ confirmation' = NoConfirmation
  /\ UNCHANGED <<known, observed>>

\* handle_save.
SaveKey ==
  /\ Key /\ pressed' = {} /\ UNCHANGED dirty
  /\ \/ /\ path = NoPath
        /\ confirmation' = NoConfirmation
        /\ UNCHANGED <<op, known, observed>>
     \/ /\ path # NoPath
        /\ \E change \in Observations(path, snapshot) :
             IF change = Unchanged THEN SaveNow(path)
             ELSE IF SaveMatches(path, change) THEN ForceSave(path, change)
             ELSE /\ observed' = {change}
                  /\ confirmation' = Armed("Save", path, change, FALSE)
                  /\ UNCHANGED <<op, known>>

\* handle_save_as_with_route, to another path than the buffer's own: from the
\* Save As prompt, or from the command prompt.
SaveAsKey(target, command) ==
  /\ target # path
  /\ Key /\ pressed' = {} /\ UNCHANGED dirty
  /\ \E change \in Observations(target, {Absent}) :
       IF change = Unchanged THEN SaveNow(target)
       ELSE IF SaveMatches(target, change) /\ Kept("Save").command = command
            THEN ForceSave(target, change)
       ELSE /\ confirmation' = Armed("Save", target, change, command)
            /\ UNCHANGED <<op, known, observed>>

\* perform_observed_reload, from Ctrl+R or from the watcher.
Reload(change, giveUp) ==
  /\ op' = StartReload(change, giveUp)
  /\ observed' = {change}
  /\ confirmation' = Disarmed

\* handle_reload_key.
ReloadKey ==
  /\ Key /\ UNCHANGED <<dirty, known>>
  /\ \/ /\ path = NoPath
        /\ confirmation' = NoConfirmation /\ observed' = {} /\ pressed' = {}
        /\ UNCHANGED op
     \/ /\ path # NoPath
        /\ \E change \in Observations(path, snapshot) :
             IF ReloadMatches(change)
             THEN Reload(change, FALSE) /\ UNCHANGED pressed
             ELSE /\ observed' = {change} \ {Unchanged}
                  /\ confirmation' = IF Reloadable(change)
                                     THEN Armed("Reload", path, change, FALSE)
                                     ELSE NoConfirmation
                  /\ pressed' = {change}
                  /\ UNCHANGED op

\* record_content_edit, and an undo or redo that comes back to the saved text.
EditKeepingConfirmation ==
  /\ Key /\ dirty' \in BOOLEAN /\ pressed' = {}
  /\ UNCHANGED <<confirmation, op, known, observed>>
Edit ==
  /\ Key /\ dirty' \in BOOLEAN /\ pressed' = {}
  /\ confirmation' = NoConfirmation
  /\ UNCHANGED <<op, known, observed>>

\* Any other action, or a save blocked by another buffer of the same file.
OtherKey ==
  /\ Key /\ pressed' = {}
  /\ confirmation # NoConfirmation /\ confirmation' = NoConfirmation
  /\ UNCHANGED <<op, known, observed, dirty>>

-----------------------------------------------------------------------------
(* The steps of a save: do_atomic_save_to. *)

Inspect ==
  /\ At("Save", "inspect")
  /\ op' = [op EXCEPT !.phase = "commit", !.pinned = disk[op.target]]
  /\ UNCHANGED <<disk, version, buffer, confirmation, observed, watching, auto_reload, ghosts>>

\* Only the inspected version is replaced; the path, the saved position and
\* then the watcher follow a successful write.
Commit ==
  /\ At("Save", "commit")
  /\ disk[op.target] = op.pinned
  /\ version < MaxVersion
  /\ version' = version + 1
  /\ disk' = [disk EXCEPT ![op.target] = version']
  /\ path' = op.target
  /\ dirty' = FALSE
  /\ known' = known \cup {op.target}
  /\ hint' = (hint \/ (watcher = "Live" /\ path = op.target))
  /\ GoOn(IF path = op.target THEN "capture" ELSE "rewatch_saved")
  /\ UNCHANGED <<snapshot, confirmation, observed, watcher, restarts, auto_reload, pressed>>

SaveFails ==
  /\ At("Save", "inspect") \/ At("Save", "commit")
  /\ GiveUp /\ UNCHANGED auto_reload

RewatchSaved ==
  /\ At("Save", "rewatch_saved")
  /\ Rewatch /\ GoOn("capture")
  /\ UNCHANGED <<disk, version, buffer, confirmation, observed, auto_reload, ghosts>>

\* keep_prior_snapshot_unless_saved_file_is_present.
Capture ==
  /\ At("Save", "capture")
  /\ \/ disk[path] # Absent /\ snapshot' = {disk[path]}
     \/ (disk[path] = Absent \/ CaptureMayFail) /\ UNCHANGED snapshot
  /\ confirmation' = NoConfirmation /\ observed' = {}
  /\ op' = Idle
  /\ UNCHANGED <<disk, version, path, dirty, watching, auto_reload, ghosts>>

(* The steps of a reload: build_modified_reload_buffer and apply_*_reload. *)

Read ==
  /\ At("Reload", "read")
  /\ disk[path] = op.change.version
  /\ GoOn("apply")
  /\ UNCHANGED <<disk, version, buffer, confirmation, observed, watching, auto_reload, ghosts>>

Apply ==
  /\ At("Reload", "apply")
  /\ disk[path] = op.change.version
  /\ dirty' = FALSE
  /\ snapshot' = {op.change.version}
  /\ known' = known \cup {path}
  /\ GoOn("rewatch_loaded")
  /\ UNCHANGED <<disk, version, path, confirmation, observed, watching, auto_reload, pressed>>

ReloadFails ==
  /\ At("Reload", "read") \/ At("Reload", "apply")
  /\ CaptureMayFail \/ disk[path] # op.change.version
  /\ IF op.giveUp
     THEN /\ op' = Idle /\ watcher' = "Gone" /\ hint' = FALSE /\ restarts' = 0
          /\ UNCHANGED <<disk, version, buffer, confirmation, observed, ghosts>>
     ELSE GiveUp
  /\ UNCHANGED auto_reload

\* finish_reload.
RewatchLoaded ==
  /\ At("Reload", "rewatch_loaded")
  /\ IF op.giveUp THEN watcher' = "Gone" /\ hint' = FALSE /\ restarts' = 0 ELSE Rewatch
  /\ confirmation' = NoConfirmation /\ observed' = {} /\ pressed' = {}
  /\ op' = Idle
  /\ UNCHANGED <<disk, version, buffer, auto_reload, known>>

-----------------------------------------------------------------------------
(* The watcher poll: apply_file_watch_signal. *)

NoticeKeepingArm(change, giveUp) ==
  /\ observed' = {change} \ {Unchanged}
  /\ UNCHANGED <<confirmation, op>>
Notice(change, giveUp) ==
  IF change = Unchanged
  THEN /\ observed' = {}
       /\ confirmation' = IF observed = {} THEN confirmation ELSE Disarmed
       /\ UNCHANGED op
  ELSE IF auto_reload /\ ~dirty /\ Reloadable(change)
       THEN Reload(change, giveUp)
       ELSE /\ observed' = {change}
            /\ confirmation' = IF ReloadMatches(change) THEN confirmation ELSE Disarmed
            /\ UNCHANGED op

CheckWatcher ==
  /\ op = Idle
  /\ watcher # "Gone" /\ hint
  /\ \E change \in Observations(path, snapshot) : Notice(change, FALSE)
  /\ hint' = FALSE
  /\ UNCHANGED <<disk, version, buffer, watcher, restarts, auto_reload, ghosts>>

\* The worker of the watcher is gone: replace it, a few times, and look once
\* for what was missed.
CheckStoppedBlindly ==
  /\ op = Idle
  /\ watcher = "Dead" /\ ~hint
  /\ LET spent == restarts >= MaxRestarts IN
       /\ watcher' \in IF spent THEN {"Gone"} ELSE {"Live", "Gone"}
       /\ restarts' = IF watcher' = "Gone" THEN 0 ELSE restarts + 1
  /\ UNCHANGED <<disk, version, buffer, confirmation, observed, op, hint, auto_reload, ghosts>>
CheckStopped ==
  /\ op = Idle
  /\ watcher = "Dead" /\ ~hint
  /\ LET spent == restarts >= MaxRestarts IN
       /\ \E change \in Observations(path, snapshot) : Notice(change, spent)
       /\ watcher' \in IF spent THEN {"Gone"} ELSE {"Live", "Gone"}
       /\ restarts' = IF watcher' = "Gone" THEN 0 ELSE restarts + 1
  /\ UNCHANGED <<disk, version, buffer, hint, auto_reload, ghosts>>

WatcherDies ==
  /\ watcher = "Live" /\ watcher' = "Dead"
  /\ UNCHANGED <<disk, version, buffer, confirmation, observed, hint, restarts,
                 auto_reload, op, ghosts>>

-----------------------------------------------------------------------------
(* The other process. *)

\* What another process does to the file between two looks of the code that are
\* not compared: the conflict check of a save and the writer's own, its commit and
\* the capture of the new baseline, the last comparison of a reload and the start
\* of the new watcher.
InWindow(p) ==
  \/ op.kind = "Save" /\ op.phase # "commit" /\ op.target = p
  \/ op.kind = "Reload" /\ op.phase = "rewatch_loaded" /\ path = p

Elsewhere(p) ==
  /\ hint' = (hint \/ (watcher = "Live" /\ p = path))
  /\ known' = IF InWindow(p) THEN known \cup {p} ELSE known \ {p}
  /\ UNCHANGED <<buffer, confirmation, observed, watcher, restarts, auto_reload, op, pressed>>

OtherWrites(p) ==
  /\ version < MaxVersion
  /\ version' = version + 1
  /\ disk' = [disk EXCEPT ![p] = version']
  /\ Elsewhere(p)

OtherDeletes(p) ==
  /\ disk[p] # Absent
  /\ disk' = [disk EXCEPT ![p] = Absent]
  /\ Elsewhere(p) /\ UNCHANGED version

Step == Inspect \/ Commit \/ SaveFails \/ RewatchSaved \/ Capture
          \/ Read \/ Apply \/ ReloadFails \/ RewatchLoaded

Next ==
  \/ SaveKey \/ ReloadKey \/ Edit \/ OtherKey
  \/ \E p \in Paths, command \in BOOLEAN : SaveAsKey(p, command)
  \/ Step
  \/ CheckWatcher \/ CheckStopped \/ WatcherDies
  \/ \E p \in Paths : OtherWrites(p) \/ OtherDeletes(p)

Spec == Init /\ [][Next]_vars

\* A step of an operation is code that runs on; the event loop polls the
\* watcher before it waits and before it dispatches every event.
FairSpec ==
  Spec /\ WF_vars(Step) /\ SF_vars(CheckWatcher) /\ SF_vars(CheckStopped)

-----------------------------------------------------------------------------
(* Properties. *)

Versions == 0..MaxVersion

TypeOK ==
  /\ disk \in [Paths -> 0..version] /\ version \in Versions
  /\ path \in Paths \cup {NoPath}
  /\ snapshot \subseteq 0..version /\ Cardinality(snapshot) <= 1
  /\ observed \subseteq [kind : {"Modified", "Deleted", "Interrupted", "Failed"},
                         version : 0..version] /\ Cardinality(observed) <= 1
  /\ confirmation.kind \in {"None", "Save", "Reload"}
  /\ watcher \in {"Live", "Dead", "Gone"} /\ restarts \in 0..MaxRestarts
  /\ {dirty, hint, auto_reload} \subseteq BOOLEAN
  /\ watcher # "Gone" => path # NoPath

Commits == op.kind = "Save" /\ op.phase = "commit" /\ disk' # disk /\ op' # op

\* A save replaces a version only if the buffer was loaded from it or saved as it, the
\* user has confirmed overwriting that very version, it came in one of the windows the
\* code leaves open, or it could not be compared with anything: the file could not be
\* examined, and the user was told, or the buffer has no baseline.
NoSilentOverwrite ==
  [][Commits => disk[op.target] = Absent \/ op.target \in known \/ op.blind]_vars

\* "Destination conflicts require confirmation" (save.rs:4): a save over anything else
\* than what the buffer was loaded from or saved as has been asked for twice.
ConflictsAreConfirmed ==
  [][Commits =>
       \/ disk[op.target] = Absent \/ op.target \in known
       \/ op.blind /\ confirmation.kind = "Save"]_vars

Installs == op.kind = "Reload" /\ op.phase = "apply" /\ op'.phase = "rewatch_loaded"

\* What a reload installs is what is on disk when it is installed, and it becomes the
\* baseline, however long the reading took.  Unsaved text is replaced only by the second
\* of two presses of Ctrl+R with no other key in between, and only by the very version
\* the first one asked about; no watcher event counts as a press.
ReloadsAreConfirmed ==
  [][Installs => /\ op.change.version = disk[path] /\ snapshot' = {disk[path]}
                 /\ dirty => op.change \in pressed]_vars

\* An armed reload is about the buffer's own file and about the change that is
\* on display; a save conflict is never about an unchanged file.
ArmedIsDisplayed ==
  /\ TypeOK
  /\ confirmation.kind = "Reload" =>
       confirmation.path = path /\ observed = {confirmation.change}
  /\ confirmation.kind = "Save" => confirmation.change # Unchanged

\* A file that is no longer what the buffer was loaded from or saved as is
\* sooner or later reloaded or reported, unless watching has been given up or
\* there is no baseline to compare it with.
Noticed ==
  \/ path = NoPath \/ watcher = "Gone"
  \/ snapshot = {} \/ disk[path] \in snapshot
  \/ observed # {} \/ path \in known
ChangesAreNoticed == ~Noticed ~> Noticed
=============================================================================
