----------------------------- MODULE FileProofs -----------------------------
(***************************************************************************)
(* What is on disk.  What the save guard, the reload confirmation and the  *)
(* watcher promise together, for any number of files, writes and watcher   *)
(* restarts and whatever another process does between any two of their     *)
(* steps; what an atomic save promises, against any number of steps of the *)
(* other process, any system call failing, and a crash anywhere; and that  *)
(* the installed binary is at all times one whole binary that passed the   *)
(* checks of its route, what an update reports fits what it left behind,   *)
(* and nothing the user wrote in the checkout is lost, for every number of *)
(* revisions, of runs that are killed at any step and of changes that the  *)
(* user makes meanwhile.                                                   *)
(***************************************************************************)
EXTENDS FileSync, AtomicWrite, Update, FiniteSetTheorems, SequenceTheorems, TLAPS

-----------------------------------------------------------------------------
(* FileSync. *)

Reported == {"Modified", "Deleted", "Interrupted", "Failed"}
Changes  == [kind : Reported \cup {"Unchanged"}, version : Nat]

Questions == [kind : {"None", "Save", "Reload"}, path : Paths \cup {NoPath},
              change : Changes, command : BOOLEAN]

Saves   == [kind : {"Save"}, phase : {"inspect", "commit", "rewatch_saved", "capture"},
            target : Paths, pinned : Nat, blind : BOOLEAN]
Reloads == [kind : {"Reload"}, phase : {"read", "apply", "rewatch_loaded"},
            change : Changes, giveUp : BOOLEAN]

\* A version never returns, so what is on disk as the buffer knows it is known.
DiskKnown ==
  /\ disk \in [Paths -> Nat] /\ \A p \in Paths : disk[p] <= version
  /\ version \in Nat /\ version <= MaxVersion
  /\ path \in Paths \cup {NoPath}
  /\ known \subseteq Paths
  /\ snapshot \subseteq 0..version
  /\ path # NoPath /\ disk[path] \in snapshot /\ disk[path] # Absent => path \in known

OneBaseline == Cardinality(snapshot) <= 1

OneObserved ==
  observed = {} \/ \E c \in Changes : observed = {c} /\ c.kind \in Reported /\ c.version <= version

WatcherSound ==
  /\ watcher \in {"Live", "Dead", "Gone"} /\ restarts \in 0..MaxRestarts
  /\ watcher # "Gone" => path # NoPath

Flags == dirty \in BOOLEAN /\ hint \in BOOLEAN /\ auto_reload \in BOOLEAN

\* A question about a reload is the one on display and was asked by the last press;
\* nothing is under way while it is open.
QuestionSound ==
  /\ confirmation \in Questions
  /\ confirmation.kind = "Reload" =>
       /\ op.kind = "Idle"
       /\ confirmation.path = path /\ observed = {confirmation.change}
       /\ confirmation.change \in pressed
  /\ confirmation.kind = "Save" => confirmation.change # Unchanged

\* A save under way replaces nothing that is not known, and one that has written has
\* made the file the buffer's.
SaveSound ==
  op.kind = "Save" =>
    /\ op \in Saves /\ op.pinned <= version
    /\ op.phase \in {"rewatch_saved", "capture"} => path = op.target /\ path \in known
    /\ op.phase = "inspect" /\ ~op.blind => disk[op.target] = Absent \/ op.target \in known
    /\ op.phase = "commit" /\ ~op.blind /\ disk[op.target] = op.pinned =>
         disk[op.target] = Absent \/ op.target \in known

\* A reload under way has a file, and takes unsaved text away only if it was asked to.
ReloadSound ==
  op.kind = "Reload" =>
    /\ op \in Reloads /\ op.change.version <= version
    /\ path # NoPath /\ Reloadable(op.change)
    /\ op.phase # "rewatch_loaded" /\ dirty => op.change \in pressed

OperationSound ==
  op.kind \in {"Idle", "Save", "Reload"} /\ SaveSound /\ ReloadSound

SyncInv ==
  /\ DiskKnown /\ OneBaseline /\ OneObserved /\ WatcherSound /\ Flags
  /\ QuestionSound /\ OperationSound

LEMMA AtMostOne ==
  ASSUME NEW c, NEW S
  PROVE  Cardinality({c} \ S) <= 1 /\ Cardinality({c}) <= 1 /\ Cardinality({}) <= 1
<1>1. Cardinality({}) = 0 /\ Cardinality({c}) = 1
  BY FS_EmptySet, FS_Singleton
<1>2. {c} \ S = {} \/ {c} \ S = {c}
  OBVIOUS
<1> QED
  BY <1>1, <1>2

\* What looking at a file can find.
LEMMA Observing ==
  ASSUME DiskKnown, NEW p \in Paths, NEW base, NEW change \in Observations(p, base)
  PROVE  /\ change \in Changes /\ change.version <= version
         /\ change # Unchanged => change.kind \in Reported
         /\ change = Unchanged => base = {} \/ disk[p] \in base
         /\ change.kind \in {"Modified", "Deleted"} => change.version = disk[p]
         /\ change.kind \notin {"Modified", "Deleted"} =>
              change \in {Unchanged, Interrupted, Failed}
<1>1. disk[p] \in Nat /\ disk[p] <= version /\ version \in Nat
  BY DEF DiskKnown
<1>2. CASE change = Compared(disk[p], base)
  <2>1. CASE change = Change("Deleted", Absent) /\ disk[p] = Absent
    BY <1>1, <2>1 DEF Change, Unchanged, Changes, Reported, Absent
  <2>2. CASE change = Unchanged /\ (base = {} \/ disk[p] \in base)
    BY <1>1, <2>2 DEF Change, Unchanged, Changes, Reported, Absent
  <2>3. CASE change = Change("Modified", disk[p])
    BY <1>1, <2>3 DEF Change, Unchanged, Changes, Reported, Absent
  <2> QED
    BY <1>2, <2>1, <2>2, <2>3 DEF Compared, Absent
<1>3. CASE change \in {Interrupted, Failed}
  BY <1>1, <1>3 DEF Interrupted, Failed, Change, Unchanged, Changes, Reported, Absent
<1> QED
  BY <1>2, <1>3 DEF Observations

LEMMA DiskKeeps == SyncInv /\ [Next]_vars => DiskKnown'
<1> SUFFICES ASSUME SyncInv, [Next]_vars
           PROVE  DiskKnown'
  OBVIOUS
<1> USE FileSyncAssumption DEF SyncInv, DiskKnown, OperationSound, SaveSound, ReloadSound, Idle,
       Saves, Reloads, Changes, Absent, buffer, watching, ghosts
<1>1. CASE SaveKey
  BY <1>1 DEF SaveKey, Key, SaveNow, ForceSave, StartSave, SaveMatches, Kept, Armed, NoConfirmation
<1>2. CASE ReloadKey
  BY <1>2 DEF ReloadKey, Key, Reload, StartReload, Disarmed, ReloadMatches, Kept, Armed,
     NoConfirmation, Reloadable
<1>3. CASE Edit
  BY <1>3 DEF Edit, Key, NoConfirmation
<1>4. CASE OtherKey
  BY <1>4 DEF OtherKey, Key, NoConfirmation
<1>5. CASE Inspect
  BY <1>5 DEF Inspect, At
<1>6. CASE Commit
  BY <1>6 DEF Commit, At, GoOn
<1>7. CASE SaveFails
  BY <1>7 DEF SaveFails, At, GiveUp
<1>8. CASE RewatchSaved
  BY <1>8 DEF RewatchSaved, At, Rewatch, GoOn
<1>9. CASE Capture
  <2>1. path \in Paths /\ path \in known
    BY <1>9 DEF Capture, At
  <2>2. snapshot' = {disk[path]} \/ snapshot' = snapshot
    BY <1>9 DEF Capture
  <2>3. UNCHANGED <<disk, version, path, known>>
    BY <1>9 DEF Capture
  <2>4. disk[path] \in 0..version
    BY <2>1
  <2> HIDE DEF OperationSound, SaveSound, ReloadSound
  <2> QED
    BY <2>1, <2>2, <2>3, <2>4
<1>10. CASE Read
  BY <1>10 DEF Read, At, GoOn
<1>11. CASE Apply
  BY <1>11 DEF Apply, At, GoOn
<1>12. CASE ReloadFails
  <2>1. UNCHANGED <<disk, version, path, snapshot, known>>
    BY <1>12 DEF ReloadFails, GiveUp
  <2> QED
    BY <2>1
<1>13. CASE RewatchLoaded
  BY <1>13 DEF RewatchLoaded, At, Rewatch, NoConfirmation
<1>14. CASE CheckWatcher
  BY <1>14 DEF CheckWatcher, Notice, Reload, StartReload, Disarmed, ReloadMatches, Kept,
     NoConfirmation, Reloadable
<1>15. CASE CheckStopped
  BY <1>15 DEF CheckStopped, Notice, Reload, StartReload, Disarmed, ReloadMatches, Kept,
     NoConfirmation, Reloadable
<1>16. CASE WatcherDies
  BY <1>16 DEF WatcherDies
<1>17. ASSUME NEW p \in Paths, NEW command \in BOOLEAN, SaveAsKey(p, command)
     PROVE  DiskKnown'
  BY <1>17 DEF SaveAsKey, Key, SaveNow, ForceSave, StartSave, SaveMatches, Kept, Armed,
     NoConfirmation
<1>18. ASSUME NEW p \in Paths, OtherWrites(p)
     PROVE  DiskKnown'
  BY <1>18 DEF OtherWrites, Elsewhere, InWindow
<1>19. ASSUME NEW p \in Paths, OtherDeletes(p)
     PROVE  DiskKnown'
  BY <1>19 DEF OtherDeletes, Elsewhere, InWindow
<1>20. CASE UNCHANGED vars
  BY <1>20 DEF vars
<1> QED
  BY <1>1, <1>2, <1>3, <1>4, <1>5, <1>6, <1>7, <1>8, <1>9, <1>10, <1>11, <1>12, <1>13, <1>14,
     <1>15, <1>16, <1>17, <1>18, <1>19, <1>20 DEF Next, Step

LEMMA BaselineKeeps == SyncInv /\ [Next]_vars => OneBaseline'
<1> SUFFICES ASSUME SyncInv, [Next]_vars
           PROVE  OneBaseline'
  OBVIOUS
<1> USE FileSyncAssumption DEF SyncInv, OneBaseline, buffer, watching, ghosts
<1>1. CASE SaveKey
  BY <1>1, Observing, AtMostOne DEF SaveKey, Key, SaveNow, ForceSave, StartSave, SaveMatches,
     Kept, Armed, NoConfirmation
<1>2. CASE ReloadKey
  BY <1>2, Observing, AtMostOne DEF ReloadKey, Key, Reload, StartReload, Disarmed, ReloadMatches,
     Kept, Armed, NoConfirmation, Reloadable
<1>3. CASE Edit
  BY <1>3, Observing, AtMostOne DEF Edit, Key, NoConfirmation
<1>4. CASE OtherKey
  BY <1>4, Observing, AtMostOne DEF OtherKey, Key, NoConfirmation
<1>5. CASE Inspect
  BY <1>5, Observing, AtMostOne DEF Inspect, At
<1>6. CASE Commit
  BY <1>6, Observing, AtMostOne DEF Commit, At, GoOn
<1>7. CASE SaveFails
  BY <1>7, Observing, AtMostOne DEF SaveFails, At, GiveUp
<1>8. CASE RewatchSaved
  BY <1>8, Observing, AtMostOne DEF RewatchSaved, At, Rewatch, GoOn
<1>9. CASE Capture
  BY <1>9, Observing, AtMostOne DEF Capture, At, NoConfirmation
<1>10. CASE Read
  BY <1>10, Observing, AtMostOne DEF Read, At, GoOn
<1>11. CASE Apply
  BY <1>11, Observing, AtMostOne DEF Apply, At, GoOn
<1>12. CASE ReloadFails
  BY <1>12, Observing, AtMostOne DEF ReloadFails, At, GiveUp
<1>13. CASE RewatchLoaded
  BY <1>13, Observing, AtMostOne DEF RewatchLoaded, At, Rewatch, NoConfirmation
<1>14. CASE CheckWatcher
  BY <1>14, Observing, AtMostOne DEF CheckWatcher, Notice, Reload, StartReload, Disarmed,
     ReloadMatches, Kept, NoConfirmation, Reloadable
<1>15. CASE CheckStopped
  BY <1>15, Observing, AtMostOne DEF CheckStopped, Notice, Reload, StartReload, Disarmed,
     ReloadMatches, Kept, NoConfirmation, Reloadable
<1>16. CASE WatcherDies
  BY <1>16, Observing, AtMostOne DEF WatcherDies
<1>17. ASSUME NEW p \in Paths, NEW command \in BOOLEAN, SaveAsKey(p, command)
     PROVE  OneBaseline'
  BY <1>17, Observing DEF SaveAsKey, Key, SaveNow, ForceSave, StartSave, SaveMatches, Kept, Armed,
     NoConfirmation
<1>18. ASSUME NEW p \in Paths, OtherWrites(p)
     PROVE  OneBaseline'
  BY <1>18 DEF OtherWrites, Elsewhere, InWindow
<1>19. ASSUME NEW p \in Paths, OtherDeletes(p)
     PROVE  OneBaseline'
  BY <1>19 DEF OtherDeletes, Elsewhere, InWindow
<1>20. CASE UNCHANGED vars
  BY <1>20 DEF vars
<1> QED
  BY <1>1, <1>2, <1>3, <1>4, <1>5, <1>6, <1>7, <1>8, <1>9, <1>10, <1>11, <1>12, <1>13, <1>14,
     <1>15, <1>16, <1>17, <1>18, <1>19, <1>20 DEF Next, Step

LEMMA ObservedKeeps == SyncInv /\ [Next]_vars => OneObserved'
<1> SUFFICES ASSUME SyncInv, [Next]_vars
           PROVE  OneObserved'
  OBVIOUS
<1> USE FileSyncAssumption DEF SyncInv, OneObserved, DiskKnown, WatcherSound, Unchanged, Change,
       buffer, watching, ghosts
<1>0. observed' = observed /\ (version' = version \/ version' = version + 1) => OneObserved'
  <2> SUFFICES ASSUME observed' = observed, version' = version \/ version' = version + 1, observed # {}
               PROVE  OneObserved'
    OBVIOUS
  <2>1. PICK c \in Changes : observed = {c} /\ c.kind \in Reported /\ c.version <= version
    OBVIOUS
  <2>2. c.version <= version'
    BY <2>1 DEF Changes
  <2> QED
    BY <2>1, <2>2
<1>1. CASE SaveKey
  BY <1>1, Observing, AtMostOne DEF SaveKey, Key, SaveNow, ForceSave, StartSave, SaveMatches,
     Kept, Armed, NoConfirmation
<1>2. CASE ReloadKey
  BY <1>2, Observing, AtMostOne DEF ReloadKey, Key, Reload, StartReload, Disarmed, ReloadMatches,
     Kept, Armed, NoConfirmation, Reloadable
<1>3. CASE Edit
  BY <1>3, Observing, AtMostOne DEF Edit, Key, NoConfirmation
<1>4. CASE OtherKey
  BY <1>4, Observing, AtMostOne DEF OtherKey, Key, NoConfirmation
<1>5. CASE Inspect
  BY <1>5, Observing, AtMostOne DEF Inspect, At
<1>6. CASE Commit
  BY <1>0, <1>6 DEF Commit
<1>7. CASE SaveFails
  BY <1>7, Observing, AtMostOne DEF SaveFails, At, GiveUp
<1>8. CASE RewatchSaved
  BY <1>8, Observing, AtMostOne DEF RewatchSaved, At, Rewatch, GoOn
<1>9. CASE Capture
  BY <1>9, Observing, AtMostOne DEF Capture, At, NoConfirmation
<1>10. CASE Read
  BY <1>10, Observing, AtMostOne DEF Read, At, GoOn
<1>11. CASE Apply
  BY <1>11, Observing, AtMostOne DEF Apply, At, GoOn
<1>12. CASE ReloadFails
  BY <1>12, Observing, AtMostOne DEF ReloadFails, At, GiveUp
<1>13. CASE RewatchLoaded
  BY <1>13, Observing, AtMostOne DEF RewatchLoaded, At, Rewatch, NoConfirmation
<1>14. CASE CheckWatcher
  BY <1>14, Observing, AtMostOne DEF CheckWatcher, Notice, Reload, StartReload, Disarmed,
     ReloadMatches, Kept, NoConfirmation, Reloadable
<1>15. CASE CheckStopped
  BY <1>15, Observing, AtMostOne DEF CheckStopped, Notice, Reload, StartReload, Disarmed,
     ReloadMatches, Kept, NoConfirmation, Reloadable
<1>16. CASE WatcherDies
  BY <1>16, Observing, AtMostOne DEF WatcherDies
<1>17. ASSUME NEW p \in Paths, NEW command \in BOOLEAN, SaveAsKey(p, command)
     PROVE  OneObserved'
  BY <1>17, Observing DEF SaveAsKey, Key, SaveNow, ForceSave, StartSave, SaveMatches, Kept, Armed,
     NoConfirmation
<1>18. ASSUME NEW p \in Paths, OtherWrites(p)
     PROVE  OneObserved'
  BY <1>0, <1>18 DEF OtherWrites, Elsewhere
<1>19. ASSUME NEW p \in Paths, OtherDeletes(p)
     PROVE  OneObserved'
  BY <1>19 DEF OtherDeletes, Elsewhere, InWindow
<1>20. CASE UNCHANGED vars
  BY <1>20 DEF vars
<1> QED
  BY <1>1, <1>2, <1>3, <1>4, <1>5, <1>6, <1>7, <1>8, <1>9, <1>10, <1>11, <1>12, <1>13, <1>14,
     <1>15, <1>16, <1>17, <1>18, <1>19, <1>20 DEF Next, Step

LEMMA WatcherKeeps == SyncInv /\ [Next]_vars => WatcherSound'
<1> SUFFICES ASSUME SyncInv, [Next]_vars
           PROVE  WatcherSound'
  OBVIOUS
<1> USE FileSyncAssumption DEF SyncInv, WatcherSound, OperationSound, SaveSound, ReloadSound,
       Saves, buffer, watching, ghosts
<1>1. CASE SaveKey
  BY <1>1 DEF SaveKey, Key, SaveNow, ForceSave, StartSave, SaveMatches, Kept, Armed, NoConfirmation
<1>2. CASE ReloadKey
  BY <1>2 DEF ReloadKey, Key, Reload, StartReload, Disarmed, ReloadMatches, Kept, Armed,
     NoConfirmation, Reloadable
<1>3. CASE Edit
  BY <1>3 DEF Edit, Key, NoConfirmation
<1>4. CASE OtherKey
  BY <1>4 DEF OtherKey, Key, NoConfirmation
<1>5. CASE Inspect
  BY <1>5 DEF Inspect, At
<1>6. CASE Commit
  BY <1>6 DEF Commit, At, GoOn
<1>7. CASE SaveFails
  BY <1>7 DEF SaveFails, At, GiveUp
<1>8. CASE RewatchSaved
  BY <1>8 DEF RewatchSaved, At, Rewatch, GoOn
<1>9. CASE Capture
  BY <1>9 DEF Capture, At, NoConfirmation
<1>10. CASE Read
  BY <1>10 DEF Read, At, GoOn
<1>11. CASE Apply
  BY <1>11 DEF Apply, At, GoOn
<1>12. CASE ReloadFails
  BY <1>12 DEF ReloadFails, At, GiveUp
<1>13. CASE RewatchLoaded
  BY <1>13 DEF RewatchLoaded, At, Rewatch, NoConfirmation
<1>14. CASE CheckWatcher
  BY <1>14 DEF CheckWatcher, Notice, Reload, StartReload, Disarmed, ReloadMatches, Kept,
     NoConfirmation, Reloadable
<1>15. CASE CheckStopped
  BY <1>15 DEF CheckStopped, Notice, Reload, StartReload, Disarmed, ReloadMatches, Kept,
     NoConfirmation, Reloadable
<1>16. CASE WatcherDies
  BY <1>16 DEF WatcherDies
<1>17. ASSUME NEW p \in Paths, NEW command \in BOOLEAN, SaveAsKey(p, command)
     PROVE  WatcherSound'
  BY <1>17 DEF SaveAsKey, Key, SaveNow, ForceSave, StartSave, SaveMatches, Kept, Armed,
     NoConfirmation
<1>18. ASSUME NEW p \in Paths, OtherWrites(p)
     PROVE  WatcherSound'
  BY <1>18 DEF OtherWrites, Elsewhere, InWindow
<1>19. ASSUME NEW p \in Paths, OtherDeletes(p)
     PROVE  WatcherSound'
  BY <1>19 DEF OtherDeletes, Elsewhere, InWindow
<1>20. CASE UNCHANGED vars
  BY <1>20 DEF vars
<1> QED
  BY <1>1, <1>2, <1>3, <1>4, <1>5, <1>6, <1>7, <1>8, <1>9, <1>10, <1>11, <1>12, <1>13, <1>14,
     <1>15, <1>16, <1>17, <1>18, <1>19, <1>20 DEF Next, Step

LEMMA FlagsKeep == SyncInv /\ [Next]_vars => Flags'
<1> SUFFICES ASSUME SyncInv, [Next]_vars
           PROVE  Flags'
  OBVIOUS
<1> USE FileSyncAssumption DEF SyncInv, Flags, buffer, watching, ghosts
<1>1. CASE SaveKey
  BY <1>1 DEF SaveKey, Key, SaveNow, ForceSave, StartSave, SaveMatches, Kept, Armed, NoConfirmation
<1>2. CASE ReloadKey
  BY <1>2 DEF ReloadKey, Key, Reload, StartReload, Disarmed, ReloadMatches, Kept, Armed,
     NoConfirmation, Reloadable
<1>3. CASE Edit
  BY <1>3 DEF Edit, Key, NoConfirmation
<1>4. CASE OtherKey
  BY <1>4 DEF OtherKey, Key, NoConfirmation
<1>5. CASE Inspect
  BY <1>5 DEF Inspect, At
<1>6. CASE Commit
  BY <1>6 DEF Commit, At, GoOn
<1>7. CASE SaveFails
  BY <1>7 DEF SaveFails, At, GiveUp
<1>8. CASE RewatchSaved
  BY <1>8 DEF RewatchSaved, At, Rewatch, GoOn
<1>9. CASE Capture
  BY <1>9 DEF Capture, At, NoConfirmation
<1>10. CASE Read
  BY <1>10 DEF Read, At, GoOn
<1>11. CASE Apply
  BY <1>11 DEF Apply, At, GoOn
<1>12. CASE ReloadFails
  BY <1>12 DEF ReloadFails, At, GiveUp
<1>13. CASE RewatchLoaded
  BY <1>13 DEF RewatchLoaded, At, Rewatch, NoConfirmation
<1>14. CASE CheckWatcher
  BY <1>14 DEF CheckWatcher, Notice, Reload, StartReload, Disarmed, ReloadMatches, Kept,
     NoConfirmation, Reloadable
<1>15. CASE CheckStopped
  BY <1>15 DEF CheckStopped, Notice, Reload, StartReload, Disarmed, ReloadMatches, Kept,
     NoConfirmation, Reloadable
<1>16. CASE WatcherDies
  BY <1>16 DEF WatcherDies
<1>17. ASSUME NEW p \in Paths, NEW command \in BOOLEAN, SaveAsKey(p, command)
     PROVE  Flags'
  BY <1>17 DEF SaveAsKey, Key, SaveNow, ForceSave, StartSave, SaveMatches, Kept, Armed,
     NoConfirmation
<1>18. ASSUME NEW p \in Paths, OtherWrites(p)
     PROVE  Flags'
  BY <1>18 DEF OtherWrites, Elsewhere, InWindow
<1>19. ASSUME NEW p \in Paths, OtherDeletes(p)
     PROVE  Flags'
  BY <1>19 DEF OtherDeletes, Elsewhere, InWindow
<1>20. CASE UNCHANGED vars
  BY <1>20 DEF vars
<1> QED
  BY <1>1, <1>2, <1>3, <1>4, <1>5, <1>6, <1>7, <1>8, <1>9, <1>10, <1>11, <1>12, <1>13, <1>14,
     <1>15, <1>16, <1>17, <1>18, <1>19, <1>20 DEF Next, Step

\* The questions the code asks.
LEMMA Asking ==
  ASSUME SyncInv
  PROVE  /\ NoConfirmation \in Questions /\ NoConfirmation.kind = "None"
         /\ Kept("Save") \in Questions /\ Kept("Save").kind # "Reload"
         /\ Kept("Save").kind = "Save" => Kept("Save").change # Unchanged
         /\ Disarmed \in Questions /\ Disarmed.kind # "Reload"
         /\ Disarmed.kind = "Save" => Disarmed.change # Unchanged
         /\ \A kind \in {"Save", "Reload"}, p \in Paths, c \in Changes, command \in BOOLEAN :
              /\ Armed(kind, p, c, command) \in Questions
              /\ Armed(kind, p, c, command).kind = kind
              /\ Armed(kind, p, c, command).path = p
              /\ Armed(kind, p, c, command).change = c
<1>1. Unchanged \in Changes
  BY DEF Unchanged, Change, Changes, Absent
<1>2. NoConfirmation \in Questions /\ NoConfirmation.kind = "None"
  BY <1>1 DEF NoConfirmation, Armed, Questions
<1>3. \A kind \in {"Save", "Reload"}, p \in Paths, c \in Changes, command \in BOOLEAN :
              /\ Armed(kind, p, c, command) \in Questions
              /\ Armed(kind, p, c, command).kind = kind
              /\ Armed(kind, p, c, command).path = p
              /\ Armed(kind, p, c, command).change = c
  BY DEF Armed, Questions
<1> QED
  BY <1>2, <1>3 DEF SyncInv, QuestionSound, Kept, Disarmed

\* A second press that finds what the first one asked about.
LEMMA Answering ==
  ASSUME SyncInv, path # NoPath, NEW change
  PROVE  /\ ReloadMatches(change) /\ confirmation.kind = "Reload" => confirmation.change = change
         /\ ReloadMatches(change) => confirmation.kind = "Reload"
         /\ ReloadMatches(change) => Reloadable(change)
<1>1. NoConfirmation.path = NoPath
  BY DEF NoConfirmation, Armed
<1> QED
  BY <1>1 DEF ReloadMatches, Kept

LEMMA ReloadableIsNot == ~Reloadable(Unchanged)
  BY DEF Reloadable, Unchanged, Change

\* What the operations start with.
LEMMA Starting ==
  /\ \A p \in Paths, blind \in BOOLEAN :
       /\ StartSave(p, blind) \in Saves /\ StartSave(p, blind).kind = "Save"
       /\ StartSave(p, blind).phase = "inspect" /\ StartSave(p, blind).target = p
       /\ StartSave(p, blind).blind = blind /\ StartSave(p, blind).pinned = 0
  /\ \A c \in Changes, giveUp \in BOOLEAN :
       /\ StartReload(c, giveUp) \in Reloads /\ StartReload(c, giveUp).kind = "Reload"
       /\ StartReload(c, giveUp).change = c
<1>1. \A p \in Paths, blind \in BOOLEAN :
       /\ StartSave(p, blind) \in Saves /\ StartSave(p, blind).kind = "Save"
       /\ StartSave(p, blind).phase = "inspect" /\ StartSave(p, blind).target = p
       /\ StartSave(p, blind).blind = blind /\ StartSave(p, blind).pinned = 0
  BY DEF StartSave, Saves, Absent
<1>2. \A c \in Changes, giveUp \in BOOLEAN :
       /\ StartReload(c, giveUp) \in Reloads /\ StartReload(c, giveUp).kind = "Reload"
       /\ StartReload(c, giveUp).change = c
  BY DEF StartReload, Reloads
<1> QED
  BY <1>1, <1>2

\* A save that goes ahead over an observed change.
LEMMA Forcing ==
  ASSUME SyncInv, NEW p \in Paths, NEW base, NEW change \in Observations(p, base),
         ForceSave(p, change), SaveMatches(p, change), UNCHANGED <<disk, version, path>>
  PROVE  SaveSound'
<1>1. change # Unchanged /\ change # Interrupted
  <2>1. NoConfirmation.path = NoPath
    BY DEF NoConfirmation, Armed
  <2>2. Kept("Save").path = p /\ Kept("Save").change = change /\ change # Interrupted
    BY DEF SaveMatches
  <2>3. Kept("Save").kind = "Save"
    BY <2>1, <2>2, FileSyncAssumption DEF Kept
  <2> QED
    BY <2>2, <2>3, Asking
<1>2. CASE change = Failed
  <2>1. op' = StartSave(p, TRUE)
    BY <1>2 DEF ForceSave
  <2>2. op' \in Saves /\ op'.phase = "inspect" /\ op'.blind /\ op'.pinned = 0
    BY <2>1, Starting
  <2> QED
    BY <2>2 DEF SaveSound, SyncInv, DiskKnown
<1>3. CASE change # Failed
  <2>1. change.version = disk[p]
    BY <1>1, <1>3, Observing DEF SyncInv
  <2>2. op' = StartSave(p, FALSE) /\ known' = known \cup {p}
    BY <1>3, <2>1 DEF ForceSave, SaveMatches
  <2>3. op' \in Saves /\ op'.phase = "inspect" /\ op'.target = p /\ op'.pinned = 0
    BY <2>2, Starting
  <2>4. 0 <= version' /\ p \in known'
    BY <2>2 DEF SyncInv, DiskKnown
  <2> QED
    BY <2>3, <2>4 DEF SaveSound
<1> QED
  BY <1>2, <1>3

\* What the watcher does with what it sees.
LEMMA Noticing ==
  ASSUME SyncInv, op = Idle, watcher # "Gone",
         NEW change \in Observations(path, snapshot), NEW giveUp \in BOOLEAN,
         Notice(change, giveUp), UNCHANGED <<disk, version, buffer, ghosts>>
  PROVE  QuestionSound' /\ OperationSound'
<1> USE DEF buffer, ghosts
<1>1. path \in Paths /\ path # NoPath /\ op.kind = "Idle"
  BY DEF SyncInv, WatcherSound, DiskKnown, Idle
<1>2. change \in Changes /\ change.version <= version
  BY <1>1, Observing DEF SyncInv
<1>3. CASE change = Unchanged
  <2>1. observed' = {} /\ op' = op /\ confirmation' = IF observed = {} THEN confirmation ELSE Disarmed
    BY <1>3 DEF Notice
  <2>2. QuestionSound'
    BY <1>1, <2>1, Asking DEF QuestionSound, SyncInv
  <2> QED
    BY <1>1, <2>1, <2>2 DEF OperationSound, SaveSound, ReloadSound
<1>4. CASE change # Unchanged /\ auto_reload /\ ~dirty /\ Reloadable(change)
  <2>1. op' = StartReload(change, giveUp) /\ confirmation' = Disarmed
    BY <1>4 DEF Notice, Reload
  <2>2. QuestionSound'
    BY <2>1, Asking DEF QuestionSound
  <2>3. OperationSound'
    BY <1>1, <1>2, <1>4, <2>1, Starting DEF OperationSound, SaveSound, ReloadSound
  <2> QED
    BY <2>2, <2>3
<1>5. CASE change # Unchanged /\ ~(auto_reload /\ ~dirty /\ Reloadable(change))
  <2>1. observed' = {change} /\ op' = op
        /\ confirmation' = IF ReloadMatches(change) THEN confirmation ELSE Disarmed
    BY <1>5 DEF Notice
  <2>2. QuestionSound'
    BY <1>1, <2>1, Asking, Answering DEF QuestionSound, SyncInv
  <2> QED
    BY <1>1, <2>1, <2>2 DEF OperationSound, SaveSound, ReloadSound
<1> QED
  BY <1>3, <1>4, <1>5

LEMMA QuestionKeeps == SyncInv /\ [Next]_vars => QuestionSound'
<1> SUFFICES ASSUME SyncInv, [Next]_vars
           PROVE  QuestionSound'
  OBVIOUS
<1> USE FileSyncAssumption DEF SyncInv, QuestionSound, Questions, DiskKnown, WatcherSound,
       OperationSound, SaveSound, ReloadSound, Idle, Saves, Reloads, buffer, watching, ghosts
<1>0. confirmation' \in Questions /\ confirmation'.kind # "Reload"
        /\ (confirmation'.kind = "Save" => confirmation'.change # Unchanged)
      => QuestionSound'
  BY DEF QuestionSound
<1>1. CASE SaveKey
  <2>1. CASE path = NoPath
    BY <1>0, <1>1, <2>1, Asking DEF SaveKey
  <2>2. CASE path # NoPath
    <3>1. PICK change \in Observations(path, snapshot) :
            IF change = Unchanged THEN SaveNow(path)
            ELSE IF SaveMatches(path, change) THEN ForceSave(path, change)
            ELSE confirmation' = Armed("Save", path, change, FALSE)
      BY <1>1, <2>2 DEF SaveKey
    <3>2. path \in Paths /\ change \in Changes
      BY <2>2, Observing
    <3>3. CASE confirmation' \in {NoConfirmation, Kept("Save")}
      BY <1>0, <3>3, Asking
    <3>4. CASE confirmation' = Armed("Save", path, change, FALSE) /\ change # Unchanged
      <4>1. confirmation' \in Questions /\ confirmation'.kind = "Save" /\ confirmation'.change = change
        BY <3>2, <3>4 DEF Armed, Questions
      <4> QED
        BY <1>0, <3>4, <4>1
    <3> QED
      BY <3>1, <3>3, <3>4 DEF SaveNow, ForceSave
  <2> QED
    BY <2>1, <2>2
<1>2. CASE ReloadKey
  <2>1. CASE path = NoPath
    BY <1>0, <1>2, <2>1, Asking DEF ReloadKey
  <2>2. CASE path # NoPath
    <3>1. PICK change \in Observations(path, snapshot) :
            IF ReloadMatches(change) THEN Reload(change, FALSE)
            ELSE /\ observed' = {change} \ {Unchanged}
                 /\ confirmation' = IF Reloadable(change)
                                    THEN Armed("Reload", path, change, FALSE) ELSE NoConfirmation
                 /\ pressed' = {change} /\ op' = op
      BY <1>2, <2>2 DEF ReloadKey
    <3>2. path \in Paths /\ change \in Changes /\ path' = path /\ op.kind = "Idle"
      BY <1>2, <2>2, Observing DEF ReloadKey, Key
    <3>3. CASE ReloadMatches(change)
      BY <1>0, <3>1, <3>3, Asking DEF Reload
    <3>4. CASE ~ReloadMatches(change) /\ Reloadable(change)
      <4>1. observed' = {change}
        BY <3>1, <3>4, ReloadableIsNot
      <4>2. confirmation' = Armed("Reload", path, change, FALSE)
        BY <3>1, <3>4
      <4>3. /\ confirmation' \in Questions /\ confirmation'.kind = "Reload"
            /\ confirmation'.path = path /\ confirmation'.change = change
        BY <3>2, <4>2 DEF Armed, Questions
      <4> QED
        BY <3>1, <3>2, <3>4, <4>1, <4>3 DEF QuestionSound
    <3>5. CASE ~ReloadMatches(change) /\ ~Reloadable(change)
      BY <1>0, <3>1, <3>5, Asking
    <3> QED
      BY <3>3, <3>4, <3>5
  <2> QED
    BY <2>1, <2>2
<1>3. CASE Edit
  BY <1>0, <1>3, Asking DEF Edit
<1>4. CASE OtherKey
  BY <1>0, <1>4, Asking DEF OtherKey
<1>5. CASE Inspect
  BY <1>5, Observing, AtMostOne DEF Inspect, At
<1>6. CASE Commit
  BY <1>6, Observing, AtMostOne DEF Commit, At, GoOn
<1>7. CASE SaveFails
  BY <1>7, Observing, AtMostOne DEF SaveFails, At, GiveUp
<1>8. CASE RewatchSaved
  BY <1>8, Observing, AtMostOne DEF RewatchSaved, At, Rewatch, GoOn
<1>9. CASE Capture
  BY <1>0, <1>9, Asking DEF Capture
<1>10. CASE Read
  BY <1>10, Observing, AtMostOne DEF Read, At, GoOn
<1>11. CASE Apply
  BY <1>11, Observing, AtMostOne DEF Apply, At, GoOn
<1>12. CASE ReloadFails
  BY <1>12, Observing, AtMostOne DEF ReloadFails, At, GiveUp
<1>13. CASE RewatchLoaded
  BY <1>0, <1>13, Asking DEF RewatchLoaded
<1>14. CASE CheckWatcher
  <2>1. PICK change \in Observations(path, snapshot) : Notice(change, FALSE)
    BY <1>14 DEF CheckWatcher
  <2> QED
    BY <1>14, <2>1, Noticing DEF CheckWatcher, QuestionSound
<1>15. CASE CheckStopped
  <2>1. PICK change \in Observations(path, snapshot) : Notice(change, restarts >= MaxRestarts)
    BY <1>15 DEF CheckStopped
  <2>2. (restarts >= MaxRestarts) \in BOOLEAN
    OBVIOUS
  <2>3. op = Idle /\ watcher # "Gone" /\ UNCHANGED <<disk, version, buffer, ghosts>>
    BY <1>15 DEF CheckStopped
  <2>4. QuestionSound' /\ OperationSound'
    BY <2>1, <2>2, <2>3, Noticing
  <2> QED
    BY <2>4 DEF OperationSound
<1>16. CASE WatcherDies
  BY <1>16, Observing, AtMostOne DEF WatcherDies
<1>17. ASSUME NEW p \in Paths, NEW command \in BOOLEAN, SaveAsKey(p, command)
     PROVE  QuestionSound'
  <2>1. PICK change \in Observations(p, {Absent}) :
          IF change = Unchanged THEN SaveNow(p)
          ELSE IF SaveMatches(p, change) /\ Kept("Save").command = command THEN ForceSave(p, change)
          ELSE confirmation' = Armed("Save", p, change, command)
    BY <1>17 DEF SaveAsKey
  <2>2. change \in Changes
    BY Observing
  <2>3. confirmation' \in {NoConfirmation, Kept("Save")}
          \/ (confirmation' = Armed("Save", p, change, command) /\ change # Unchanged)
    BY <2>1 DEF SaveNow, ForceSave
  <2> QED
    BY <1>0, <2>2, <2>3, Asking
<1>18. ASSUME NEW p \in Paths, OtherWrites(p)
     PROVE  QuestionSound'
  BY <1>18 DEF OtherWrites, Elsewhere, InWindow
<1>19. ASSUME NEW p \in Paths, OtherDeletes(p)
     PROVE  QuestionSound'
  BY <1>19 DEF OtherDeletes, Elsewhere, InWindow
<1>20. CASE UNCHANGED vars
  BY <1>20 DEF vars
<1> QED
  BY <1>1, <1>2, <1>3, <1>4, <1>5, <1>6, <1>7, <1>8, <1>9, <1>10, <1>11, <1>12, <1>13, <1>14,
     <1>15, <1>16, <1>17, <1>18, <1>19, <1>20 DEF Next, Step

LEMMA SaveKeeps == SyncInv /\ [Next]_vars => SaveSound'
<1> SUFFICES ASSUME SyncInv, [Next]_vars
           PROVE  SaveSound'
  OBVIOUS
<1> USE FileSyncAssumption DEF SyncInv, DiskKnown, SaveSound, OperationSound, Idle, Saves, buffer,
       watching, ghosts
<1>1. CASE SaveKey
  <2>1. op' = op \/ \E change \in Observations(path, snapshot) :
                      \/ path # NoPath /\ SaveNow(path) /\ change = Unchanged
                      \/ path # NoPath /\ ForceSave(path, change) /\ SaveMatches(path, change)
    BY <1>1 DEF SaveKey
  <2>2. CASE op' = op
    BY <1>1, <2>2 DEF SaveKey, Key
  <2>3. ASSUME NEW change \in Observations(path, snapshot), path # NoPath, SaveNow(path), change = Unchanged
        PROVE  SaveSound'
    <3>1. snapshot = {} \/ disk[path] \in snapshot
      BY <2>3, Observing
    <3>2. UNCHANGED <<disk, version, path, known>> /\ op' = StartSave(path, snapshot = {})
      BY <1>1, <2>3 DEF SaveKey, Key, SaveNow
    <3>3. /\ op' \in Saves /\ op'.phase = "inspect" /\ op'.target = path /\ op'.pinned = 0
          /\ op'.blind = (snapshot = {})
      BY <2>3, <3>2, Starting
    <3> QED
      BY <2>3, <3>1, <3>2, <3>3
  <2>4. ASSUME NEW change \in Observations(path, snapshot), path # NoPath,
               ForceSave(path, change), SaveMatches(path, change)
        PROVE  SaveSound'
    BY <1>1, <2>4, Forcing DEF SaveKey, Key
  <2> QED
    BY <2>1, <2>2, <2>3, <2>4
<1>2. CASE ReloadKey
  BY <1>2, Observing, AtMostOne DEF ReloadKey, Key, Reload, StartReload, Disarmed, ReloadMatches,
     Kept, Armed, NoConfirmation, Reloadable
<1>3. CASE Edit
  BY <1>3, Observing, AtMostOne DEF Edit, Key, NoConfirmation
<1>4. CASE OtherKey
  BY <1>4, Observing, AtMostOne DEF OtherKey, Key, NoConfirmation
<1>5. CASE Inspect
  BY <1>5, Observing, AtMostOne DEF Inspect, At
<1>6. CASE Commit
  BY <1>6, Observing, AtMostOne DEF Commit, At, GoOn
<1>7. CASE SaveFails
  BY <1>7, Observing, AtMostOne DEF SaveFails, At, GiveUp
<1>8. CASE RewatchSaved
  BY <1>8, Observing, AtMostOne DEF RewatchSaved, At, Rewatch, GoOn
<1>9. CASE Capture
  BY <1>9, Observing, AtMostOne DEF Capture, At, NoConfirmation
<1>10. CASE Read
  BY <1>10, Observing, AtMostOne DEF Read, At, GoOn
<1>11. CASE Apply
  BY <1>11, Observing, AtMostOne DEF Apply, At, GoOn
<1>12. CASE ReloadFails
  BY <1>12, Observing, AtMostOne DEF ReloadFails, At, GiveUp
<1>13. CASE RewatchLoaded
  BY <1>13, Observing, AtMostOne DEF RewatchLoaded, At, Rewatch, NoConfirmation
<1>14. CASE CheckWatcher
  <2>1. PICK change \in Observations(path, snapshot) : Notice(change, FALSE)
    BY <1>14 DEF CheckWatcher
  <2> QED
    BY <1>14, <2>1, Noticing DEF CheckWatcher, OperationSound
<1>15. CASE CheckStopped
  <2>1. PICK change \in Observations(path, snapshot) : Notice(change, restarts >= MaxRestarts)
    BY <1>15 DEF CheckStopped
  <2>2. (restarts >= MaxRestarts) \in BOOLEAN
    OBVIOUS
  <2>3. op = Idle /\ watcher # "Gone" /\ UNCHANGED <<disk, version, buffer, ghosts>>
    BY <1>15 DEF CheckStopped
  <2>4. QuestionSound' /\ OperationSound'
    BY <2>1, <2>2, <2>3, Noticing
  <2> QED
    BY <2>4 DEF OperationSound
<1>16. CASE WatcherDies
  BY <1>16, Observing, AtMostOne DEF WatcherDies
<1>17. ASSUME NEW p \in Paths, NEW command \in BOOLEAN, SaveAsKey(p, command)
     PROVE  SaveSound'
  <2>1. op' = op \/ \E change \in Observations(p, {Absent}) :
                      \/ SaveNow(p) /\ change = Unchanged
                      \/ ForceSave(p, change) /\ SaveMatches(p, change)
    BY <1>17 DEF SaveAsKey
  <2>2. CASE op' = op
    BY <1>17, <2>2 DEF SaveAsKey, Key
  <2>3. ASSUME NEW change \in Observations(p, {Absent}), SaveNow(p), change = Unchanged
        PROVE  SaveSound'
    <3>1. disk[p] = Absent
      BY <2>3, Observing
    <3>2. UNCHANGED <<disk, version, path, known>> /\ op' = StartSave(p, FALSE)
      BY <1>17, <2>3 DEF SaveAsKey, Key, SaveNow
    <3>3. op' \in Saves /\ op'.phase = "inspect" /\ op'.target = p /\ op'.pinned = 0
      BY <3>2, Starting
    <3>4. 0 <= version' /\ disk'[p] = Absent
      BY <3>1, <3>2
    <3> HIDE DEF DiskKnown, Saves
    <3> QED
      BY <3>3, <3>4
  <2>4. ASSUME NEW change \in Observations(p, {Absent}), ForceSave(p, change), SaveMatches(p, change)
        PROVE  SaveSound'
    BY <1>17, <2>4, Forcing DEF SaveAsKey, Key
  <2> QED
    BY <2>1, <2>2, <2>3, <2>4
<1>18. ASSUME NEW p \in Paths, OtherWrites(p)
     PROVE  SaveSound'
  BY <1>18 DEF OtherWrites, Elsewhere, InWindow
<1>19. ASSUME NEW p \in Paths, OtherDeletes(p)
     PROVE  SaveSound'
  BY <1>19 DEF OtherDeletes, Elsewhere, InWindow
<1>20. CASE UNCHANGED vars
  BY <1>20 DEF vars
<1> QED
  BY <1>1, <1>2, <1>3, <1>4, <1>5, <1>6, <1>7, <1>8, <1>9, <1>10, <1>11, <1>12, <1>13, <1>14,
     <1>15, <1>16, <1>17, <1>18, <1>19, <1>20 DEF Next, Step

LEMMA ReloadKeeps == SyncInv /\ [Next]_vars => ReloadSound'
<1> SUFFICES ASSUME SyncInv, [Next]_vars
           PROVE  ReloadSound'
  OBVIOUS
<1> USE FileSyncAssumption DEF SyncInv, DiskKnown, WatcherSound, ReloadSound, OperationSound,
       QuestionSound, Idle, Reloads, buffer, watching, ghosts
<1>1. CASE SaveKey
  BY <1>1, Starting DEF SaveKey, Key, SaveNow, ForceSave
<1>2. CASE ReloadKey
  <2>1. op' = op \/ \E change \in Observations(path, snapshot) :
                      path # NoPath /\ ReloadMatches(change) /\ Reload(change, FALSE) /\ pressed' = pressed
    BY <1>2 DEF ReloadKey
  <2>2. CASE op' = op
    BY <1>2, <2>2 DEF ReloadKey, Key
  <2>3. ASSUME NEW change \in Observations(path, snapshot), path # NoPath,
               ReloadMatches(change), Reload(change, FALSE), pressed' = pressed
        PROVE  ReloadSound'
    <3>1. Reloadable(change) /\ change \in pressed
      BY <2>3, Answering
    <3>2. change \in Changes /\ change.version <= version
      BY <2>3, Observing
    <3>3. op' = StartReload(change, FALSE) /\ UNCHANGED <<version, path>>
      BY <1>2, <2>3 DEF ReloadKey, Key, Reload
    <3> QED
      BY <2>3, <3>1, <3>2, <3>3, Starting
  <2> QED
    BY <2>1, <2>2, <2>3
<1>3. CASE Edit
  BY <1>3, Observing, AtMostOne DEF Edit, Key, NoConfirmation
<1>4. CASE OtherKey
  BY <1>4, Observing, AtMostOne DEF OtherKey, Key, NoConfirmation
<1>5. CASE Inspect
  BY <1>5, Observing, AtMostOne DEF Inspect, At
<1>6. CASE Commit
  BY <1>6, Observing, AtMostOne DEF Commit, At, GoOn
<1>7. CASE SaveFails
  BY <1>7, Observing, AtMostOne DEF SaveFails, At, GiveUp
<1>8. CASE RewatchSaved
  BY <1>8, Observing, AtMostOne DEF RewatchSaved, At, Rewatch, GoOn
<1>9. CASE Capture
  BY <1>9, Observing, AtMostOne DEF Capture, At, NoConfirmation
<1>10. CASE Read
  BY <1>10, Observing, AtMostOne DEF Read, At, GoOn
<1>11. CASE Apply
  BY <1>11, Observing, AtMostOne DEF Apply, At, GoOn
<1>12. CASE ReloadFails
  BY <1>12, Observing, AtMostOne DEF ReloadFails, At, GiveUp
<1>13. CASE RewatchLoaded
  BY <1>13, Observing, AtMostOne DEF RewatchLoaded, At, Rewatch, NoConfirmation
<1>14. CASE CheckWatcher
  <2>1. PICK change \in Observations(path, snapshot) : Notice(change, FALSE)
    BY <1>14 DEF CheckWatcher
  <2> QED
    BY <1>14, <2>1, Noticing DEF CheckWatcher, OperationSound
<1>15. CASE CheckStopped
  <2>1. PICK change \in Observations(path, snapshot) : Notice(change, restarts >= MaxRestarts)
    BY <1>15 DEF CheckStopped
  <2>2. (restarts >= MaxRestarts) \in BOOLEAN
    OBVIOUS
  <2>3. op = Idle /\ watcher # "Gone" /\ UNCHANGED <<disk, version, buffer, ghosts>>
    BY <1>15 DEF CheckStopped
  <2>4. QuestionSound' /\ OperationSound'
    BY <2>1, <2>2, <2>3, Noticing
  <2> QED
    BY <2>4 DEF OperationSound
<1>16. CASE WatcherDies
  BY <1>16, Observing, AtMostOne DEF WatcherDies
<1>17. ASSUME NEW p \in Paths, NEW command \in BOOLEAN, SaveAsKey(p, command)
     PROVE  ReloadSound'
  BY <1>17, Starting DEF SaveAsKey, Key, SaveNow, ForceSave
<1>18. ASSUME NEW p \in Paths, OtherWrites(p)
     PROVE  ReloadSound'
  <2>1. op' = op /\ UNCHANGED <<path, dirty, pressed>> /\ version' = version + 1
    BY <1>18 DEF OtherWrites, Elsewhere
  <2>2. op.kind = "Reload" => op.change.version \in Nat
    BY DEF Changes
  <2> QED
    BY <2>1, <2>2
<1>19. ASSUME NEW p \in Paths, OtherDeletes(p)
     PROVE  ReloadSound'
  BY <1>19 DEF OtherDeletes, Elsewhere, InWindow
<1>20. CASE UNCHANGED vars
  BY <1>20 DEF vars
<1> QED
  BY <1>1, <1>2, <1>3, <1>4, <1>5, <1>6, <1>7, <1>8, <1>9, <1>10, <1>11, <1>12, <1>13, <1>14,
     <1>15, <1>16, <1>17, <1>18, <1>19, <1>20 DEF Next, Step

LEMMA KindKeeps == SyncInv /\ [Next]_vars => op'.kind \in {"Idle", "Save", "Reload"}
<1> SUFFICES ASSUME SyncInv, [Next]_vars
           PROVE  op'.kind \in {"Idle", "Save", "Reload"}
  OBVIOUS
<1> USE DEF SyncInv, OperationSound, Idle, StartSave, StartReload, Saves, Reloads, SaveSound,
       ReloadSound, buffer, watching, ghosts
<1>1. CASE SaveKey
  BY <1>1 DEF SaveKey, Key, SaveNow, ForceSave, SaveMatches, Kept, Armed, NoConfirmation
<1>2. CASE ReloadKey
  BY <1>2 DEF ReloadKey, Key, Reload, Disarmed, ReloadMatches, Kept, Armed, NoConfirmation,
     Reloadable
<1>3. CASE Edit
  BY <1>3 DEF Edit, Key, NoConfirmation
<1>4. CASE OtherKey
  BY <1>4 DEF OtherKey, Key, NoConfirmation
<1>5. CASE Inspect
  BY <1>5 DEF Inspect, At
<1>6. CASE Commit
  BY <1>6 DEF Commit, At, GoOn
<1>7. CASE SaveFails
  BY <1>7 DEF SaveFails, At, GiveUp
<1>8. CASE RewatchSaved
  BY <1>8 DEF RewatchSaved, At, Rewatch, GoOn
<1>9. CASE Capture
  BY <1>9 DEF Capture, At, NoConfirmation
<1>10. CASE Read
  BY <1>10 DEF Read, At, GoOn
<1>11. CASE Apply
  BY <1>11 DEF Apply, At, GoOn
<1>12. CASE ReloadFails
  BY <1>12 DEF ReloadFails, At, GiveUp
<1>13. CASE RewatchLoaded
  BY <1>13 DEF RewatchLoaded, At, Rewatch, NoConfirmation
<1>14. CASE CheckWatcher
  BY <1>14 DEF CheckWatcher, Notice, Reload
<1>15. CASE CheckStopped
  BY <1>15 DEF CheckStopped, Notice, Reload
<1>16. CASE WatcherDies
  BY <1>16 DEF WatcherDies
<1>17. ASSUME NEW p \in Paths, NEW command \in BOOLEAN, SaveAsKey(p, command)
     PROVE  op'.kind \in {"Idle", "Save", "Reload"}
  BY <1>17 DEF SaveAsKey, Key, SaveNow, ForceSave
<1>18. ASSUME NEW p \in Paths, OtherWrites(p)
     PROVE  op'.kind \in {"Idle", "Save", "Reload"}
  BY <1>18 DEF OtherWrites, Elsewhere, InWindow
<1>19. ASSUME NEW p \in Paths, OtherDeletes(p)
     PROVE  op'.kind \in {"Idle", "Save", "Reload"}
  BY <1>19 DEF OtherDeletes, Elsewhere, InWindow
<1>20. CASE UNCHANGED vars
  BY <1>20 DEF vars
<1> QED
  BY <1>1, <1>2, <1>3, <1>4, <1>5, <1>6, <1>7, <1>8, <1>9, <1>10, <1>11, <1>12, <1>13, <1>14,
     <1>15, <1>16, <1>17, <1>18, <1>19, <1>20 DEF Next, Step

LEMMA SyncStart == Init => SyncInv
<1> SUFFICES ASSUME Init PROVE SyncInv
  OBVIOUS
<1> USE FileSyncAssumption DEF Init
<1>1. Cardinality(Paths) \in Nat
  BY FS_CardinalityType
<1>2. DiskKnown
  BY <1>1 DEF DiskKnown
<1>3. OneBaseline
  BY AtMostOne DEF OneBaseline
<1>4. OneObserved /\ WatcherSound
  BY DEF OneObserved, WatcherSound
<1>7. Flags
  BY Zenon DEF Flags
<1>5. QuestionSound
  BY DEF QuestionSound, Questions, NoConfirmation, Armed, Unchanged, Change, Changes, Absent
<1>6. OperationSound
  BY DEF OperationSound, SaveSound, ReloadSound, Idle
<1> QED
  BY <1>2, <1>3, <1>4, <1>5, <1>6, <1>7 DEF SyncInv

THEOREM SyncAlways == Spec => []SyncInv
<1>1. SyncInv /\ [Next]_vars => SyncInv'
  BY DiskKeeps, BaselineKeeps, ObservedKeeps, WatcherKeeps, FlagsKeep, QuestionKeeps, SaveKeeps,
     ReloadKeeps, KindKeeps DEF SyncInv, OperationSound
<1> QED
  BY <1>1, SyncStart, PTL DEF Spec

\* A question about a reload is about the buffer's own file and the change on display,
\* whatever keys, watcher events and writes of others came since it was asked.
THEOREM ReloadQuestionIsDisplayed == Spec => []ArmedIsDisplayed
<1>1. SyncInv => ArmedIsDisplayed
  <2> SUFFICES ASSUME SyncInv PROVE ArmedIsDisplayed
    OBVIOUS
  <2>1. observed \subseteq [kind : {"Modified", "Deleted", "Interrupted", "Failed"}, version : 0..version]
        /\ Cardinality(observed) <= 1
    <3>1. CASE observed = {}
      BY <3>1, AtMostOne
    <3>2. ASSUME NEW c \in Changes, observed = {c}, c.kind \in Reported, c.version <= version
          PROVE  c \in [kind : {"Modified", "Deleted", "Interrupted", "Failed"}, version : 0..version]
      BY <3>2 DEF Changes, Reported, SyncInv, DiskKnown
    <3> QED
      BY <3>1, <3>2, AtMostOne DEF SyncInv, OneObserved
  <2>2. {dirty, hint, auto_reload} \subseteq BOOLEAN
    BY Zenon DEF SyncInv, Flags
  <2>3. /\ disk \in [Paths -> 0..version] /\ version \in Versions
        /\ path \in Paths \cup {NoPath} /\ snapshot \subseteq 0..version
    BY FileSyncAssumption DEF SyncInv, DiskKnown, Versions
  <2>4. TypeOK
    BY <2>1, <2>2, <2>3 DEF TypeOK, SyncInv, OneBaseline, QuestionSound, Questions, WatcherSound
  <2> QED
    BY <2>4 DEF ArmedIsDisplayed, SyncInv, QuestionSound
<1> QED
  BY <1>1, SyncAlways, PTL

\* A save never replaces a version that the buffer does not know and that nobody was
\* asked or told about, whatever was written between its checks.
THEOREM SavesAreGuarded == Spec => NoSilentOverwrite
<1>1. SyncInv /\ [Next]_vars /\ Commits =>
        disk[op.target] = Absent \/ op.target \in known \/ op.blind
  <2> SUFFICES ASSUME SyncInv, Next, Commits
               PROVE  disk[op.target] = Absent \/ op.target \in known \/ op.blind
    BY DEF Commits, vars
  <2>1. Commit
    BY DEF Commits, Next, Step, SaveKey, ReloadKey, Edit, OtherKey, SaveAsKey, Key, Idle, Inspect,
       SaveFails, GiveUp, RewatchSaved, Capture, Read, Apply, ReloadFails, RewatchLoaded, CheckWatcher,
       CheckStopped, WatcherDies, OtherWrites, OtherDeletes, Elsewhere, At
  <2> QED
    BY <2>1 DEF Commits, Commit, SyncInv, OperationSound, SaveSound
<1> QED
  BY <1>1, SyncAlways, PTL DEF Spec, NoSilentOverwrite

\* What a reload installs is on disk at that moment, and unsaved text is taken away only
\* when the last two presses asked about that very version.
THEOREM ReloadsAskFirst == Spec => ReloadsAreConfirmed
<1>1. SyncInv /\ [Next]_vars /\ Installs =>
        /\ op.change.version = disk[path] /\ snapshot' = {disk[path]}
        /\ dirty => op.change \in pressed
  <2> SUFFICES ASSUME SyncInv, Next, Installs
               PROVE  /\ op.change.version = disk[path] /\ snapshot' = {disk[path]}
                      /\ dirty => op.change \in pressed
    BY DEF Installs, vars
  <2>1. op # Idle /\ op' # op /\ At("Reload", "apply") /\ op' # Idle
    BY DEF Installs, Idle, At
  <2>2. Step
    BY <2>1 DEF Next, SaveKey, ReloadKey, Edit, OtherKey, SaveAsKey, Key, CheckWatcher,
       CheckStopped, WatcherDies, OtherWrites, OtherDeletes, Elsewhere
  <2>3. Apply
    BY <2>1, <2>2 DEF Step, Inspect, Commit, SaveFails, GiveUp, RewatchSaved, Capture, Read,
       ReloadFails,
       RewatchLoaded, At
  <2> QED
    BY <2>3 DEF Installs, Apply, SyncInv, OperationSound, ReloadSound
<1> QED
  BY <1>1, SyncAlways, PTL DEF Spec, ReloadsAreConfirmed

-----------------------------------------------------------------------------
(* AtomicWrite. *)

Target == entry["target"]
Temp   == entry["temp"]
Linked == entry["alias"]

\* The steps before there is a staged file, those at which it is complete and not
\* committed, those after the exchange, and those of an update in place.
Before  == {"stat", "open", "create"}
Written == {"publish", "validate", "exchange", "truncate"}
Swapped == {"displaced", "unlink", "rollback"}
InPlace == {"refill", "unstage"}
Labels  == Before \cup {"stream"} \cup Written \cup Swapped \cup InPlace
             \cup {"discard", "done", "crashed"}

Inspections == [ino : Inode, links : Nat, stamp : Nat, ctime : Nat]

SaveTypes ==
  /\ entry \in [Names -> Inode \cup {Gone}]
  /\ data \in [Inode -> Data]
  /\ stamp \in [Inode -> Nat] /\ ctime \in [Inode -> Nat]
  /\ staged \in {"None", "Owned", "Committed", "KeptAsRecoveryEvidence"}
  /\ result \in {"None", "Ok", "Err"} /\ pc \in Labels
  /\ external \in 0..MaxExternal /\ used \subseteq Documents
  /\ pc = "done" <=> result # "None"
  /\ seen \in {Missing} \cup Inspections

\* A name leads to a document only once it was written; the save inspects no other.
EntriesKnown ==
  /\ \A n \in Names : entry[n] \in {Gone, "original", "staged"} \cup used
  /\ seen # Missing => seen.ino \in {"original"} \cup used

\* Which way the save takes is decided by what it has seen.
RouteKept ==
  /\ pc \in {"stat", "publish"} => seen = Missing
  /\ pc \in {"open", "validate", "exchange"} \cup Swapped => seen # Missing
  /\ pc \in {"exchange"} \cup Swapped => ~HardLinked
  /\ pc \in {"truncate"} \cup InPlace => HardLinked

\* Where the staged file is, and who has to remove it.
StagedKept ==
  /\ pc \in Before => staged = "None" /\ Temp = Gone
  /\ pc \in {"stream"} \cup Written => staged = "Owned" /\ Temp = "staged"
  /\ pc \in Swapped => staged = "Committed" /\ Temp \notin {Gone, "staged"}
  /\ pc \in InPlace => Temp = "staged"
  /\ pc = "refill" => staged = "KeptAsRecoveryEvidence"
  /\ pc = "unstage" => staged = "Committed"
  /\ pc \in Written \cup InPlace => data["staged"] = "new"
  /\ HardLinked \/ pc \in Before \cup {"stream"} \cup Written =>
       "staged" \notin {Target, Linked}
  /\ staged = "KeptAsRecoveryEvidence" => Temp # Gone
  /\ pc = "discard" /\ staged = "Owned" => Temp # Gone
  /\ pc = "discard" /\ staged = "Committed" => HardLinked

\* The only inodes that are empty or half written are the staged file while nobody has
\* it by another name, those not yet made, and a hard-linked target while the staged
\* file is kept complete beside it.
TornKnown ==
  /\ "staged" \in {Target, Linked} => data["staged"] \notin Torn
  /\ \A i \in Inode :
       data[i] \in Torn =>
         \/ i = "staged"
         \/ i \in Documents /\ (\A n \in Names : entry[n] # i) /\ (seen # Missing => seen.ino # i)
         \/ /\ HardLinked /\ i = seen.ino /\ staged = "KeptAsRecoveryEvidence"
            /\ Temp = "staged" /\ data["staged"] = "new"

TargetStays == started["target"] # Gone /\ ~removed => Target # Gone

IntactInv ==
  /\ SaveTypes /\ EntriesKnown /\ RouteKept /\ StagedKept /\ TornKnown /\ TargetStays

\* Nothing is destroyed before the target was inspected, and what is inspected is what
\* the inode holds for as long as its stamp stays; what is displaced is that inode,
\* and no other name leads to it when it is removed.
InspectedHeld ==
  /\ pc \in {"stat", "open"} => destroyed = {}
  /\ ~HardLinked /\ result # "Err" => destroyed \subseteq inspected
  /\ seen # Missing /\ pc \in {"create", "stream", "validate", "exchange", "displaced"} =>
       /\ stamp[seen.ino] >= seen.stamp
       /\ stamp[seen.ino] = seen.stamp => data[seen.ino] \in inspected
  /\ pc = "unlink" => Temp \notin {Target, Linked} /\ data[Temp] \in inspected

\* Left alone, the save finds what it left.
LeftAlone ==
  external = 0 =>
    /\ pc \in Swapped => Target = "staged" /\ Temp = started["target"]
    /\ pc \notin Swapped \cup {"crashed"} /\ result # "Ok" /\ staged # "KeptAsRecoveryEvidence" =>
         Target = started["target"]
    /\ pc \in InPlace => Target = started["target"]
    /\ ~faulted =>
         /\ pc \notin {"discard", "rollback"}
         /\ seen # Missing /\ pc \in {"open", "create", "stream", "validate", "exchange",
              "truncate"} =>
              Target # Gone /\ Metadata("target") = seen
         /\ seen = Missing /\ pc \in {"create", "stream", "publish"} => Target = Gone
         /\ pc = "displaced" => SamePreservedMetadata(Metadata("temp"))
         /\ pc \in {"displaced", "unlink"} => data["staged"] = "new"
         /\ pc \in InPlace => Target = seen.ino
         /\ pc = "unstage" => data[Target] = "new"
         /\ pc = "done" => result = "Ok" /\ Temp = Gone /\ Target # Gone /\ data[Target] = "new"

SaveInv == IntactInv /\ InspectedHeld /\ LeftAlone

\* The number of names of an inode.
LEMMA NamesFinite == IsFiniteSet(Names)
<1>1. IsFiniteSet({}) /\ IsFiniteSet({"target"})
  BY FS_EmptySet, FS_Singleton
<1>2. IsFiniteSet({"target"} \cup {"temp"})
  BY <1>1, FS_AddElement
<1>3. IsFiniteSet(({"target"} \cup {"temp"}) \cup {"alias"})
  BY <1>2, FS_AddElement
<1>4. Names = ({"target"} \cup {"temp"}) \cup {"alias"}
  BY DEF Names
<1> QED
  BY <1>3, <1>4

LEMMA LinksAreNat ==
  ASSUME NEW name
  PROVE  Cardinality({n \in Names : entry[n] = entry[name]}) \in Nat
  BY NamesFinite, FS_Subset, FS_CardinalityType

\* An inode with a single link has no other name.
LEMMA OnlyName ==
  ASSUME NEW name \in Names, Cardinality({n \in Names : entry[n] = entry[name]}) <= 1
  PROVE  {n \in Names : entry[n] = entry[name]} = {name}
<1> DEFINE Same == {n \in Names : entry[n] = entry[name]}
<1>1. IsFiniteSet(Same)
  BY NamesFinite, FS_Subset
<1>2. ASSUME NEW m \in Same, m # name PROVE FALSE
  <2>1. IsFiniteSet({name}) /\ Cardinality({name}) = 1
    BY FS_Singleton
  <2>2. Cardinality({name} \cup {m}) = 2
    BY <2>1, <1>2, FS_AddElement
  <2>3. {name} \cup {m} \subseteq Same
    OBVIOUS
  <2> QED
    BY <1>1, <2>2, <2>3, FS_Subset, FS_CardinalityType
<1> QED
  BY <1>2

\* What an inspection compares.
LEMMA StampTells ==
  ASSUME NEW name
  PROVE  /\ Metadata(name) = seen =>
              /\ entry[name] = seen.ino /\ stamp[entry[name]] = seen.stamp
              /\ Cardinality({n \in Names : entry[n] = entry[name]}) = seen.links
         /\ SamePreservedMetadata(Metadata(name)) =>
              /\ entry[name] = seen.ino /\ stamp[entry[name]] = seen.stamp
              /\ Cardinality({n \in Names : entry[n] = entry[name]}) = seen.links
<1>1. Metadata(name).ino = entry[name] /\ Metadata(name).stamp = stamp[entry[name]]
      /\ Metadata(name).links = Cardinality({n \in Names : entry[n] = entry[name]})
  BY DEF Metadata
<1>2. [Metadata(name) EXCEPT !.ctime = seen.ctime].ino = entry[name]
      /\ [Metadata(name) EXCEPT !.ctime = seen.ctime].stamp = stamp[entry[name]]
      /\ [Metadata(name) EXCEPT !.ctime = seen.ctime].links
           = Cardinality({n \in Names : entry[n] = entry[name]})
  BY DEF Metadata
<1> QED
  BY <1>1, <1>2 DEF SamePreservedMetadata

LEMMA TypesKeep == SaveTypes /\ RouteKept /\ [SaveNext]_saveVars => SaveTypes'
<1> SUFFICES ASSUME SaveTypes, RouteKept, [SaveNext]_saveVars PROVE SaveTypes'
  OBVIOUS
<1> USE AtomicWriteAssumption DEF SaveTypes, Labels, Before, Written, Swapped, InPlace, Inode,
     Gone, Missing, inodes, program, saveGhosts, saveVars, Names, Data, Torn
<1> DEFINE SwapTypes == entry' \in [Names -> Inode \cup {Gone}] /\ ctime' \in [Inode -> Nat]
<1>0. Swap => SwapTypes
  BY DEF Swap
<1> HIDE DEF SwapTypes
<1>1. CASE Stat
  BY <1>1, LinksAreNat DEF Inspections, Stat, Goto, Metadata
<1>2. CASE Open
  BY <1>2 DEF Open, Goto, Fail
<1>3. CASE Create
  BY <1>3, LinksAreNat DEF Create, Goto, Fault, Fail
<1>4. CASE Stream
  BY <1>4, LinksAreNat DEF Stream, Goto, Fault, Fail, AfterStream
<1>5. CASE Publish
  BY <1>5, LinksAreNat DEF Publish, Goto, Return, Fail
<1>6. CASE Validate
  BY <1>6, LinksAreNat DEF Validate, Goto, Fail
<1>7. CASE Exchange
  BY <1>7, <1>0 DEF SwapTypes, Exchange, Goto, Fail
<1>8. CASE Displaced
  BY <1>8, LinksAreNat DEF Displaced, Goto
<1>9. CASE Unlink
  BY <1>9, LinksAreNat DEF Unlink, Goto, RemoveTemp, Return
<1>10. CASE Rollback
  BY <1>10, <1>0 DEF SwapTypes, Rollback, Goto, Fail
<1>11. CASE Truncate
  <2>1. seen # Missing
    BY <1>11 DEF RouteKept, HardLinked, Truncate
  <2>2. seen.ino \in Inode
    BY <2>1 DEF Inspections
  <2>3. data' \in [Inode -> Data]
    BY <1>11, <2>2 DEF Truncate
  <2>4. stamp' \in [Inode -> Nat]
    <3>1. stamp' = stamp \/ stamp' = [stamp EXCEPT ![seen.ino] = @ + 1]
      BY <1>11 DEF Truncate
    <3>2. stamp \in [Inode -> Nat]
      OBVIOUS
    <3> HIDE DEF SaveTypes, Inode
    <3> QED
      BY <2>2, <3>1, <3>2
  <2> QED
    BY <1>11, <2>3, <2>4 DEF Truncate, Goto, Fail
<1>12. CASE Refill
  <2>1. seen # Missing
    BY <1>12 DEF RouteKept, HardLinked, Refill
  <2>2. seen.ino \in Inode
    BY <2>1 DEF Inspections
  <2>3. data' \in [Inode -> Data]
    BY <1>12, <2>2 DEF Refill
  <2>4. stamp' \in [Inode -> Nat]
    BY <1>12, <2>2 DEF Refill
  <2> QED
    BY <1>12, <2>3, <2>4 DEF Refill, Goto, Fault, Fail
<1>13. CASE Unstage
  BY <1>13, LinksAreNat DEF Unstage, Goto, RemoveTemp, Return, Fault, Fail
<1>14. CASE Discard
  BY <1>14, LinksAreNat DEF Discard, Goto, RemoveTemp, Return
<1>15. CASE Crash
  BY <1>15, LinksAreNat DEF Crash, Goto
<1>16. CASE OtherChangesMode
  BY <1>16, LinksAreNat DEF OtherChangesMode, Goto, Other, Touched
<1>17. CASE OtherLinks
  BY <1>17, LinksAreNat DEF OtherLinks, Goto, Other
<1>18. CASE OtherRemoves
  BY <1>18, LinksAreNat DEF OtherRemoves, Goto, Other
<1>19. ASSUME NEW d \in Documents, OtherReplaces(d) PROVE SaveTypes'
  BY <1>19 DEF OtherReplaces, Other, Touched
<1>20. ASSUME NEW d \in Documents, OtherRewrites(d) PROVE SaveTypes'
  BY <1>20 DEF OtherRewrites, Other, Touched
<1>21. CASE UNCHANGED saveVars
  BY <1>21
<1> QED
  BY <1>1, <1>2, <1>3, <1>4, <1>5, <1>6, <1>7, <1>8, <1>9, <1>10, <1>11, <1>12, <1>13, <1>14,
       <1>15, <1>16, <1>17, <1>18, <1>19, <1>20, <1>21 DEF SaveNext, SaveStep, OtherProcess

LEMMA EntriesKeep ==
  SaveTypes /\ EntriesKnown /\ RouteKept /\ StagedKept
    /\ [SaveNext]_saveVars => EntriesKnown'
<1> SUFFICES ASSUME SaveTypes /\ EntriesKnown /\ RouteKept /\ StagedKept,
                  [SaveNext]_saveVars
           PROVE  EntriesKnown'
  OBVIOUS
<1> USE AtomicWriteAssumption DEF EntriesKnown, Before, Written, Swapped, InPlace, Inode, Gone,
     Missing, inodes, program, saveGhosts, saveVars, Names, Target, Temp, Linked, SaveTypes,
     RouteKept, Labels
<1>1. CASE Stat
  <2>1. entry' = entry /\ used' = used
    BY <1>1 DEF Stat
  <2>2. seen' = Missing \/ (seen' = Metadata("target") /\ entry["target"] # Gone)
    BY <1>1 DEF Stat
  <2>3. Metadata("target").ino = entry["target"]
    BY DEF Metadata
  <2>4. CASE seen' = Missing
    BY <2>1, <2>4
  <2>5. CASE seen' = Metadata("target") /\ entry["target"] # Gone
    <3>1. seen'.ino \in {"original", "staged"} \cup used
      BY <2>3, <2>5
    <3>2. entry["target"] # "staged"
      BY <1>1 DEF Stat, StagedKept
    <3> QED
      BY <2>1, <2>5, <2>3, <3>1, <3>2
  <2> QED
    BY <2>2, <2>4, <2>5
<1>2. CASE Open
  BY <1>2 DEF Open, Goto, Fail
<1>3. CASE Create
  BY <1>3 DEF Create, Goto, Fault, Fail
<1>4. CASE Stream
  BY <1>4 DEF Stream, Goto, Fault, Fail, AfterStream
<1>5. CASE Publish
  BY <1>5 DEF Publish, Goto, Return, Fail
<1>6. CASE Validate
  BY <1>6 DEF Validate, Goto, Fail
<1>7. CASE Exchange
  BY <1>7 DEF Exchange, Goto, Swap, Fail
<1>8. CASE Displaced
  BY <1>8 DEF Displaced, Goto
<1>9. CASE Unlink
  BY <1>9 DEF Unlink, Goto, RemoveTemp, Return
<1>10. CASE Rollback
  BY <1>10 DEF Rollback, Goto, Swap, Fail
<1>11. CASE Truncate
  BY <1>11 DEF Truncate, Goto, Fail
<1>12. CASE Refill
  BY <1>12 DEF Refill, Goto, Fault, Fail
<1>13. CASE Unstage
  BY <1>13 DEF Unstage, Goto, RemoveTemp, Return, Fault, Fail
<1>14. CASE Discard
  BY <1>14 DEF Discard, Goto, RemoveTemp, Return
<1>15. CASE Crash
  BY <1>15 DEF Crash, Goto
<1>16. CASE OtherChangesMode
  BY <1>16 DEF OtherChangesMode, Goto, Other, Touched
<1>17. CASE OtherLinks
  BY <1>17 DEF OtherLinks, Goto, Other
<1>18. CASE OtherRemoves
  BY <1>18 DEF OtherRemoves, Goto, Other
<1>19. ASSUME NEW d \in Documents, OtherReplaces(d) PROVE EntriesKnown'
  BY <1>19 DEF OtherReplaces, Other, Touched
<1>20. ASSUME NEW d \in Documents, OtherRewrites(d) PROVE EntriesKnown'
  BY <1>20 DEF OtherRewrites, Other, Touched
<1>21. CASE UNCHANGED saveVars
  BY <1>21
<1> QED
  BY <1>1, <1>2, <1>3, <1>4, <1>5, <1>6, <1>7, <1>8, <1>9, <1>10, <1>11, <1>12, <1>13, <1>14,
       <1>15, <1>16, <1>17, <1>18, <1>19, <1>20, <1>21 DEF SaveNext, SaveStep, OtherProcess

LEMMA RouteKeep == SaveTypes /\ RouteKept /\ [SaveNext]_saveVars => RouteKept'
<1> SUFFICES ASSUME SaveTypes /\ RouteKept, [SaveNext]_saveVars PROVE RouteKept'
  OBVIOUS
<1> USE AtomicWriteAssumption DEF RouteKept, HardLinked, Before, Written, Swapped, InPlace, Inode,
     Gone, Missing, inodes, program, saveGhosts, saveVars, Names, Target, Temp, Linked
<1>1. CASE Stat
  <2>1. Metadata("target").ino = entry["target"]
    BY DEF Metadata
  <2>2. Metadata("target") = Missing => entry["target"] = Gone
    BY <2>1
  <2> QED
    BY <1>1, <2>2 DEF Stat, Goto
<1>2. CASE Open
  BY <1>2 DEF Open, Goto, Fail
<1>3. CASE Create
  BY <1>3 DEF Create, Goto, Fault, Fail
<1>4. CASE Stream
  BY <1>4 DEF Stream, Goto, Fault, Fail, AfterStream
<1>5. CASE Publish
  BY <1>5 DEF Publish, Goto, Return, Fail
<1>6. CASE Validate
  BY <1>6 DEF Validate, Goto, Fail
<1>7. CASE Exchange
  BY <1>7 DEF Exchange, Goto, Swap, Fail
<1>8. CASE Displaced
  BY <1>8 DEF Displaced, Goto
<1>9. CASE Unlink
  BY <1>9 DEF Unlink, Goto, RemoveTemp, Return
<1>10. CASE Rollback
  BY <1>10 DEF Rollback, Goto, Swap, Fail
<1>11. CASE Truncate
  BY <1>11 DEF Truncate, Goto, Fail
<1>12. CASE Refill
  BY <1>12 DEF Refill, Goto, Fault, Fail
<1>13. CASE Unstage
  BY <1>13 DEF Unstage, Goto, RemoveTemp, Return, Fault, Fail
<1>14. CASE Discard
  BY <1>14 DEF Discard, Goto, RemoveTemp, Return
<1>15. CASE Crash
  BY <1>15 DEF Crash, Goto
<1>16. CASE OtherChangesMode
  BY <1>16 DEF OtherChangesMode, Goto, Other, Touched
<1>17. CASE OtherLinks
  BY <1>17 DEF OtherLinks, Goto, Other
<1>18. CASE OtherRemoves
  BY <1>18 DEF OtherRemoves, Goto, Other
<1>19. ASSUME NEW d \in Documents, OtherReplaces(d) PROVE RouteKept'
  BY <1>19 DEF OtherReplaces, Other, Touched
<1>20. ASSUME NEW d \in Documents, OtherRewrites(d) PROVE RouteKept'
  BY <1>20 DEF OtherRewrites, Other, Touched
<1>21. CASE UNCHANGED saveVars
  BY <1>21
<1> QED
  BY <1>1, <1>2, <1>3, <1>4, <1>5, <1>6, <1>7, <1>8, <1>9, <1>10, <1>11, <1>12, <1>13, <1>14,
       <1>15, <1>16, <1>17, <1>18, <1>19, <1>20, <1>21 DEF SaveNext, SaveStep, OtherProcess

LEMMA StagedKeep ==
  SaveTypes /\ EntriesKnown /\ RouteKept /\ StagedKept
    /\ [SaveNext]_saveVars => StagedKept'
<1> SUFFICES ASSUME SaveTypes /\ EntriesKnown /\ RouteKept /\ StagedKept,
                  [SaveNext]_saveVars
           PROVE  StagedKept'
  OBVIOUS
<1> USE AtomicWriteAssumption DEF EntriesKnown, Before, Written, Swapped, InPlace, Inode, Gone,
     Missing, inodes, program, saveGhosts, saveVars, Names, Target, Temp, Linked, RouteKept,
     StagedKept, HardLinked, SaveTypes
<1>1. CASE Stat
  BY <1>1 DEF Metadata, Stat, Goto
<1>2. CASE Open
  BY <1>2 DEF Open, Goto, Fail
<1>3. CASE Create
  BY <1>3 DEF Create, Goto, Fault, Fail
<1>4. CASE Stream
  BY <1>4 DEF Stream, Goto, Fault, Fail, AfterStream
<1>5. CASE Publish
  BY <1>5 DEF Publish, Goto, Return, Fail
<1>6. CASE Validate
  BY <1>6 DEF Validate, Goto, Fail
<1>7. CASE Exchange
  BY <1>7 DEF Exchange, Goto, Swap, Fail
<1>8. CASE Displaced
  BY <1>8 DEF Displaced, Goto
<1>9. CASE Unlink
  BY <1>9 DEF Unlink, Goto, RemoveTemp, Return
<1>10. CASE Rollback
  BY <1>10 DEF Rollback, Goto, Swap, Fail
<1>11. CASE Truncate
  BY <1>11 DEF Truncate, Goto, Fail
<1>12. CASE Refill
  BY <1>12 DEF Refill, Goto, Fault, Fail
<1>13. CASE Unstage
  BY <1>13 DEF Unstage, Goto, RemoveTemp, Return, Fault, Fail
<1>14. CASE Discard
  BY <1>14 DEF Discard, Goto, RemoveTemp, Return
<1>15. CASE Crash
  BY <1>15 DEF Crash, Goto
<1>16. CASE OtherChangesMode
  BY <1>16 DEF OtherChangesMode, Goto, Other, Touched
<1>17. CASE OtherLinks
  BY <1>17 DEF OtherLinks, Goto, Other
<1>18. CASE OtherRemoves
  BY <1>18 DEF OtherRemoves, Goto, Other
<1>19. ASSUME NEW d \in Documents, OtherReplaces(d) PROVE StagedKept'
  BY <1>19 DEF OtherReplaces, Other, Touched
<1>20. ASSUME NEW d \in Documents, OtherRewrites(d) PROVE StagedKept'
  BY <1>20 DEF OtherRewrites, Other, Touched
<1>21. CASE UNCHANGED saveVars
  BY <1>21
<1> QED
  BY <1>1, <1>2, <1>3, <1>4, <1>5, <1>6, <1>7, <1>8, <1>9, <1>10, <1>11, <1>12, <1>13, <1>14,
       <1>15, <1>16, <1>17, <1>18, <1>19, <1>20, <1>21 DEF SaveNext, SaveStep, OtherProcess

LEMMA TornKeep ==
  SaveTypes /\ EntriesKnown /\ RouteKept /\ StagedKept /\ TornKnown
    /\ [SaveNext]_saveVars => TornKnown'
<1> SUFFICES ASSUME SaveTypes /\ EntriesKnown /\ RouteKept /\ StagedKept /\ TornKnown,
                  [SaveNext]_saveVars
           PROVE  TornKnown'
  OBVIOUS
<1> USE AtomicWriteAssumption DEF EntriesKnown, Before, Written, Swapped, InPlace, Inode, Gone,
     Missing, inodes, program, saveGhosts, saveVars, Names, Target, Temp, Linked, RouteKept,
     StagedKept, TornKnown, HardLinked, SaveTypes, Data, Torn
<1>1. CASE Stat
  BY <1>1 DEF Metadata, Stat, Goto
<1>2. CASE Open
  BY <1>2 DEF Open, Goto, Fail
<1>3. CASE Create
  BY <1>3 DEF Create, Goto, Fault, Fail
<1>4. CASE Stream
  BY <1>4 DEF Stream, Goto, Fault, Fail, AfterStream
<1>5. CASE Publish
  BY <1>5 DEF Publish, Goto, Return, Fail
<1>6. CASE Validate
  BY <1>6 DEF Validate, Goto, Fail
<1>7. CASE Exchange
  BY <1>7 DEF Exchange, Goto, Swap, Fail
<1>8. CASE Displaced
  BY <1>8 DEF Displaced, Goto
<1>9. CASE Unlink
  BY <1>9 DEF Unlink, Goto, RemoveTemp, Return
<1>10. CASE Rollback
  BY <1>10 DEF Rollback, Goto, Swap, Fail
<1>11. CASE Truncate
  BY <1>11 DEF Truncate, Goto, Fail
<1>12. CASE Refill
  BY <1>12 DEF Refill, Goto, Fault, Fail
<1>13. CASE Unstage
  BY <1>13 DEF Unstage, Goto, RemoveTemp, Return, Fault, Fail
<1>14. CASE Discard
  BY <1>14 DEF Discard, Goto, RemoveTemp, Return
<1>15. CASE Crash
  BY <1>15 DEF Crash, Goto
<1>16. CASE OtherChangesMode
  BY <1>16 DEF OtherChangesMode, Goto, Other, Touched
<1>17. CASE OtherLinks
  BY <1>17 DEF OtherLinks, Goto, Other
<1>18. CASE OtherRemoves
  BY <1>18 DEF OtherRemoves, Goto, Other
<1>19. ASSUME NEW d \in Documents, OtherReplaces(d) PROVE TornKnown'
  BY <1>19 DEF OtherReplaces, Other, Touched
<1>20. ASSUME NEW d \in Documents, OtherRewrites(d) PROVE TornKnown'
  BY <1>20 DEF OtherRewrites, Other, Touched
<1>21. CASE UNCHANGED saveVars
  BY <1>21
<1> QED
  BY <1>1, <1>2, <1>3, <1>4, <1>5, <1>6, <1>7, <1>8, <1>9, <1>10, <1>11, <1>12, <1>13, <1>14,
       <1>15, <1>16, <1>17, <1>18, <1>19, <1>20, <1>21 DEF SaveNext, SaveStep, OtherProcess

LEMMA TargetKeep ==
  SaveTypes /\ EntriesKnown /\ RouteKept /\ StagedKept /\ TornKnown /\ TargetStays
    /\ [SaveNext]_saveVars => TargetStays'
<1> SUFFICES ASSUME SaveTypes /\ EntriesKnown /\ RouteKept /\ StagedKept /\ TornKnown /\ TargetStays,
                  [SaveNext]_saveVars
           PROVE  TargetStays'
  OBVIOUS
<1> USE AtomicWriteAssumption DEF EntriesKnown, Before, Written, Swapped, InPlace, Inode, Gone,
     Missing, inodes, program, saveGhosts, saveVars, Names, Target, Temp, Linked, RouteKept,
     StagedKept, TargetStays, HardLinked, SaveTypes, Data, Torn
<1>1. CASE Stat
  BY <1>1 DEF Metadata, Stat, Goto
<1>2. CASE Open
  BY <1>2 DEF Open, Goto, Fail
<1>3. CASE Create
  BY <1>3 DEF Create, Goto, Fault, Fail
<1>4. CASE Stream
  BY <1>4 DEF Stream, Goto, Fault, Fail, AfterStream
<1>5. CASE Publish
  BY <1>5 DEF Publish, Goto, Return, Fail
<1>6. CASE Validate
  BY <1>6 DEF Validate, Goto, Fail
<1>7. CASE Exchange
  BY <1>7 DEF Exchange, Goto, Swap, Fail
<1>8. CASE Displaced
  BY <1>8 DEF Displaced, Goto
<1>9. CASE Unlink
  BY <1>9 DEF Unlink, Goto, RemoveTemp, Return
<1>10. CASE Rollback
  BY <1>10 DEF Rollback, Goto, Swap, Fail
<1>11. CASE Truncate
  BY <1>11 DEF Truncate, Goto, Fail
<1>12. CASE Refill
  BY <1>12 DEF Refill, Goto, Fault, Fail
<1>13. CASE Unstage
  BY <1>13 DEF Unstage, Goto, RemoveTemp, Return, Fault, Fail
<1>14. CASE Discard
  BY <1>14 DEF Discard, Goto, RemoveTemp, Return
<1>15. CASE Crash
  BY <1>15 DEF Crash, Goto
<1>16. CASE OtherChangesMode
  BY <1>16 DEF OtherChangesMode, Goto, Other, Touched
<1>17. CASE OtherLinks
  BY <1>17 DEF OtherLinks, Goto, Other
<1>18. CASE OtherRemoves
  BY <1>18 DEF OtherRemoves, Goto, Other
<1>19. ASSUME NEW d \in Documents, OtherReplaces(d) PROVE TargetStays'
  BY <1>19 DEF OtherReplaces, Other, Touched
<1>20. ASSUME NEW d \in Documents, OtherRewrites(d) PROVE TargetStays'
  BY <1>20 DEF OtherRewrites, Other, Touched
<1>21. CASE UNCHANGED saveVars
  BY <1>21
<1> QED
  BY <1>1, <1>2, <1>3, <1>4, <1>5, <1>6, <1>7, <1>8, <1>9, <1>10, <1>11, <1>12, <1>13, <1>14,
       <1>15, <1>16, <1>17, <1>18, <1>19, <1>20, <1>21 DEF SaveNext, SaveStep, OtherProcess

LEMMA InspectedKeep ==
  SaveTypes /\ EntriesKnown /\ RouteKept /\ StagedKept /\ TornKnown /\ InspectedHeld
    /\ [SaveNext]_saveVars => InspectedHeld'
<1> SUFFICES ASSUME SaveTypes /\ EntriesKnown /\ RouteKept /\ StagedKept /\ TornKnown /\ InspectedHeld,
                  [SaveNext]_saveVars
           PROVE  InspectedHeld'
  OBVIOUS
<1> USE AtomicWriteAssumption DEF EntriesKnown, Before, Written, Swapped, InPlace, Inode, Gone,
     Missing, inodes, program, saveGhosts, saveVars, Names, Target, Temp, Linked, RouteKept,
     StagedKept, TornKnown, InspectedHeld, HardLinked, SaveTypes, Data, Torn, LostWith
<1>1. CASE Stat
  BY <1>1 DEF Metadata, Stat, Goto
<1>2. CASE Open
  <2>1. CASE entry["target"] # Gone /\ Metadata("target") = seen
    <3>1. stamp[seen.ino] = seen.stamp /\ stamp[seen.ino] \in Nat /\ inspected' = {data[seen.ino]}
      BY <1>2, <2>1, StampTells DEF Open
    <3> QED
      BY <1>2, <2>1, <3>1 DEF Open, Goto
  <2>2. CASE ~(entry["target"] # Gone /\ Metadata("target") = seen)
    BY <1>2, <2>2 DEF Open, Goto, Fail
  <2> QED
    BY <2>1, <2>2
<1>3. CASE Create
  BY <1>3 DEF Create, Goto, Fault, Fail
<1>4. CASE Stream
  BY <1>4 DEF Stream, Goto, Fault, Fail, AfterStream
<1>5. CASE Publish
  BY <1>5 DEF Publish, Goto, Return, Fail
<1>6. CASE Validate
  BY <1>6 DEF Validate, Goto, Fail
<1>7. CASE Exchange
  BY <1>7 DEF Exchange, Goto, Swap, Fail
<1>8. CASE Displaced
  <2>1. CASE SamePreservedMetadata(Metadata("temp"))
    <3>1. seen # Missing /\ seen.links \in Nat /\ seen.links <= 1
      BY <1>8 DEF Displaced, Inspections
    <3>2. {n \in Names : entry[n] = entry["temp"]} = {"temp"}
      BY <2>1, <3>1, StampTells, OnlyName
    <3>3. Temp \notin {Target, Linked}
      BY <3>2
    <3> QED
      BY <1>8, <2>1, <3>3, StampTells DEF Displaced, Goto
  <2>2. CASE ~SamePreservedMetadata(Metadata("temp"))
    BY <1>8, <2>2 DEF Displaced, Goto
  <2> QED
    BY <2>1, <2>2
<1>9. CASE Unlink
  BY <1>9 DEF Unlink, Goto, RemoveTemp, Return
<1>10. CASE Rollback
  BY <1>10 DEF Rollback, Goto, Swap, Fail
<1>11. CASE Truncate
  BY <1>11 DEF Truncate, Goto, Fail
<1>12. CASE Refill
  BY <1>12 DEF Refill, Goto, Fault, Fail
<1>13. CASE Unstage
  BY <1>13 DEF Unstage, Goto, RemoveTemp, Return, Fault, Fail
<1>14. CASE Discard
  BY <1>14 DEF Discard, Goto, RemoveTemp, Return
<1>15. CASE Crash
  BY <1>15 DEF Crash, Goto
<1>16. CASE OtherChangesMode
  <2>1. seen # Missing => seen.stamp \in Nat /\ seen.ino \in Inode
    BY DEF Inspections
  <2> QED
    BY <1>16, <2>1 DEF OtherChangesMode, Other, Touched
<1>17. CASE OtherLinks
  BY <1>17 DEF OtherLinks, Goto, Other
<1>18. CASE OtherRemoves
  BY <1>18 DEF OtherRemoves, Goto, Other
<1>19. ASSUME NEW d \in Documents, OtherReplaces(d) PROVE InspectedHeld'
  BY <1>19 DEF OtherReplaces, Other, Touched
<1>20. ASSUME NEW d \in Documents, OtherRewrites(d) PROVE InspectedHeld'
  <2>1. seen # Missing => seen.stamp \in Nat /\ seen.ino \in Inode
    BY DEF Inspections
  <2> QED
    BY <1>20, <2>1 DEF OtherRewrites, Other, Touched
<1>21. CASE UNCHANGED saveVars
  BY <1>21
<1> QED
  BY <1>1, <1>2, <1>3, <1>4, <1>5, <1>6, <1>7, <1>8, <1>9, <1>10, <1>11, <1>12, <1>13, <1>14,
       <1>15, <1>16, <1>17, <1>18, <1>19, <1>20, <1>21 DEF SaveNext, SaveStep, OtherProcess

LEMMA LeftKeep ==
  SaveTypes /\ EntriesKnown /\ RouteKept /\ StagedKept /\ TornKnown /\ LeftAlone
    /\ [SaveNext]_saveVars => LeftAlone'
<1> SUFFICES ASSUME SaveTypes /\ EntriesKnown /\ RouteKept /\ StagedKept /\ TornKnown /\ LeftAlone,
                  [SaveNext]_saveVars
           PROVE  LeftAlone'
  OBVIOUS
<1> USE AtomicWriteAssumption DEF EntriesKnown, Before, Written, Swapped, InPlace, Inode, Gone,
     Missing, inodes, program, saveGhosts, saveVars, Names, Target, Temp, Linked, RouteKept,
     StagedKept, TornKnown, LeftAlone, HardLinked, SaveTypes, Data, Torn, LostWith
<1>0. UNCHANGED <<entry, stamp, ctime>> => Metadata("target")' = Metadata("target")
                                           /\ Metadata("temp")' = Metadata("temp")
  BY DEF Metadata
<1>1. CASE Stat
  BY <1>1 DEF Metadata, Stat, Goto
<1>2. CASE Open
  BY <1>2, <1>0, StampTells DEF Open, Goto, Fail
<1>3. CASE Create
  <2>1. CASE entry' = [entry EXCEPT !["temp"] = "staged"] /\ Target # Gone
    <3>1. {n \in Names : entry[n] = entry["target"]}' = {n \in Names : entry[n] = entry["target"]}
      BY <1>3, <2>1 DEF Create
    <3>2. Metadata("target")' = Metadata("target")
      BY <1>3, <2>1, <3>1 DEF Create, Metadata
    <3> QED
      BY <1>3, <2>1, <3>2 DEF Create, Goto, Fault, Fail
  <2>2. CASE Target = Gone \/ entry' = entry
    BY <1>3, <2>2 DEF Create, Goto, Fault, Fail
  <2> QED
    BY <1>3, <2>1, <2>2 DEF Create
<1>4. CASE Stream
  BY <1>4, <1>0, StampTells DEF Stream, Goto, Fault, Fail, AfterStream
<1>5. CASE Publish
  BY <1>5 DEF Publish, Goto, Return, Fail
<1>6. CASE Validate
  BY <1>6, <1>0, StampTells DEF Validate, Goto, Fail
<1>7. CASE Exchange
  <2>1. CASE external = 0 /\ ~faulted /\ Target # Gone
    <3>1. Metadata("target") = seen /\ seen # Missing
      BY <1>7, <2>1 DEF Exchange
    <3>2. seen.links \in Nat /\ seen.links <= 1
      BY <1>7, <3>1 DEF Exchange, Inspections
    <3>3. {n \in Names : entry[n] = entry["target"]} = {"target"}
      BY <3>1, <3>2, StampTells, OnlyName
    <3>4. {n \in Names : entry[n] = entry["temp"]}' = {"temp"}
      BY <1>7, <2>1, <3>3 DEF Exchange, Swap
    <3>5. SamePreservedMetadata(Metadata("temp"))'
      <4>1. seen = [ino |-> entry["target"], links |-> 1, stamp |-> stamp[entry["target"]],
                    ctime |-> ctime[entry["target"]]]
        BY <3>1, <3>3, FS_Singleton DEF Metadata
      <4>2. Metadata("temp")' = [ino |-> entry["target"], links |-> 1, stamp |-> stamp[entry["target"]],
                                 ctime |-> ctime'[entry["target"]]]
        <5>1. entry'["temp"] = entry["target"] /\ stamp' = stamp
          BY <1>7, <2>1 DEF Exchange, Swap
        <5>2. Cardinality({n \in Names : entry'[n] = entry'["temp"]}) = 1
          BY <3>4, FS_Singleton
        <5> QED
          BY <5>1, <5>2 DEF Metadata
      <4>3. seen' = seen
        BY <1>7 DEF Exchange
      <4> QED
        BY <4>1, <4>2, <4>3 DEF SamePreservedMetadata
    <3> QED
      BY <1>7, <2>1, <3>5 DEF Exchange, Goto, Swap, Fail
  <2>2. CASE ~(external = 0 /\ ~faulted /\ Target # Gone)
    BY <1>7, <2>2 DEF Exchange, Goto, Swap, Fail
  <2> QED
    BY <2>1, <2>2
<1>8. CASE Displaced
  BY <1>8 DEF Displaced, Goto
<1>9. CASE Unlink
  BY <1>9 DEF Unlink, Goto, RemoveTemp, Return
<1>10. CASE Rollback
  BY <1>10 DEF Rollback, Goto, Swap, Fail
<1>11. CASE Truncate
  BY <1>11, <1>0, StampTells DEF Truncate, Goto, Fail
<1>12. CASE Refill
  <2>1. seen.ino \in Inode
    BY <1>12 DEF Refill, Inspections
  <2> QED
    BY <1>12, <2>1 DEF Refill, Goto, Fault, Fail
<1>13. CASE Unstage
  BY <1>13 DEF Unstage, Goto, RemoveTemp, Return, Fault, Fail
<1>14. CASE Discard
  BY <1>14 DEF Discard, Goto, RemoveTemp, Return
<1>15. CASE Crash
  BY <1>15 DEF Crash, Goto
<1>16. CASE OtherChangesMode
  BY <1>16 DEF OtherChangesMode, Goto, Other, Touched
<1>17. CASE OtherLinks
  BY <1>17 DEF OtherLinks, Goto, Other
<1>18. CASE OtherRemoves
  BY <1>18 DEF OtherRemoves, Goto, Other
<1>19. ASSUME NEW d \in Documents, OtherReplaces(d) PROVE LeftAlone'
  BY <1>19 DEF OtherReplaces, Other, Touched
<1>20. ASSUME NEW d \in Documents, OtherRewrites(d) PROVE LeftAlone'
  BY <1>20 DEF OtherRewrites, Other, Touched
<1>21. CASE UNCHANGED saveVars
  BY <1>21, <1>0 DEF SamePreservedMetadata
<1> QED
  BY <1>1, <1>2, <1>3, <1>4, <1>5, <1>6, <1>7, <1>8, <1>9, <1>10, <1>11, <1>12, <1>13, <1>14,
       <1>15, <1>16, <1>17, <1>18, <1>19, <1>20, <1>21 DEF SaveNext, SaveStep, OtherProcess

LEMMA SaveStart == SaveInit => SaveInv
  BY AtomicWriteAssumption DEF SaveInit, SaveInv, IntactInv, SaveTypes, EntriesKnown, RouteKept,
       StagedKept,
     TornKnown, TargetStays, InspectedHeld, LeftAlone, HardLinked, Names, Inode, Data, Torn, Labels, Before,
     Written, Swapped, InPlace, Target, Temp, Linked, Gone

THEOREM SaveAlways == SaveSpec => []SaveInv
<1>1. SaveInv /\ [SaveNext]_saveVars => SaveInv'
  BY TypesKeep, EntriesKeep, RouteKeep, StagedKeep, TornKeep, TargetKeep, InspectedKeep, LeftKeep
     DEF SaveInv, IntactInv
<1> QED
  BY <1>1, SaveStart, PTL DEF SaveSpec

\* Whatever call fails, wherever the process dies and whatever another process does
\* short of removing it, a target that was there is there whole, or, in the middle of
\* an update in place of a hard-linked file, a complete copy is beside it.
THEOREM TargetIsIntact == SaveSpec => []TargetIntact
<1>1. IntactInv => TargetIntact
  <2> SUFFICES ASSUME IntactInv PROVE TargetIntact
    OBVIOUS
  <2>1. SaveTypeOK
    BY DEF IntactInv, SaveTypes, SaveTypeOK
  <2>2. Target # Gone /\ data[Target] \in Torn => HardLinked /\ Temp = "staged" /\ data["staged"] = "new"
    BY AtomicWriteAssumption DEF IntactInv, TornKnown, EntriesKnown, SaveTypes, Target, Names, Gone
  <2>3. TargetNeverTorn
    BY <2>2 DEF TargetNeverTorn, Target
  <2>4. CompleteCopyExists
    BY <2>2, AtomicWriteAssumption DEF CompleteCopyExists, IntactInv, TargetStays, Target, Temp,
         Torn, Gone
  <2> QED
    BY <2>1, <2>3, <2>4 DEF TargetIntact
<1> QED
  BY <1>1, SaveAlways, PTL DEF SaveInv

\* A save that reports success over a file with one name has removed what it inspected
\* and nothing else.
THEOREM ReplacesWhatItInspected == SaveSpec => []SuccessReplacesInspected
<1>1. SaveInv => SuccessReplacesInspected
  BY DEF SaveInv, InspectedHeld, SuccessReplacesInspected
<1> QED
  BY <1>1, SaveAlways, PTL

\* Left alone, a save that reports an error has changed nothing or says what it kept,
\* and one no call of which fails succeeds and cleans up.
THEOREM SaveReportsTruly == SaveSpec => []ReportsAreTrue
<1>1. SaveInv => ErrorsAreTrue
  BY AtomicWriteAssumption DEF SaveInv, IntactInv, SaveTypes, StagedKept, LeftAlone,
       ErrorsAreTrue, Target, Temp,
     Swapped, Before, Written, InPlace, Gone
<1>2. SaveInv => UndisturbedSaveSucceeds
  BY DEF SaveInv, LeftAlone, UndisturbedSaveSucceeds, Target, Temp
<1> QED
  BY <1>1, <1>2, SaveAlways, PTL DEF ReportsAreTrue

-----------------------------------------------------------------------------
(* Update. *)

\* Where a run is: on its way, of which there is nothing to report yet, and on its way
\* out, when it has ended well or with an error.
Replacing == {"stage", "rename", "sync", "merge"}
Accepting == {"unchanged", "copy"} \cup Replacing
Checking  == {"verify", "config", "identity"} \cup Accepting
Pinned    == {"backup", "download", "status", "push", "name", "fetch", "workspace", "build"}
               \cup Checking
Working   == {"start", "query"} \cup Pinned
Unwinding == {"cleanup", "apply", "list", "drop", "ended"}

\* The ranges of the numbers that are told apart.
Ranges ==
  /\ at \in Working \cup Unwinding \cup {"dead"}
  /\ life \in Nat /\ 1 <= life /\ life <= MaxLives
  /\ master \in Nat /\ master <= MaxRev /\ pinned \in Nat /\ pinned <= NoRev
  /\ exe \in Nat /\ exe <= NoRev /\ start \in Nat /\ start <= NoRev
  /\ beside \in Nat /\ beside <= NoRev /\ head \in Nat /\ head <= MaxRev
  /\ candidate.rev \in Nat /\ candidate.rev <= NoRev /\ nudges \in Nat
  /\ candidate = [rev |-> candidate.rev, flaw |-> candidate.flaw] /\ candidate.flaw \in Flaws
  /\ rollback \in [Lives -> 0..NoRev] /\ route \in Routes /\ outcome \in {"none", "ok", "error"}
  /\ phase \in {"install", "undo", "revert"}

\* A binary of the revision that was asked for reaches the installation only through the
\* checks of its route: what has been ruled out when.
Checked ==
  /\ at \in {"start", "query"} => pinned = NoRev
  /\ at \in Pinned => pinned <= MaxRev /\ (route = "stable" => start < pinned)
  /\ at \in Checking => candidate.rev = pinned
  /\ at \in {"config", "identity"} => candidate.flaw # "corrupt"
  /\ at = "identity" => candidate.flaw # "rejects"
  /\ at \in Accepting => pinned \in accepted

\* How far the replacement is, by the step it is at and what it replaces with.
Replaced ==
  /\ exe \in {start, pinned} /\ exe \in accepted /\ start \in accepted
  /\ exe # start => rollback[life] = start /\ (route = "stable" => start < exe)
  /\ at \in Working \ Replacing => exe = start
  /\ at \in Replacing => rollback[life] = start
  /\ at \in {"stage", "rename"} /\ phase = "install" => exe = start
  /\ at = "rename" => beside = IF phase = "install" THEN pinned ELSE start
  /\ at = "sync" => exe = IF phase = "install" THEN pinned ELSE start
  /\ at = "merge" => exe = pinned

\* What is reported, and that it fits the binary that is installed.
Told ==
  /\ at \in Working => outcome = "none" /\ said = {}
  /\ at \in Unwinding =>
       /\ outcome \in {"ok", "error"}
       /\ outcome = "error" =>
            exe = start \/ "not_restored" \in said \/ "workspace" \in said \/ "stash" \in said
       /\ outcome = "ok" => exe = IF pinned = NoRev THEN start ELSE pinned
       /\ exe # start /\ route = "checkout" => "not_restored" \in said \/ head \in {pinned, OwnCommit}

\* Workspaces are those of this run and of earlier ones; this run has one from the
\* moment it makes it to the moment it unwinds.
Workspaces ==
  /\ roots \subseteq 1..life /\ registered \subseteq 1..life
  /\ life \in roots => roots = {life}
  /\ at \in Working \cup {"cleanup"} /\ life \in registered => life \in roots
  /\ at \in {"start", "query", "backup", "download", "status", "push", "name", "fetch",
             "workspace"} => life \notin roots
  /\ at \in {"apply", "list", "drop", "ended"} /\ life \in roots \cup registered =>
       "workspace" \in said

-----------------------------------------------------------------------------
(* The changes in the checkout. *)

Entries == [by : 0..MaxLives, changes : SUBSET Nat]

\* Whose the entries of the stash list are: a run makes at most one.
StashList ==
  /\ stashes \in Seq(Entries) /\ work \subseteq Nat
  /\ mine \in Entries /\ position \in Nat /\ position <= Len(stashes) + 1
  /\ mine.by <= life /\ \A i \in 1..Len(stashes) : stashes[i].by <= life
  /\ \A i, j \in 1..Len(stashes) : stashes[i].by = life /\ stashes[j].by = life => i = j
  /\ at \in {"start", "query", "backup", "status", "push"} =>
       \A i \in 1..Len(stashes) : stashes[i].by # life

\* The updater's entry is in the list until it is dropped.
InList ==
  /\ at \in {"start", "query", "backup", "download", "status", "push", "name"} => mine = NoStash
  /\ at \in {"apply", "list", "drop"} => mine # NoStash
  /\ mine # NoStash /\ at \notin {"dead", "ended"} =>
       \E k \in 1..Len(stashes) : stashes[k] = mine
  /\ at = "drop" => /\ 1 <= position /\ position <= Len(stashes)
                    /\ stashes[position] = mine \/ raced

Held(x) == x \in work \/ x \in committed

\* Nothing is lost.
WorkKept ==
  raced \/ \A x \in written : Held(x) \/ \E i \in 1..Len(stashes) : x \in stashes[i].changes

\* Once the stash is applied its changes are not only in the entry that is dropped, and
\* those of this run are with the user.
TakenBack ==
  at \in {"list", "drop"} /\ ~raced =>
    /\ \A k \in 1..Len(stashes) : stashes[k] = mine =>
         \A x \in mine.changes :
           Held(x) \/ \E i \in 1..Len(stashes) : i # k /\ x \in stashes[i].changes
    /\ mine.by = life =>
         \A x \in mine.changes :
           Held(x) \/ \E i \in 1..Len(stashes) : stashes[i].by = 0 /\ x \in stashes[i].changes

\* What a run that ends has left, unless it says so.
GivenBack ==
  at = "ended" /\ mine.by = life /\ ~raced =>
    /\ "stash" \in said \/
         \A x \in mine.changes :
           Held(x) \/ \E i \in 1..Len(stashes) : stashes[i].by = 0 /\ x \in stashes[i].changes
    /\ "stash" \in said \/ "push" \in said \/ \A i \in 1..Len(stashes) : stashes[i].by # life

UpdateInv ==
  /\ Ranges /\ Checked /\ Replaced /\ Told /\ Workspaces
  /\ StashList /\ InList /\ WorkKept /\ TakenBack /\ GivenBack

\* The constants, one by one.
LEMMA Bounds ==
  /\ Installed \in Nat /\ 1 <= Installed /\ Installed <= MaxRev
  /\ MaxRev \in Nat /\ MaxLives \in Nat /\ 1 <= MaxLives /\ MaxNudges \in Nat
BY UpdateAssumption

\* Where an error goes.
LEMMA Unwinds ==
  /\ Unwound \in {"cleanup", "apply", "ended"}
  /\ Unwound = "cleanup" => life \in roots
  /\ Unwound # "cleanup" => life \notin roots
  /\ Unwound = "apply" => mine # NoStash
  /\ life \notin roots /\ mine # NoStash => Unwound = "apply"
  /\ life \notin roots /\ mine = NoStash => Unwound = "ended"
<1>1. CASE life \in roots
  BY <1>1 DEF Unwound
<1>2. CASE life \notin roots /\ mine # NoStash
  BY <1>2 DEF Unwound
<1>3. CASE life \notin roots /\ mine = NoStash
  BY <1>3 DEF Unwound
<1> QED
  BY <1>1, <1>2, <1>3

\* What follows when a replacement of the binary fails.
LEMMA ReplaceFails ==
  ASSUME ReplaceFailed, Ranges
  PROVE  /\ phase = "install" => phase' = "undo" /\ Then("stage")
         /\ phase # "install" => phase' = phase /\ Abort("not_restored")
<1>1. CASE phase = "install"
  BY <1>1 DEF ReplaceFailed
<1>2. CASE phase = "undo"
  BY <1>2 DEF ReplaceFailed
<1>3. CASE phase = "revert"
  BY <1>3 DEF ReplaceFailed
<1> QED
  BY <1>1, <1>2, <1>3 DEF Ranges

\* What the synchronization of the directory leads to.
LEMMA Syncs ==
  ASSUME SyncDirectory, Ranges
  PROVE  \/ ReplaceFailed
         \/ /\ phase = "install" /\ phase' = phase
            /\ (route = "checkout" /\ Then("merge")) \/ (route # "checkout" /\ Succeed)
         \/ phase # "install" /\ phase' = phase /\ Abort("restored")
<1>1. CASE phase = "install" /\ route = "checkout"
  BY <1>1 DEF SyncDirectory
<1>2. CASE phase = "install" /\ route # "checkout"
  BY <1>2 DEF SyncDirectory
<1>3. CASE phase # "install"
  BY <1>3 DEF SyncDirectory
<1> QED
  BY <1>1, <1>2, <1>3

\* Every step keeps the ranges.
LEMMA RangesKeep == UpdateInv /\ [UpdateNext]_updateVars => Ranges'
<1> SUFFICES ASSUME UpdateInv, [UpdateNext]_updateVars
             PROVE  Ranges'
  OBVIOUS
<1> USE Bounds, Unwinds DEF UpdateInv, Ranges, NoRev, OwnCommit, Partial, Lives, Routes, Flaws, Working,
       Pinned, Checking, Accepting, Replacing, Unwinding, run, binary, checkout, dirs, Then,
       Report, Abort, Succeed
<1>1. CASE Choose
  BY <1>1 DEF Choose
<1>2. CASE Query
  BY <1>2 DEF Query
<1>3. CASE Backup
  BY <1>3 DEF Backup
<1>4. CASE Download
  BY <1>4 DEF Download
<1>5. CASE Verify
  BY <1>5 DEF Verify
<1>6. CASE ValidateConfig
  BY <1>6 DEF ValidateConfig
<1>7. CASE RequireIdentity
  BY <1>7 DEF RequireIdentity
<1>8. CASE Status
  BY <1>8 DEF Status
<1>9. CASE PushStash
  BY <1>9 DEF PushStash
<1>10. CASE NameStash
  BY <1>10 DEF NameStash
<1>11. CASE Fetch
  BY <1>11 DEF Fetch
<1>12. CASE CreateWorkspace
  BY <1>12 DEF CreateWorkspace
<1>13. CASE Build
  BY <1>13 DEF Build
<1>14. CASE EnsureUnchanged
  BY <1>14 DEF EnsureUnchanged
<1>15. CASE CopyRollback
  <2>1. rollback' \in [Lives -> 0..NoRev]
    <3>1. exe \in 0..NoRev /\ 0 \in 0..NoRev
      OBVIOUS
    <3>2. \E r \in 0..NoRev : rollback' \in {rollback, [rollback EXCEPT ![life] = r]}
      BY <1>15, <3>1 DEF CopyRollback
    <3> QED
      BY <3>2
  <2>2. \/ at' = "stage" /\ outcome' = outcome
        \/ at' = Unwound /\ outcome' = "error"
    BY <1>15 DEF CopyRollback
  <2> QED
    BY <1>15, <2>1, <2>2 DEF CopyRollback
<1>16. CASE Stage
  <2>1. beside' \in Nat /\ beside' <= NoRev
    <3>1. rollback[life] \in 0..NoRev
      OBVIOUS
    <3> QED
      BY <1>16, <3>1 DEF Stage
  <2>2. UNCHANGED <<run, master, pinned, candidate, exe, rollback, head, nudges>>
    BY <1>16 DEF Stage
  <2>3. CASE ReplaceFailed
    BY <2>1, <2>2, <2>3, ReplaceFails
  <2>4. CASE Then("rename") /\ UNCHANGED phase
    BY <2>1, <2>2, <2>4
  <2> QED
    BY <1>16, <2>3, <2>4 DEF Stage
<1>17. CASE Rename
  <2>1. UNCHANGED <<run, master, pinned, candidate, rollback, head, nudges>> /\ beside' = NoRev
    BY <1>17 DEF Rename
  <2>2. CASE ReplaceFailed /\ UNCHANGED exe
    BY <2>1, <2>2, ReplaceFails
  <2>3. CASE exe' = beside /\ Then("sync") /\ UNCHANGED phase
    BY <2>1, <2>3
  <2> QED
    BY <1>17, <2>2, <2>3 DEF Rename
<1>18. CASE SyncDirectory
  BY <1>18 DEF SyncDirectory, ReplaceFailed, Succeed
<1>19. CASE FastForward
  <2>1. head' \in {head, pinned} /\ pinned <= MaxRev
    BY <1>19 DEF FastForward, Checked
  <2> QED
    BY <1>19, <2>1 DEF FastForward
<1>20. CASE Cleanup
  BY <1>20 DEF Cleanup
<1>21. CASE ApplyStash
  BY <1>21 DEF ApplyStash
<1>22. CASE ListStashes
  BY <1>22 DEF ListStashes
<1>23. CASE Drop
  BY <1>23 DEF Drop
<1>24. CASE Nudge
  <2>1. UNCHANGED <<at, run, outcome, master, pinned, candidate, exe, rollback, beside, phase>>
    BY <1>24 DEF Nudge
  <2>2. head' \in {head, OwnCommit} /\ nudges' = nudges + 1
    BY <1>24 DEF Nudge
  <2>3. head' \in Nat /\ head' <= MaxRev /\ nudges' \in Nat
    BY <2>2
  <2> HIDE DEF Working, Unwinding, Routes, Flaws, Lives, NoRev
  <2> QED
    BY <2>1, <2>3
<1>25. CASE Remote
  BY <1>25 DEF Remote, InRun
<1>26. CASE Kill
  BY <1>26 DEF Kill, InRun
<1>27. CASE Again
  <2>1. /\ at' = "start" /\ life' = life + 1 /\ life < MaxLives /\ start' = exe
        /\ outcome' = "none" /\ pinned' = NoRev /\ beside' = NoRev /\ phase' = "install"
        /\ UNCHANGED <<route, master, exe, rollback, head, nudges>>
    BY <1>27 DEF Again
  <2>2. candidate' = [rev |-> NoRev, flaw |-> "none"]
    BY <1>27 DEF Again
  <2>3. /\ candidate'.rev = NoRev /\ candidate'.flaw = "none" /\ "none" \in Flaws
        /\ candidate' = [rev |-> candidate'.rev, flaw |-> candidate'.flaw]
    BY <2>2
  <2>4. at' \in Working
    BY <2>1
  <2> HIDE DEF Working, Unwinding, Routes, Flaws, Lives, UpdateInv, Checked, Replaced
  <2>5. NoRev \in Nat /\ NoRev <= NoRev
    BY Bounds
  <2> HIDE DEF NoRev
  <2>6. MaxLives \in Nat /\ life \in Nat /\ 1 <= life
    BY Bounds DEF UpdateInv, Ranges
  <2>7. life' \in Nat /\ 1 <= life' /\ life' <= MaxLives
    BY <2>1, <2>6
  <2> QED
    BY <2>1, <2>3, <2>4, <2>5, <2>7 DEF UpdateInv
<1>28. CASE UNCHANGED updateVars
  BY <1>28 DEF updateVars
<1> QED
  BY <1>1, <1>2, <1>3, <1>4, <1>5, <1>6, <1>7, <1>8, <1>9, <1>10, <1>11, <1>12, <1>13, <1>14,
     <1>15, <1>16, <1>17, <1>18, <1>19, <1>20, <1>21, <1>22, <1>23, <1>24, <1>25, <1>26, <1>27,
     <1>28 DEF UpdateNext

\* Every step keeps what the checks rule out.
LEMMA CheckedKeep == UpdateInv /\ [UpdateNext]_updateVars => Checked'
<1> SUFFICES ASSUME UpdateInv, [UpdateNext]_updateVars
             PROVE  Checked'
  OBVIOUS
<1> USE Bounds, Unwinds DEF UpdateInv, Ranges, Checked, Replaced, NoRev, Routes, Flaws, Working,
       Pinned, Checking, Accepting, Replacing, Unwinding, run, binary, checkout, dirs, Then,
       Report, Abort, Succeed
<1>1. CASE Choose
  BY <1>1 DEF Choose
<1>2. CASE Query
  BY <1>2 DEF Query
<1>3. CASE Backup
  BY <1>3 DEF Backup
<1>4. CASE Download
  BY <1>4 DEF Download
<1>5. CASE Verify
  BY <1>5 DEF Verify
<1>6. CASE ValidateConfig
  BY <1>6 DEF ValidateConfig
<1>7. CASE RequireIdentity
  BY <1>7 DEF RequireIdentity
<1>8. CASE Status
  BY <1>8 DEF Status
<1>9. CASE PushStash
  BY <1>9 DEF PushStash
<1>10. CASE NameStash
  BY <1>10 DEF NameStash
<1>11. CASE Fetch
  BY <1>11 DEF Fetch
<1>12. CASE CreateWorkspace
  BY <1>12 DEF CreateWorkspace
<1>13. CASE Build
  BY <1>13 DEF Build
<1>14. CASE EnsureUnchanged
  BY <1>14 DEF EnsureUnchanged
<1>15. CASE CopyRollback
  BY <1>15 DEF CopyRollback
<1>16. CASE Stage
  BY <1>16 DEF Stage, ReplaceFailed
<1>17. CASE Rename
  BY <1>17 DEF Rename, ReplaceFailed
<1>18. CASE SyncDirectory
  BY <1>18 DEF SyncDirectory, ReplaceFailed, Succeed
<1>19. CASE FastForward
  BY <1>19 DEF FastForward, Succeed
<1>20. CASE Cleanup
  BY <1>20 DEF Cleanup
<1>21. CASE ApplyStash
  BY <1>21 DEF ApplyStash
<1>22. CASE ListStashes
  BY <1>22 DEF ListStashes
<1>23. CASE Drop
  BY <1>23 DEF Drop
<1>24. CASE Nudge
  BY <1>24 DEF Nudge, InRun
<1>25. CASE Remote
  BY <1>25 DEF Remote, InRun
<1>26. CASE Kill
  BY <1>26 DEF Kill, InRun
<1>27. CASE Again
  BY <1>27 DEF Again
<1>28. CASE UNCHANGED updateVars
  BY <1>28 DEF updateVars
<1> QED
  BY <1>1, <1>2, <1>3, <1>4, <1>5, <1>6, <1>7, <1>8, <1>9, <1>10, <1>11, <1>12, <1>13, <1>14,
     <1>15, <1>16, <1>17, <1>18, <1>19, <1>20, <1>21, <1>22, <1>23, <1>24, <1>25, <1>26, <1>27,
     <1>28 DEF UpdateNext

\* Every step keeps the binary and its rollback copy in step.
LEMMA ReplacedKeep == UpdateInv /\ [UpdateNext]_updateVars => Replaced'
<1> SUFFICES ASSUME UpdateInv, [UpdateNext]_updateVars
             PROVE  Replaced'
  OBVIOUS
<1> USE Bounds, Unwinds DEF UpdateInv, Ranges, Checked, Replaced, NoRev, Lives, Routes, Flaws,
       Working, Pinned, Checking, Accepting, Replacing, Unwinding, run, binary, checkout, dirs,
       Then, Report, Abort, Succeed
<1>1. CASE Choose
  BY <1>1 DEF Choose
<1>2. CASE Query
  BY <1>2 DEF Query
<1>3. CASE Backup
  BY <1>3 DEF Backup
<1>4. CASE Download
  BY <1>4 DEF Download
<1>5. CASE Verify
  BY <1>5 DEF Verify
<1>6. CASE ValidateConfig
  BY <1>6 DEF ValidateConfig
<1>7. CASE RequireIdentity
  BY <1>7 DEF RequireIdentity
<1>8. CASE Status
  BY <1>8 DEF Status
<1>9. CASE PushStash
  BY <1>9 DEF PushStash
<1>10. CASE NameStash
  BY <1>10 DEF NameStash
<1>11. CASE Fetch
  BY <1>11 DEF Fetch
<1>12. CASE CreateWorkspace
  BY <1>12 DEF CreateWorkspace
<1>13. CASE Build
  BY <1>13 DEF Build
<1>14. CASE EnsureUnchanged
  BY <1>14 DEF EnsureUnchanged
<1>15. CASE CopyRollback
  BY <1>15 DEF CopyRollback
<1>16. CASE Stage
  BY <1>16 DEF Stage, ReplaceFailed
<1>17. CASE Rename
  BY <1>17 DEF Rename, ReplaceFailed
<1>18. CASE SyncDirectory
  BY <1>18 DEF SyncDirectory, ReplaceFailed, Succeed
<1>19. CASE FastForward
  BY <1>19 DEF FastForward, Succeed
<1>20. CASE Cleanup
  BY <1>20 DEF Cleanup
<1>21. CASE ApplyStash
  BY <1>21 DEF ApplyStash
<1>22. CASE ListStashes
  BY <1>22 DEF ListStashes
<1>23. CASE Drop
  BY <1>23 DEF Drop
<1>24. CASE Nudge
  BY <1>24 DEF Nudge, InRun
<1>25. CASE Remote
  BY <1>25 DEF Remote, InRun
<1>26. CASE Kill
  BY <1>26 DEF Kill, InRun
<1>27. CASE Again
  BY <1>27 DEF Again
<1>28. CASE UNCHANGED updateVars
  BY <1>28 DEF updateVars
<1> QED
  BY <1>1, <1>2, <1>3, <1>4, <1>5, <1>6, <1>7, <1>8, <1>9, <1>10, <1>11, <1>12, <1>13, <1>14,
     <1>15, <1>16, <1>17, <1>18, <1>19, <1>20, <1>21, <1>22, <1>23, <1>24, <1>25, <1>26, <1>27,
     <1>28 DEF UpdateNext

\* Every step keeps the reports true.
LEMMA ReportedKeep == UpdateInv /\ [UpdateNext]_updateVars => Told'
<1> SUFFICES ASSUME UpdateInv, [UpdateNext]_updateVars
             PROVE  Told'
  OBVIOUS
<1> USE Bounds, Unwinds DEF UpdateInv, Ranges, Checked, Replaced, Told, NoRev, OwnCommit, Working,
       Pinned, Checking, Accepting, Replacing, Unwinding, run, binary, checkout, dirs, Then,
       Report, Abort, Succeed
<1>1. CASE Choose
  BY <1>1 DEF Choose
<1>2. CASE Query
  BY <1>2 DEF Query
<1>3. CASE Backup
  BY <1>3 DEF Backup
<1>4. CASE Download
  BY <1>4 DEF Download
<1>5. CASE Verify
  BY <1>5 DEF Verify
<1>6. CASE ValidateConfig
  BY <1>6 DEF ValidateConfig
<1>7. CASE RequireIdentity
  BY <1>7 DEF RequireIdentity
<1>8. CASE Status
  BY <1>8 DEF Status
<1>9. CASE PushStash
  BY <1>9 DEF PushStash
<1>10. CASE NameStash
  BY <1>10 DEF NameStash
<1>11. CASE Fetch
  BY <1>11 DEF Fetch
<1>12. CASE CreateWorkspace
  BY <1>12 DEF CreateWorkspace
<1>13. CASE Build
  BY <1>13 DEF Build
<1>14. CASE EnsureUnchanged
  BY <1>14 DEF EnsureUnchanged
<1>15. CASE CopyRollback
  BY <1>15 DEF CopyRollback
<1>16. CASE Stage
  BY <1>16 DEF Stage, ReplaceFailed
<1>17. CASE Rename
  BY <1>17 DEF Rename, ReplaceFailed
<1>18. CASE SyncDirectory
  <2>1. /\ at = "sync" /\ outcome = "none" /\ said = {} /\ Unwound \in Unwinding
        /\ UNCHANGED <<route, exe, start, pinned, head>>
    BY <1>18 DEF SyncDirectory
  <2>2. CASE ReplaceFailed
    BY <2>1, <2>2, ReplaceFails
  <2>3. CASE /\ phase = "install"
             /\ (route = "checkout" /\ Then("merge")) \/ (route # "checkout" /\ Succeed)
    BY <2>1, <2>3
  <2>4. CASE phase # "install" /\ Abort("restored")
    BY <2>1, <2>4
  <2> QED
    BY <1>18, <2>2, <2>3, <2>4, Syncs
<1>19. CASE FastForward
  BY <1>19 DEF FastForward, Succeed
<1>20. CASE Cleanup
  BY <1>20 DEF Cleanup
<1>21. CASE ApplyStash
  BY <1>21 DEF ApplyStash
<1>22. CASE ListStashes
  BY <1>22 DEF ListStashes
<1>23. CASE Drop
  BY <1>23 DEF Drop
<1>24. CASE Nudge
  BY <1>24 DEF Nudge, InRun
<1>25. CASE Remote
  BY <1>25 DEF Remote, InRun
<1>26. CASE Kill
  BY <1>26 DEF Kill, InRun
<1>27. CASE Again
  BY <1>27 DEF Again
<1>28. CASE UNCHANGED updateVars
  BY <1>28 DEF updateVars
<1> QED
  BY <1>1, <1>2, <1>3, <1>4, <1>5, <1>6, <1>7, <1>8, <1>9, <1>10, <1>11, <1>12, <1>13, <1>14,
     <1>15, <1>16, <1>17, <1>18, <1>19, <1>20, <1>21, <1>22, <1>23, <1>24, <1>25, <1>26, <1>27,
     <1>28 DEF UpdateNext

\* Every step keeps account of the workspaces.
LEMMA WorkspacesKeep == UpdateInv /\ [UpdateNext]_updateVars => Workspaces'
<1> SUFFICES ASSUME UpdateInv, [UpdateNext]_updateVars
             PROVE  Workspaces'
  OBVIOUS
<1> USE Bounds, Unwinds DEF UpdateInv, Ranges, Workspaces, InList, Told, Working, Pinned,
       Checking, Accepting, Replacing, Unwinding, run, binary, checkout, dirs, Then, Report,
       Abort, Succeed
<1>1. CASE Choose
  BY <1>1 DEF Choose
<1>2. CASE Query
  BY <1>2 DEF Query
<1>3. CASE Backup
  BY <1>3 DEF Backup
<1>4. CASE Download
  BY <1>4 DEF Download
<1>5. CASE Verify
  BY <1>5 DEF Verify
<1>6. CASE ValidateConfig
  BY <1>6 DEF ValidateConfig
<1>7. CASE RequireIdentity
  BY <1>7 DEF RequireIdentity
<1>8. CASE Status
  BY <1>8 DEF Status
<1>9. CASE PushStash
  BY <1>9 DEF PushStash
<1>10. CASE NameStash
  BY <1>10 DEF NameStash
<1>11. CASE Fetch
  BY <1>11 DEF Fetch
<1>12. CASE CreateWorkspace
  <2>1. /\ at = "workspace" /\ life \notin roots /\ life \notin registered
        /\ UNCHANGED <<life, mine>> /\ life \in 1..life
    BY <1>12 DEF CreateWorkspace
  <2>2. CASE Abort("network") /\ UNCHANGED dirs
    BY <2>1, <2>2
  <2>3. CASE /\ roots' = {life} /\ Then("build")
             /\ registered' = IF route = "checkout" THEN {life} ELSE registered
    BY <2>1, <2>3
  <2>4. CASE /\ roots' = {} /\ registered' = registered \cap roots'
             /\ Report("network", IF mine # NoStash THEN "apply" ELSE "ended")
    BY <2>1, <2>4
  <2>5. CASE /\ roots' = {life} /\ UNCHANGED registered
             /\ Report("workspace", IF mine # NoStash THEN "apply" ELSE "ended")
    BY <2>1, <2>5
  <2> QED
    BY <1>12, <2>2, <2>3, <2>4, <2>5 DEF CreateWorkspace
<1>13. CASE Build
  BY <1>13 DEF Build
<1>14. CASE EnsureUnchanged
  BY <1>14 DEF EnsureUnchanged
<1>15. CASE CopyRollback
  BY <1>15 DEF CopyRollback
<1>16. CASE Stage
  BY <1>16 DEF Stage, ReplaceFailed
<1>17. CASE Rename
  BY <1>17 DEF Rename, ReplaceFailed
<1>18. CASE SyncDirectory
  BY <1>18 DEF SyncDirectory, ReplaceFailed, Succeed
<1>19. CASE FastForward
  BY <1>19 DEF FastForward, Succeed
<1>20. CASE Cleanup
  BY <1>20 DEF Cleanup
<1>21. CASE ApplyStash
  BY <1>21 DEF ApplyStash
<1>22. CASE ListStashes
  BY <1>22 DEF ListStashes
<1>23. CASE Drop
  BY <1>23 DEF Drop
<1>24. CASE Nudge
  BY <1>24 DEF Nudge, InRun
<1>25. CASE Remote
  BY <1>25 DEF Remote, InRun
<1>26. CASE Kill
  BY <1>26 DEF Kill, InRun
<1>27. CASE Again
  BY <1>27 DEF Again
<1>28. CASE UNCHANGED updateVars
  BY <1>28 DEF updateVars
<1> QED
  BY <1>1, <1>2, <1>3, <1>4, <1>5, <1>6, <1>7, <1>8, <1>9, <1>10, <1>11, <1>12, <1>13, <1>14,
     <1>15, <1>16, <1>17, <1>18, <1>19, <1>20, <1>21, <1>22, <1>23, <1>24, <1>25, <1>26, <1>27,
     <1>28 DEF UpdateNext

-----------------------------------------------------------------------------
(* The stash list. *)

\* A push on the stash list puts one entry before all others.
LEMMA Pushed ==
  ASSUME NEW e \in Entries, stashes \in Seq(Entries), stashes' = <<e>> \o stashes
  PROVE  /\ stashes' \in Seq(Entries) /\ Len(stashes) \in Nat /\ Len(stashes') = Len(stashes) + 1
         /\ stashes'[1] = e
         /\ \A i \in 1..Len(stashes) : i + 1 \in 1..Len(stashes') /\ stashes'[i + 1] = stashes[i]
         /\ \A i \in 1..Len(stashes') :
              i # 1 => i - 1 \in 1..Len(stashes) /\ stashes'[i] = stashes[i - 1]
<1>1. <<e>> \in Seq(Entries) /\ Len(<<e>>) = 1 /\ <<e>>[1] = e
  OBVIOUS
<1>2. /\ stashes' \in Seq(Entries) /\ Len(stashes') = 1 + Len(stashes) /\ Len(stashes) \in Nat
      /\ \A i \in 1..(1 + Len(stashes)) : stashes'[i] = IF i <= 1 THEN <<e>>[i] ELSE stashes[i - 1]
  BY <1>1, ConcatProperties
<1>3. stashes'[1] = e
  BY <1>1, <1>2
<1>4. ASSUME NEW i \in 1..Len(stashes')
      PROVE  i # 1 => i - 1 \in 1..Len(stashes) /\ stashes'[i] = stashes[i - 1]
  BY <1>2
<1>5. ASSUME NEW i \in 1..Len(stashes)
      PROVE  i + 1 \in 1..Len(stashes') /\ stashes'[i + 1] = stashes[i]
  <2>1. i + 1 \in 1..Len(stashes') /\ i + 1 # 1 /\ (i + 1) - 1 = i
    BY <1>2
  <2> QED
    BY <2>1, <1>4
<1> QED
  BY <1>2, <1>3, <1>4, <1>5

\* A drop takes out one entry and leaves the others in their order.
LEMMA Dropped ==
  ASSUME stashes \in Seq(Entries), NEW k \in 1..Len(stashes), stashes' = RemoveAt(stashes, k)
  PROVE  /\ stashes' \in Seq(Entries) /\ Len(stashes) \in Nat /\ Len(stashes') = Len(stashes) - 1
         /\ \A i \in 1..Len(stashes') :
              /\ i < k => i \in 1..Len(stashes) /\ stashes'[i] = stashes[i]
              /\ i >= k => i + 1 \in 1..Len(stashes) /\ stashes'[i] = stashes[i + 1]
         /\ \A i \in 1..Len(stashes) :
              i # k => \E j \in 1..Len(stashes') : stashes'[j] = stashes[i]
<1> DEFINE front == SubSeq(stashes, 1, k - 1)
           back == SubSeq(stashes, k + 1, Len(stashes))
<1>1. Len(stashes) \in Nat /\ k \in Nat /\ 1 <= k /\ k <= Len(stashes)
  OBVIOUS
<1>2. /\ front \in Seq(Entries) /\ Len(front) = k - 1
      /\ \A i \in 1..(k - 1) : front[i] = stashes[i]
  <2>1. \A i \in 1..(k - 1) : stashes[i] \in Entries
    BY <1>1
  <2>2. /\ front \in Seq(Entries) /\ Len(front) = IF 1 <= k - 1 THEN (k - 1) - 1 + 1 ELSE 0
        /\ \A i \in 1..((k - 1) - 1 + 1) : front[i] = stashes[1 + i - 1]
    BY <1>1, <2>1, SubSeqProperties
  <2> QED
    BY <1>1, <2>2
<1>3. /\ back \in Seq(Entries) /\ Len(back) = Len(stashes) - k
      /\ \A i \in 1..(Len(stashes) - k) : back[i] = stashes[k + i]
  <2>1. \A i \in (k + 1)..Len(stashes) : stashes[i] \in Entries
    BY <1>1
  <2>2. /\ back \in Seq(Entries)
        /\ Len(back) = IF k + 1 <= Len(stashes) THEN Len(stashes) - (k + 1) + 1 ELSE 0
        /\ \A i \in 1..(Len(stashes) - (k + 1) + 1) : back[i] = stashes[(k + 1) + i - 1]
    BY <1>1, <2>1, SubSeqProperties
  <2> QED
    BY <1>1, <2>2
<1>4. stashes' = front \o back
  BY DEF RemoveAt
<1> HIDE DEF front, back
<1>5. /\ stashes' \in Seq(Entries) /\ Len(stashes') = Len(stashes) - 1
      /\ \A i \in 1..(Len(stashes) - 1) :
           stashes'[i] = IF i <= k - 1 THEN front[i] ELSE back[i - (k - 1)]
  <2>1. /\ front \o back \in Seq(Entries) /\ Len(front \o back) = Len(front) + Len(back)
        /\ \A i \in 1..(Len(front) + Len(back)) :
             (front \o back)[i] = IF i <= Len(front) THEN front[i] ELSE back[i - Len(front)]
    BY <1>2, <1>3, ConcatProperties
  <2>2. Len(front) + Len(back) = Len(stashes) - 1
    BY <1>1, <1>2, <1>3
  <2> QED
    BY <1>2, <1>4, <2>1, <2>2
<1>6. ASSUME NEW i \in 1..Len(stashes')
      PROVE  /\ i < k => i \in 1..Len(stashes) /\ stashes'[i] = stashes[i]
             /\ i >= k => i + 1 \in 1..Len(stashes) /\ stashes'[i] = stashes[i + 1]
  <2>1. i < k => i \in 1..Len(stashes) /\ stashes'[i] = stashes[i]
    BY <1>1, <1>2, <1>5
  <2>2. ASSUME i >= k
        PROVE  i + 1 \in 1..Len(stashes) /\ stashes'[i] = stashes[i + 1]
    <3>1. i - (k - 1) \in 1..(Len(stashes) - k) /\ k + (i - (k - 1)) = i + 1 /\ ~(i <= k - 1)
      BY <1>1, <1>5, <2>2
    <3>2. stashes'[i] = back[i - (k - 1)]
      BY <1>5, <3>1
    <3>3. back[i - (k - 1)] = stashes[i + 1]
      BY <1>3, <3>1
    <3> QED
      BY <1>1, <1>5, <3>2, <3>3
  <2> QED
    BY <2>1, <2>2
<1>7. ASSUME NEW i \in 1..Len(stashes), i # k
      PROVE  \E j \in 1..Len(stashes') : stashes'[j] = stashes[i]
  <2>1. CASE i < k
    BY <1>1, <1>5, <1>6, <2>1
  <2>2. CASE i > k
    <3>1. i - 1 \in 1..Len(stashes') /\ i - 1 >= k /\ (i - 1) + 1 = i
      BY <1>1, <1>5, <2>2
    <3> QED
      BY <1>6, <3>1
  <2> QED
    BY <1>1, <1>7, <2>1, <2>2
<1> QED
  BY <1>1, <1>5, <1>6, <1>7

\* Every step keeps whose the stashes are.
LEMMA StashListKeeps == UpdateInv /\ [UpdateNext]_updateVars => StashList'
<1> SUFFICES ASSUME UpdateInv, [UpdateNext]_updateVars
             PROVE  StashList'
  OBVIOUS
<1> USE Bounds, Unwinds DEF UpdateInv, Ranges, StashList, InList, NoStash, run, binary, checkout,
       dirs, Then, Report, Abort, Succeed
<1>1. CASE Choose
  BY <1>1 DEF Choose
<1>2. CASE Query
  BY <1>2 DEF Query
<1>3. CASE Backup
  BY <1>3 DEF Backup
<1>4. CASE Download
  BY <1>4 DEF Download
<1>5. CASE Verify
  BY <1>5 DEF Verify
<1>6. CASE ValidateConfig
  BY <1>6 DEF ValidateConfig
<1>7. CASE RequireIdentity
  BY <1>7 DEF RequireIdentity
<1>8. CASE Status
  BY <1>8 DEF Status
<1>9. CASE PushStash
  <2>0. /\ StashList /\ stashes \in Seq(Entries) /\ Len(stashes) \in Nat
        /\ life \in Nat /\ 1 <= life /\ life <= MaxLives /\ nudges \in Nat
    OBVIOUS
  <2>1. /\ at = "push" /\ at' \in {"name", "cleanup", "apply", "ended"}
        /\ UNCHANGED <<life, mine, position>>
    BY <1>9 DEF PushStash
  <2> HIDE DEF UpdateInv, Ranges, InList
  <2>2. CASE UNCHANGED <<stashes, work>>
    BY <2>0, <2>1, <2>2
  <2> DEFINE e == [by |-> life, changes |-> work]
  <2>3. CASE stashes' = <<e>> \o stashes /\ work' = {}
    <3>1. e \in Entries /\ e.by = life
      BY <2>0 DEF Entries
    <3> HIDE DEF e
    <3>2. /\ stashes' \in Seq(Entries) /\ Len(stashes') = Len(stashes) + 1 /\ stashes'[1] = e
          /\ \A i \in 1..Len(stashes') :
               i # 1 => i - 1 \in 1..Len(stashes) /\ stashes'[i] = stashes[i - 1]
      BY <2>0, <2>3, <3>1, Pushed
    <3>3. \A i \in 1..Len(stashes') : i # 1 => stashes'[i].by <= life /\ stashes'[i].by # life
      BY <2>0, <2>1, <3>2
    <3>4. \A i \in 1..Len(stashes') : stashes'[i].by <= life
      BY <2>0, <3>1, <3>2, <3>3
    <3> QED
      BY <2>0, <2>1, <2>3, <3>2, <3>3, <3>4
  <2> QED
    BY <1>9, <2>2, <2>3 DEF PushStash
<1>10. CASE NameStash
  <2>0. /\ StashList /\ stashes \in Seq(Entries) /\ Len(stashes) \in Nat
        /\ life \in Nat /\ 1 <= life /\ life <= MaxLives /\ nudges \in Nat
    OBVIOUS
  <2>1. /\ at' \notin {"start", "query", "backup", "status", "push"}
        /\ UNCHANGED <<life, stashes, work, position>>
    BY <1>10 DEF NameStash
  <2> HIDE DEF UpdateInv, Ranges, InList
  <2>2. mine' = mine \/ (stashes # <<>> /\ mine' = Head(stashes))
    BY <1>10 DEF NameStash
  <2>3. stashes # <<>> => Head(stashes) = stashes[1] /\ 1 \in 1..Len(stashes)
    OBVIOUS
  <2>4. mine' \in Entries /\ mine'.by <= life
    BY <2>0, <2>2, <2>3
  <2> QED
    BY <2>0, <2>1, <2>4
<1>11. CASE Fetch
  BY <1>11 DEF Fetch
<1>12. CASE CreateWorkspace
  BY <1>12 DEF CreateWorkspace
<1>13. CASE Build
  BY <1>13 DEF Build
<1>14. CASE EnsureUnchanged
  BY <1>14 DEF EnsureUnchanged
<1>15. CASE CopyRollback
  BY <1>15 DEF CopyRollback
<1>16. CASE Stage
  BY <1>16 DEF Stage, ReplaceFailed
<1>17. CASE Rename
  BY <1>17 DEF Rename, ReplaceFailed
<1>18. CASE SyncDirectory
  BY <1>18 DEF SyncDirectory, ReplaceFailed, Succeed
<1>19. CASE FastForward
  BY <1>19 DEF FastForward, Succeed
<1>20. CASE Cleanup
  BY <1>20 DEF Cleanup
<1>21. CASE ApplyStash
  <2>1. mine.changes \subseteq Nat
    BY DEF Entries
  <2>2. /\ at' \in {"list", "ended"} /\ UNCHANGED <<life, stashes, mine, position>>
        /\ work' \in {work, work \cup mine.changes}
    BY <1>21 DEF ApplyStash
  <2> QED
    BY <2>1, <2>2
<1>22. CASE ListStashes
  <2>1. /\ at' \in {"drop", "ended"} /\ UNCHANGED <<life, stashes, mine, work>>
        /\ position' = position \/ position' \in 1..Len(stashes)
    BY <1>22 DEF ListStashes
  <2>2. position' \in Nat /\ position' <= Len(stashes') + 1
    BY <2>1
  <2> QED
    BY <2>1, <2>2
<1>23. CASE Drop
  <2>0. /\ StashList /\ stashes \in Seq(Entries) /\ Len(stashes) \in Nat
        /\ life \in Nat /\ 1 <= life /\ life <= MaxLives /\ nudges \in Nat
    OBVIOUS
  <2>1. /\ at = "drop" /\ at' = "ended" /\ UNCHANGED <<life, mine, work, position>>
        /\ position \in 1..Len(stashes)
    BY <1>23 DEF Drop
  <2> HIDE DEF UpdateInv, Ranges, InList
  <2>2. CASE stashes' = RemoveAt(stashes, position)
    <3>1. \A i \in 1..Len(stashes') :
            \/ i < position /\ i \in 1..Len(stashes) /\ stashes'[i] = stashes[i]
            \/ i >= position /\ i + 1 \in 1..Len(stashes) /\ stashes'[i] = stashes[i + 1]
      BY <2>0, <2>1, <2>2, Dropped
    <3>2. stashes' \in Seq(Entries) /\ position <= Len(stashes') + 1
      BY <2>0, <2>1, <2>2, Dropped
    <3>3. \A i \in 1..Len(stashes') : stashes'[i].by <= life
      BY <2>0, <3>1
    <3>4. ASSUME NEW i \in 1..Len(stashes'), NEW j \in 1..Len(stashes'),
                 stashes'[i].by = life, stashes'[j].by = life
          PROVE  i = j
      <4>1. PICK a \in 1..Len(stashes) :
              /\ (i < position /\ a = i) \/ (i >= position /\ a = i + 1)
              /\ stashes'[i] = stashes[a]
        BY <3>1
      <4>2. PICK b \in 1..Len(stashes) :
              /\ (j < position /\ b = j) \/ (j >= position /\ b = j + 1)
              /\ stashes'[j] = stashes[b]
        BY <3>1
      <4>3. a = b
        BY <2>0, <3>4, <4>1, <4>2
      <4> QED
        BY <2>0, <2>1, <4>1, <4>2, <4>3
    <3> QED
      BY <2>0, <2>1, <3>2, <3>3, <3>4
  <2>3. CASE UNCHANGED stashes
    BY <2>0, <2>1, <2>3
  <2> QED
    BY <1>23, <2>2, <2>3 DEF Drop
<1>24. CASE Nudge
  <2>0. /\ StashList /\ stashes \in Seq(Entries) /\ Len(stashes) \in Nat
        /\ life \in Nat /\ 1 <= life /\ life <= MaxLives /\ nudges \in Nat
    OBVIOUS
  <2>1. /\ at \notin {"start", "ended", "dead"} /\ route = "checkout"
        /\ UNCHANGED <<at, life, mine, position>>
    BY <1>24 DEF Nudge, InRun
  <2> HIDE DEF UpdateInv, Ranges, InList
  <2>2. CASE UNCHANGED stashes /\ work' \in {work \cup {3 + nudges}, {}}
    <3>1. 3 + nudges \in Nat
      BY <2>0
    <3> QED
      BY <3>1, <2>0, <2>1, <2>2
  <2> DEFINE e == [by |-> 0, changes |-> work]
  <2>3. CASE stashes' = <<e>> \o stashes /\ work' = {}
    <3>1. e \in Entries /\ e.by = 0 /\ 0 # life /\ 0 <= life
      BY <2>0 DEF Entries
    <3> HIDE DEF e
    <3>2. \A i \in 1..Len(stashes') :
            \/ stashes'[i] = e
            \/ i # 1 /\ i - 1 \in 1..Len(stashes) /\ stashes'[i] = stashes[i - 1]
      BY <2>0, <2>3, <3>1, Pushed
    <3>3. stashes' \in Seq(Entries) /\ position <= Len(stashes') + 1
      BY <2>0, <2>3, <3>1, Pushed
    <3>4. \A i \in 1..Len(stashes') : stashes'[i].by <= life
      BY <2>0, <3>1, <3>2
    <3>5. ASSUME NEW i \in 1..Len(stashes'), NEW j \in 1..Len(stashes'),
                 stashes'[i].by = life, stashes'[j].by = life
          PROVE  i = j
      <4>1. /\ i - 1 \in 1..Len(stashes) /\ stashes[i - 1].by = life
            /\ j - 1 \in 1..Len(stashes) /\ stashes[j - 1].by = life
        BY <2>0, <3>1, <3>2, <3>5
      <4>2. i - 1 = j - 1
        BY <2>0, <4>1
      <4> QED
        BY <4>2
    <3>6. at \in {"start", "query", "backup", "status", "push"} =>
            \A i \in 1..Len(stashes') : stashes'[i].by # life
      BY <2>0, <3>1, <3>2
    <3> QED
      BY <2>0, <2>1, <2>3, <3>3, <3>4, <3>5, <3>6
  <2> QED
    BY <1>24, <2>2, <2>3 DEF Nudge
<1>25. CASE Remote
  BY <1>25 DEF Remote, InRun
<1>26. CASE Kill
  BY <1>26 DEF Kill, InRun
<1>27. CASE Again
  <2>0. /\ StashList /\ stashes \in Seq(Entries) /\ Len(stashes) \in Nat
        /\ life \in Nat /\ 1 <= life /\ life <= MaxLives /\ nudges \in Nat
    OBVIOUS
  <2>1. /\ at' = "start" /\ life' = life + 1 /\ position' = 0 /\ mine' = NoStash
        /\ UNCHANGED <<stashes, work>>
    BY <1>27 DEF Again
  <2> HIDE DEF UpdateInv, Ranges, InList
  <2>2. NoStash \in Entries /\ NoStash.by = 0
    BY DEF Entries
  <2>3. \A i \in 1..Len(stashes) : stashes[i].by \in Nat /\ stashes[i].by <= life
    <3>1. \A i \in 1..Len(stashes) : stashes[i] \in Entries
      BY <2>0
    <3> QED
      BY <2>0, <3>1 DEF Entries
  <2>4. \A i \in 1..Len(stashes') : stashes'[i].by <= life' /\ stashes'[i].by # life'
    BY <2>0, <2>1, <2>3
  <2> HIDE DEF NoStash
  <2>5. mine' \in Entries /\ mine'.by <= life' /\ position' \in Nat /\ position' <= Len(stashes') + 1
    BY <2>0, <2>1, <2>2
  <2> QED
    BY <2>0, <2>1, <2>4, <2>5
<1>28. CASE UNCHANGED updateVars
  BY <1>28 DEF updateVars
<1> QED
  BY <1>1, <1>2, <1>3, <1>4, <1>5, <1>6, <1>7, <1>8, <1>9, <1>10, <1>11, <1>12, <1>13, <1>14,
     <1>15, <1>16, <1>17, <1>18, <1>19, <1>20, <1>21, <1>22, <1>23, <1>24, <1>25, <1>26, <1>27,
     <1>28 DEF UpdateNext

\* Every step keeps the updater's stash in the list.
LEMMA InListKeeps == UpdateInv /\ [UpdateNext]_updateVars => InList'
<1> SUFFICES ASSUME UpdateInv, [UpdateNext]_updateVars
             PROVE  InList'
  OBVIOUS
<1> USE Bounds, Unwinds DEF UpdateInv, Ranges, StashList, InList, run, binary, checkout, dirs,
       Then, Report, Abort, Succeed
<1>1. CASE Choose
  BY <1>1 DEF Choose
<1>2. CASE Query
  BY <1>2 DEF Query
<1>3. CASE Backup
  BY <1>3 DEF Backup
<1>4. CASE Download
  BY <1>4 DEF Download
<1>5. CASE Verify
  BY <1>5 DEF Verify
<1>6. CASE ValidateConfig
  BY <1>6 DEF ValidateConfig
<1>7. CASE RequireIdentity
  BY <1>7 DEF RequireIdentity
<1>8. CASE Status
  BY <1>8 DEF Status
<1>9. CASE PushStash
  BY <1>9 DEF PushStash
<1>10. CASE NameStash
  <2>1. UNCHANGED <<stashes, position, raced>> /\ at' \in {"fetch"} \cup {Unwound} /\ mine = NoStash
    BY <1>10 DEF NameStash
  <2>2. CASE mine' = mine /\ at' = Unwound
    BY <2>1, <2>2
  <2>3. CASE stashes # <<>> /\ mine' = Head(stashes) /\ at' = "fetch"
    <3>1. mine' = stashes[1] /\ 1 \in 1..Len(stashes)
      BY <2>3
    <3> QED
      BY <2>1, <2>3, <3>1
  <2> QED
    BY <1>10, <2>2, <2>3 DEF NameStash
<1>11. CASE Fetch
  BY <1>11 DEF Fetch
<1>12. CASE CreateWorkspace
  BY <1>12 DEF CreateWorkspace
<1>13. CASE Build
  BY <1>13 DEF Build
<1>14. CASE EnsureUnchanged
  BY <1>14 DEF EnsureUnchanged
<1>15. CASE CopyRollback
  BY <1>15 DEF CopyRollback
<1>16. CASE Stage
  BY <1>16 DEF Stage, ReplaceFailed
<1>17. CASE Rename
  BY <1>17 DEF Rename, ReplaceFailed
<1>18. CASE SyncDirectory
  BY <1>18 DEF SyncDirectory, ReplaceFailed, Succeed
<1>19. CASE FastForward
  BY <1>19 DEF FastForward, Succeed
<1>20. CASE Cleanup
  BY <1>20 DEF Cleanup
<1>21. CASE ApplyStash
  BY <1>21 DEF ApplyStash
<1>22. CASE ListStashes
  <2>1. UNCHANGED <<stashes, mine, raced>> /\ at = "list"
    BY <1>22 DEF ListStashes
  <2>2. CASE \E i \in 1..Len(stashes) : stashes[i] = mine /\ position' = i /\ at' = "drop"
    <3>1. PICK i \in 1..Len(stashes) : stashes[i] = mine /\ position' = i /\ at' = "drop"
      BY <2>2
    <3>2. 1 <= position' /\ position' <= Len(stashes') /\ stashes'[position'] = mine'
      BY <2>1, <3>1
    <3> QED
      BY <2>1, <3>1, <3>2
  <2>3. CASE at' = "ended"
    BY <2>1, <2>3
  <2> QED
    BY <1>22, <2>2, <2>3 DEF ListStashes
<1>23. CASE Drop
  BY <1>23 DEF Drop
<1>24. CASE Nudge
  <2>1. UNCHANGED <<at, mine, position>>
    BY <1>24 DEF Nudge
  <2>2. CASE UNCHANGED <<stashes, raced>>
    BY <2>1, <2>2
  <2> DEFINE e == [by |-> 0, changes |-> work]
  <2>3. CASE stashes' = <<e>> \o stashes /\ raced' = (raced \/ at = "drop")
    <3>1. e \in Entries
      BY DEF Entries
    <3> HIDE DEF e
    <3>2. /\ Len(stashes) \in Nat /\ Len(stashes') = Len(stashes) + 1
          /\ \A i \in 1..Len(stashes) : i + 1 \in 1..Len(stashes') /\ stashes'[i + 1] = stashes[i]
      BY <2>3, <3>1, Pushed
    <3>3. (\E k \in 1..Len(stashes) : stashes[k] = mine) =>
            \E k \in 1..Len(stashes') : stashes'[k] = mine
      BY <3>2
    <3>4. at = "drop" => raced' /\ 1 <= position /\ position <= Len(stashes')
      BY <2>3, <3>2
    <3> QED
      BY <2>1, <3>3, <3>4
  <2> QED
    BY <1>24, <2>2, <2>3 DEF Nudge
<1>25. CASE Remote
  BY <1>25 DEF Remote, InRun
<1>26. CASE Kill
  BY <1>26 DEF Kill, InRun
<1>27. CASE Again
  BY <1>27 DEF Again
<1>28. CASE UNCHANGED updateVars
  BY <1>28 DEF updateVars
<1> QED
  BY <1>1, <1>2, <1>3, <1>4, <1>5, <1>6, <1>7, <1>8, <1>9, <1>10, <1>11, <1>12, <1>13, <1>14,
     <1>15, <1>16, <1>17, <1>18, <1>19, <1>20, <1>21, <1>22, <1>23, <1>24, <1>25, <1>26, <1>27,
     <1>28 DEF UpdateNext

\* No step loses a change: a drop takes out an entry that is applied.
LEMMA KeptKeeps == UpdateInv /\ [UpdateNext]_updateVars => WorkKept'
<1> SUFFICES ASSUME UpdateInv, [UpdateNext]_updateVars
             PROVE  WorkKept'
  OBVIOUS
<1> USE DEF UpdateInv, WorkKept, Held, StashList, TakenBack, InList, run, binary, checkout, dirs,
       Then, Report, Abort, Succeed
<1>1. CASE Choose
  BY <1>1 DEF Choose
<1>2. CASE Query
  BY <1>2 DEF Query
<1>3. CASE Backup
  BY <1>3 DEF Backup
<1>4. CASE Download
  BY <1>4 DEF Download
<1>5. CASE Verify
  BY <1>5 DEF Verify
<1>6. CASE ValidateConfig
  BY <1>6 DEF ValidateConfig
<1>7. CASE RequireIdentity
  BY <1>7 DEF RequireIdentity
<1>8. CASE Status
  BY <1>8 DEF Status
<1>9. CASE PushStash
  <2>0. stashes \in Seq(Entries) /\ work \subseteq Nat /\ life \in 0..MaxLives
    BY DEF Ranges
  <2>1. UNCHANGED <<written, committed, raced>>
    BY <1>9 DEF PushStash
  <2>2. CASE UNCHANGED <<stashes, work>>
    BY <2>1, <2>2
  <2> DEFINE e == [by |-> life, changes |-> work]
  <2>3. CASE stashes' = <<e>> \o stashes /\ work' = {}
    <3>1. e \in Entries /\ e.changes = work
      BY <2>0 DEF Entries
    <3> HIDE DEF e
    <3>2. /\ Len(stashes) \in Nat /\ Len(stashes') = Len(stashes) + 1 /\ stashes'[1] = e
          /\ \A i \in 1..Len(stashes) : i + 1 \in 1..Len(stashes') /\ stashes'[i + 1] = stashes[i]
      BY <2>0, <2>3, <3>1, Pushed
    <3>3. 1 \in 1..Len(stashes') /\ \A x \in work : x \in stashes'[1].changes
      BY <3>1, <3>2
    <3>4. ASSUME NEW x \in written, ~raced
          PROVE  Held(x)' \/ \E i \in 1..Len(stashes') : x \in stashes'[i].changes
      <4>1. CASE x \in committed
        BY <2>1, <4>1
      <4>2. CASE x \in work
        BY <3>3, <4>2
      <4>3. CASE \E i \in 1..Len(stashes) : x \in stashes[i].changes
        BY <3>2, <4>3
      <4> QED
        BY <3>4, <4>1, <4>2, <4>3
    <3> HIDE DEF Held
    <3> QED
      BY <2>1, <3>4
  <2> QED
    BY <1>9, <2>2, <2>3 DEF PushStash
<1>10. CASE NameStash
  BY <1>10 DEF NameStash
<1>11. CASE Fetch
  BY <1>11 DEF Fetch
<1>12. CASE CreateWorkspace
  BY <1>12 DEF CreateWorkspace
<1>13. CASE Build
  BY <1>13 DEF Build
<1>14. CASE EnsureUnchanged
  BY <1>14 DEF EnsureUnchanged
<1>15. CASE CopyRollback
  BY <1>15 DEF CopyRollback
<1>16. CASE Stage
  BY <1>16 DEF Stage, ReplaceFailed
<1>17. CASE Rename
  BY <1>17 DEF Rename, ReplaceFailed
<1>18. CASE SyncDirectory
  BY <1>18 DEF SyncDirectory, ReplaceFailed, Succeed
<1>19. CASE FastForward
  BY <1>19 DEF FastForward, Succeed
<1>20. CASE Cleanup
  BY <1>20 DEF Cleanup
<1>21. CASE ApplyStash
  BY <1>21 DEF ApplyStash
<1>22. CASE ListStashes
  BY <1>22 DEF ListStashes
<1>23. CASE Drop
  <2>1. UNCHANGED <<written, work, committed, raced, mine>>
    BY <1>23 DEF Drop
  <2>2. CASE UNCHANGED stashes
    BY <2>1, <2>2
  <2>3. CASE stashes' = RemoveAt(stashes, position) /\ ~raced
    <3>1. position \in 1..Len(stashes) /\ stashes[position] = mine /\ at = "drop"
      BY <1>23, <2>3 DEF Drop
    <3>2. \A i \in 1..Len(stashes) :
            i # position => \E j \in 1..Len(stashes') : stashes'[j] = stashes[i]
      BY <2>3, <3>1, Dropped
    <3>3. \A x \in mine.changes :
            Held(x) \/ \E i \in 1..Len(stashes) : i # position /\ x \in stashes[i].changes
      BY <2>3, <3>1
    <3>4. \A x \in written :
            Held(x) \/ \E i \in 1..Len(stashes) : i # position /\ x \in stashes[i].changes
      BY <2>3, <3>1, <3>3
    <3> QED
      BY <2>1, <3>2, <3>4
  <2> QED
    BY <1>23, <2>1, <2>2, <2>3 DEF Drop
<1>24. CASE Nudge
  <2>1. CASE /\ work' = work \cup {3 + nudges} /\ written' = written \cup {3 + nudges}
             /\ UNCHANGED <<stashes, committed, raced>>
    BY <2>1
  <2>2. CASE committed' = committed \cup work /\ UNCHANGED <<stashes, written, raced>>
    BY <2>2
  <2> DEFINE e == [by |-> 0, changes |-> work]
  <2>3. CASE stashes' = <<e>> \o stashes /\ UNCHANGED <<written, committed>> /\ (raced => raced')
    <3>1. e \in Entries /\ e.changes = work /\ stashes \in Seq(Entries)
      BY Bounds DEF Entries
    <3> HIDE DEF e
    <3>2. /\ Len(stashes) \in Nat /\ Len(stashes') = Len(stashes) + 1 /\ stashes'[1] = e
          /\ \A i \in 1..Len(stashes) : i + 1 \in 1..Len(stashes') /\ stashes'[i + 1] = stashes[i]
      BY <2>3, <3>1, Pushed
    <3>3. 1 \in 1..Len(stashes') /\ \A x \in work : x \in stashes'[1].changes
      BY <3>1, <3>2
    <3>4. ASSUME NEW x \in written, ~raced
          PROVE  Held(x)' \/ \E i \in 1..Len(stashes') : x \in stashes'[i].changes
      <4>1. CASE x \in committed
        BY <2>3, <4>1
      <4>2. CASE x \in work
        BY <3>3, <4>2
      <4>3. CASE \E i \in 1..Len(stashes) : x \in stashes[i].changes
        BY <3>2, <4>3
      <4> QED
        BY <3>4, <4>1, <4>2, <4>3
    <3> HIDE DEF Held
    <3> QED
      BY <2>3, <3>4
  <2> QED
    BY <1>24, <2>1, <2>2, <2>3 DEF Nudge
<1>25. CASE Remote
  BY <1>25 DEF Remote, InRun
<1>26. CASE Kill
  BY <1>26 DEF Kill, InRun
<1>27. CASE Again
  BY <1>27 DEF Again
<1>28. CASE UNCHANGED updateVars
  BY <1>28 DEF updateVars
<1> QED
  BY <1>1, <1>2, <1>3, <1>4, <1>5, <1>6, <1>7, <1>8, <1>9, <1>10, <1>11, <1>12, <1>13, <1>14,
     <1>15, <1>16, <1>17, <1>18, <1>19, <1>20, <1>21, <1>22, <1>23, <1>24, <1>25, <1>26, <1>27,
     <1>28 DEF UpdateNext

\* What was applied stays applied, or goes where the user puts it.
LEMMA TakenBackKeeps == UpdateInv /\ [UpdateNext]_updateVars => TakenBack'
<1> SUFFICES ASSUME UpdateInv, [UpdateNext]_updateVars
             PROVE  TakenBack'
  OBVIOUS
<1> USE Unwinds DEF UpdateInv, Ranges, StashList, InList, TakenBack, Held, run, binary, checkout,
       dirs, Then, Report, Abort, Succeed
<1>1. CASE Choose
  BY <1>1 DEF Choose
<1>2. CASE Query
  BY <1>2 DEF Query
<1>3. CASE Backup
  BY <1>3 DEF Backup
<1>4. CASE Download
  BY <1>4 DEF Download
<1>5. CASE Verify
  BY <1>5 DEF Verify
<1>6. CASE ValidateConfig
  BY <1>6 DEF ValidateConfig
<1>7. CASE RequireIdentity
  BY <1>7 DEF RequireIdentity
<1>8. CASE Status
  BY <1>8 DEF Status
<1>9. CASE PushStash
  BY <1>9 DEF PushStash
<1>10. CASE NameStash
  BY <1>10 DEF NameStash
<1>11. CASE Fetch
  BY <1>11 DEF Fetch
<1>12. CASE CreateWorkspace
  BY <1>12 DEF CreateWorkspace
<1>13. CASE Build
  BY <1>13 DEF Build
<1>14. CASE EnsureUnchanged
  BY <1>14 DEF EnsureUnchanged
<1>15. CASE CopyRollback
  BY <1>15 DEF CopyRollback
<1>16. CASE Stage
  BY <1>16 DEF Stage, ReplaceFailed
<1>17. CASE Rename
  BY <1>17 DEF Rename, ReplaceFailed
<1>18. CASE SyncDirectory
  BY <1>18 DEF SyncDirectory, ReplaceFailed, Succeed
<1>19. CASE FastForward
  BY <1>19 DEF FastForward, Succeed
<1>20. CASE Cleanup
  BY <1>20 DEF Cleanup
<1>21. CASE ApplyStash
  BY <1>21 DEF ApplyStash
<1>22. CASE ListStashes
  BY <1>22 DEF ListStashes
<1>23. CASE Drop
  BY <1>23 DEF Drop
<1>24. CASE Nudge
  <2>1. UNCHANGED <<at, life, mine>>
    BY <1>24 DEF Nudge
  <2>2. CASE UNCHANGED <<stashes, raced>> /\ work \subseteq work' /\ committed \subseteq committed'
    BY <2>1, <2>2
  <2>3. CASE UNCHANGED <<stashes, raced>> /\ committed' = committed \cup work
    BY <2>1, <2>3
  <2> DEFINE e == [by |-> 0, changes |-> work]
  <2>4. CASE stashes' = <<e>> \o stashes /\ raced' = (raced \/ at = "drop") /\ UNCHANGED committed
    <3> SUFFICES ASSUME at = "list", ~raced
                 PROVE  TakenBack'
      BY <2>1, <2>4
    <3>1. e \in Entries /\ e.changes = work /\ e.by = 0 /\ stashes \in Seq(Entries)
      BY Bounds DEF Entries
    <3> HIDE DEF e
    <3>2. /\ Len(stashes) \in Nat /\ Len(stashes') = Len(stashes) + 1 /\ stashes'[1] = e
          /\ \A i \in 1..Len(stashes) : i + 1 \in 1..Len(stashes') /\ stashes'[i + 1] = stashes[i]
          /\ \A i \in 1..Len(stashes') :
               i # 1 => i - 1 \in 1..Len(stashes) /\ stashes'[i] = stashes[i - 1]
      BY <2>4, <3>1, Pushed
    <3>3. \A x : x \in work => 1 \in 1..Len(stashes') /\ x \in stashes'[1].changes
      BY <3>1, <3>2
    <3>4. PICK m \in 1..Len(stashes) : stashes[m] = mine
      OBVIOUS
    <3>5. ASSUME NEW k \in 1..Len(stashes'), stashes'[k] = mine, NEW x \in mine.changes
          PROVE  Held(x)' \/ \E i \in 1..Len(stashes') : i # k /\ x \in stashes'[i].changes
      <4>1. CASE k = 1
        <5>1. m + 1 \in 1..Len(stashes') /\ stashes'[m + 1] = mine /\ m + 1 # 1
          <6>1. m \in Nat /\ 1 <= m
            BY <3>2, <3>4
          <6>2. m + 1 \in 1..Len(stashes') /\ stashes'[m + 1] = stashes[m]
            BY <3>2
          <6>3. m + 1 # 1
            BY <6>1
          <6> QED
            BY <3>4, <6>2, <6>3
        <5> QED
          BY <3>5, <4>1, <5>1
      <4>2. CASE k # 1
        <5>1. k - 1 \in 1..Len(stashes) /\ stashes[k - 1] = mine
          BY <3>2, <3>5, <4>2
        <5>2. CASE x \in committed
          BY <2>4, <5>2
        <5>3. CASE x \in work
          BY <3>3, <4>2, <5>3
        <5>4. ASSUME NEW i \in 1..Len(stashes), i # k - 1, x \in stashes[i].changes
              PROVE  \E j \in 1..Len(stashes') : j # k /\ x \in stashes'[j].changes
          <6>1. i + 1 \in 1..Len(stashes') /\ stashes'[i + 1] = stashes[i] /\ i + 1 # k
            BY <3>2, <5>4
          <6> QED
            BY <5>4, <6>1
        <5> QED
          BY <3>5, <5>1, <5>2, <5>3, <5>4
      <4> QED
        BY <4>1, <4>2
    <3>6. ASSUME mine.by = life, NEW x \in mine.changes
          PROVE  Held(x)' \/ \E i \in 1..Len(stashes') :
                               stashes'[i].by = 0 /\ x \in stashes'[i].changes
      <4>1. CASE x \in committed
        BY <2>4, <4>1
      <4>2. CASE x \in work
        BY <3>1, <3>2, <3>3, <4>2
      <4>3. CASE \E i \in 1..Len(stashes) : stashes[i].by = 0 /\ x \in stashes[i].changes
        BY <3>2, <4>3
      <4> QED
        BY <3>6, <4>1, <4>2, <4>3
    <3> HIDE DEF Held
    <3> QED
      BY <2>1, <3>5, <3>6
  <2> QED
    BY <1>24, <2>2, <2>3, <2>4 DEF Nudge
<1>25. CASE Remote
  BY <1>25 DEF Remote, InRun
<1>26. CASE Kill
  BY <1>26 DEF Kill, InRun
<1>27. CASE Again
  BY <1>27 DEF Again
<1>28. CASE UNCHANGED updateVars
  BY <1>28 DEF updateVars
<1> QED
  BY <1>1, <1>2, <1>3, <1>4, <1>5, <1>6, <1>7, <1>8, <1>9, <1>10, <1>11, <1>12, <1>13, <1>14,
     <1>15, <1>16, <1>17, <1>18, <1>19, <1>20, <1>21, <1>22, <1>23, <1>24, <1>25, <1>26, <1>27,
     <1>28 DEF UpdateNext

\* Every step keeps what a run that ends has given back.
LEMMA GivenBackKeeps == UpdateInv /\ [UpdateNext]_updateVars => GivenBack'
<1> SUFFICES ASSUME UpdateInv, [UpdateNext]_updateVars
             PROVE  GivenBack'
  OBVIOUS
<1> USE Unwinds DEF UpdateInv, Ranges, StashList, InList, TakenBack, GivenBack, Held, NoStash,
       run, binary, checkout, dirs, Then, Report, Abort, Succeed
<1>1. CASE Choose
  BY <1>1 DEF Choose
<1>2. CASE Query
  BY <1>2 DEF Query
<1>3. CASE Backup
  BY <1>3 DEF Backup
<1>4. CASE Download
  BY <1>4 DEF Download
<1>5. CASE Verify
  BY <1>5 DEF Verify
<1>6. CASE ValidateConfig
  BY <1>6 DEF ValidateConfig
<1>7. CASE RequireIdentity
  BY <1>7 DEF RequireIdentity
<1>8. CASE Status
  BY <1>8 DEF Status
<1>9. CASE PushStash
  BY <1>9 DEF PushStash
<1>10. CASE NameStash
  BY <1>10 DEF NameStash
<1>11. CASE Fetch
  BY <1>11 DEF Fetch
<1>12. CASE CreateWorkspace
  BY <1>12 DEF CreateWorkspace
<1>13. CASE Build
  BY <1>13 DEF Build
<1>14. CASE EnsureUnchanged
  BY <1>14 DEF EnsureUnchanged
<1>15. CASE CopyRollback
  BY <1>15 DEF CopyRollback
<1>16. CASE Stage
  <2>1. at' # "ended" \/ mine' = NoStash
    BY <1>16, ReplaceFails DEF Stage
  <2> QED
    BY <1>16, <2>1 DEF Stage
<1>17. CASE Rename
  <2>1. at' # "ended" \/ mine' = NoStash
    BY <1>17, ReplaceFails DEF Rename
  <2> QED
    BY <1>17, <2>1 DEF Rename
<1>18. CASE SyncDirectory
  <2>1. UNCHANGED <<life, mine>>
    BY <1>18 DEF SyncDirectory
  <2>2. at' # "ended" \/ mine' = NoStash
    BY <1>18, <2>1, ReplaceFails, Syncs
  <2> QED
    BY <2>1, <2>2
<1>19. CASE FastForward
  BY <1>19 DEF FastForward, Succeed
<1>20. CASE Cleanup
  BY <1>20 DEF Cleanup
<1>21. CASE ApplyStash
  BY <1>21 DEF ApplyStash
<1>22. CASE ListStashes
  BY <1>22 DEF ListStashes
<1>23. CASE Drop
  <2>1. UNCHANGED <<life, work, committed, raced, mine>> /\ at = "drop" /\ at' = "ended"
    BY <1>23 DEF Drop
  <2>2. CASE "stash" \in said'
    BY <2>2
  <2>3. CASE stashes' = RemoveAt(stashes, position) /\ ~raced /\ mine.by = life
    <3>1. position \in 1..Len(stashes) /\ stashes[position] = mine /\ stashes \in Seq(Entries)
      BY <2>1, <2>3
    <3>2. \A i \in 1..Len(stashes) :
            i # position => \E j \in 1..Len(stashes') : stashes'[j] = stashes[i]
      BY <2>3, <3>1, Dropped
    <3>3. \A i \in 1..Len(stashes') :
            \E j \in 1..Len(stashes) : j # position /\ stashes'[i] = stashes[j]
      <4>1. /\ Len(stashes) \in Nat
            /\ \A i \in 1..Len(stashes') :
                 /\ i < position => i \in 1..Len(stashes) /\ stashes'[i] = stashes[i]
                 /\ i >= position => i + 1 \in 1..Len(stashes) /\ stashes'[i] = stashes[i + 1]
        BY <2>3, <3>1, Dropped
      <4> QED
        BY <3>1, <4>1
    <3>4. \A i \in 1..Len(stashes') : stashes'[i].by # life
      BY <2>3, <3>1, <3>3
    <3>5. ASSUME NEW x \in mine.changes
          PROVE  Held(x) \/ \E i \in 1..Len(stashes') :
                              stashes'[i].by = 0 /\ x \in stashes'[i].changes
      <4>1. Held(x) \/ \E i \in 1..Len(stashes) : stashes[i].by = 0 /\ x \in stashes[i].changes
        BY <2>1, <2>3, <3>5
      <4>2. stashes[position].by # 0
        BY <2>3, <3>1
      <4> QED
        BY <3>2, <4>1, <4>2
    <3> QED
      BY <2>1, <3>4, <3>5
  <2> QED
    BY <1>23, <2>1, <2>2, <2>3 DEF Drop
<1>24. CASE Nudge
  BY <1>24 DEF Nudge, InRun
<1>25. CASE Remote
  BY <1>25 DEF Remote, InRun
<1>26. CASE Kill
  BY <1>26 DEF Kill, InRun
<1>27. CASE Again
  BY <1>27 DEF Again
<1>28. CASE UNCHANGED updateVars
  BY <1>28 DEF updateVars
<1> QED
  BY <1>1, <1>2, <1>3, <1>4, <1>5, <1>6, <1>7, <1>8, <1>9, <1>10, <1>11, <1>12, <1>13, <1>14,
     <1>15, <1>16, <1>17, <1>18, <1>19, <1>20, <1>21, <1>22, <1>23, <1>24, <1>25, <1>26, <1>27,
     <1>28 DEF UpdateNext

-----------------------------------------------------------------------------
(* The theorems. *)

\* The first state has the invariant.
LEMMA UpdateStarts == UpdateInit => UpdateInv
<1> SUFFICES ASSUME UpdateInit
             PROVE  UpdateInv
  OBVIOUS
<1> USE Bounds
<1>1. /\ at = "start" /\ route = "stable" /\ life = 1 /\ outcome = "none" /\ said = {}
      /\ pinned = NoRev /\ candidate = [rev |-> NoRev, flaw |-> "none"] /\ exe = Installed
      /\ beside = NoRev /\ phase = "install" /\ nudges = 0 /\ start = Installed
      /\ position = 0 /\ mine = NoStash /\ roots = {} /\ registered = {}
      /\ accepted = {Installed} /\ rollback = [l \in Lives |-> NoRev]
      /\ head \in {OwnCommit, Installed} /\ master \in Installed - 1 .. MaxRev
  BY DEF UpdateInit
<1>2. 1 <= MaxLives
  BY UpdateAssumption
<1>3. Ranges
  <2>1. /\ candidate.rev = NoRev /\ candidate.flaw = "none" /\ "none" \in Flaws
        /\ candidate = [rev |-> candidate.rev, flaw |-> candidate.flaw]
    BY <1>1 DEF Flaws
  <2>2. /\ NoRev \in Nat /\ NoRev <= NoRev /\ master \in Nat /\ master <= MaxRev
        /\ head \in Nat /\ head <= MaxRev /\ Installed <= NoRev
    BY <1>1 DEF NoRev, OwnCommit
  <2>3. rollback \in [Lives -> 0..NoRev]
    BY <1>1, <2>2
  <2>4. at \in Working /\ route \in Routes
    BY <1>1 DEF Working, Routes
  <2> QED
    BY <1>1, <1>2, <2>1, <2>2, <2>3, <2>4 DEF Ranges
<1>4. Checked /\ Replaced /\ Told /\ Workspaces
  BY <1>1
  DEF Checked, Replaced, Told, Workspaces, Working, Pinned, Checking, Accepting, Replacing,
      Unwinding
<1>5. \E c \in {{}, {2}} :
        /\ c = {} => stashes = <<>>
        /\ c # {} => stashes = <<[by |-> 0, changes |-> c]>>
        /\ written = work \cup c
  <2>1. CASE stashes = <<>>
    BY <2>1 DEF UpdateInit
  <2>2. CASE stashes = <<[by |-> 0, changes |-> {2}]>>
    <3>1. DOMAIN stashes = {1} /\ stashes[1].changes = {2}
      BY <2>2
    <3>2. UNION {stashes[i].changes : i \in DOMAIN stashes} = {2}
      BY <3>1
    <3> QED
      BY <2>2, <3>2 DEF UpdateInit
  <2> QED
    BY <2>1, <2>2 DEF UpdateInit
<1>6. PICK c \in {{}, {2}} :
        /\ c = {} => stashes = <<>>
        /\ c # {} => stashes = <<[by |-> 0, changes |-> c]>>
        /\ written = work \cup c
  BY <1>5
<1>7. /\ stashes \in Seq(Entries) /\ Len(stashes) \in Nat
      /\ \A i \in 1..Len(stashes) : i = 1 /\ stashes[i].by = 0
      /\ \A x \in c : 1 \in 1..Len(stashes) /\ x \in stashes[1].changes
  <2>1. CASE c = {}
    BY <1>6, <2>1
  <2>2. CASE c = {2}
    <3>1. [by |-> 0, changes |-> c] \in Entries
      BY <2>2 DEF Entries
    <3>2. stashes = <<[by |-> 0, changes |-> c]>>
      BY <1>6, <2>2
    <3> HIDE DEF Entries
    <3> QED
      BY <2>2, <3>1, <3>2
  <2> QED
    BY <2>1, <2>2
<1>8. StashList
  <2>1. NoStash \in Entries /\ NoStash.by = 0
    BY DEF NoStash, Entries
  <2>2. work \subseteq Nat
    BY DEF UpdateInit
  <2> QED
    BY <1>1, <1>7, <2>1, <2>2 DEF StashList
<1>9. InList /\ TakenBack /\ GivenBack
  BY <1>1 DEF InList, TakenBack, GivenBack
<1>10. WorkKept
  BY <1>6, <1>7 DEF WorkKept, Held
<1> QED
  BY <1>3, <1>4, <1>8, <1>9, <1>10 DEF UpdateInv

\* The binary, the reports, the workspaces and the stash list fit together at every step
\* of every run, whatever fails, and whoever is killed.
THEOREM UpdateAlways == UpdateSpec => []UpdateInv
<1>1. UpdateInv /\ [UpdateNext]_updateVars => UpdateInv'
  BY RangesKeep, CheckedKeep, ReplacedKeep, ReportedKeep, WorkspacesKeep, StashListKeeps,
     InListKeeps, KeptKeeps, TakenBackKeeps, GivenBackKeeps
  DEF UpdateInv
<1> QED
  BY <1>1, UpdateStarts, PTL DEF UpdateSpec

\* The installed file is at all times one whole binary that passed every check of its
\* route, the bytes that were started are in the rollback copy while it is another one,
\* and what a run reports fits the binary and the checkout it leaves.
THEOREM BinaryAlwaysRecoverable == UpdateSpec => []BinaryIsRecoverable
<1>1. UpdateInv => BinaryIsRecoverable
  <2> SUFFICES ASSUME UpdateInv
               PROVE  BinaryIsRecoverable
    OBVIOUS
  <2> USE Bounds DEF UpdateInv
  <2>1. UpdateTypeOK
    <3>1. candidate \in [rev : 0..NoRev, flaw : Flaws]
      BY DEF Ranges
    <3>2. /\ {master, pinned, exe, beside} \subseteq 0..NoRev /\ head \in 0..MaxRev
          /\ life \in Lives /\ route \in Routes /\ outcome \in {"none", "ok", "error"}
          /\ rollback \in [Lives -> 0..NoRev]
      BY DEF Ranges, NoRev, Lives
    <3>3. roots \cup registered \subseteq Lives
      BY DEF Ranges, Workspaces, Lives
    <3>4. position \in 0..Len(stashes) + 1
      BY DEF StashList
    <3> QED
      BY <3>1, <3>2, <3>3, <3>4 DEF UpdateTypeOK
  <2>2. BinaryIsWhole
    BY DEF Ranges, Replaced, BinaryIsWhole
  <2>3. ErrorsKeepTheOldBinary
    BY DEF Told, Unwinding, ErrorsKeepTheOldBinary
  <2> QED
    BY <2>1, <2>2, <2>3 DEF BinaryIsRecoverable
<1> QED
  BY <1>1, UpdateAlways, PTL

\* The changes in the entries of a run.
LEMMA Stashed ==
  ASSUME StashList, NEW b, NEW x
  PROVE  x \in InStash(b) <=>
           \E i \in 1..Len(stashes) : stashes[i].by = b /\ x \in stashes[i].changes
<1>1. DOMAIN stashes = 1..Len(stashes)
  BY DEF StashList
<1> QED
  BY <1>1 DEF InStash

\* Nothing the user wrote in the checkout is lost, and what a run leaves behind in the
\* stash list or on disk it reports, in whatever order its steps, its death and the
\* user's own commands come.
THEOREM ChangesAlwaysSurvive == UpdateSpec => []ChangesSurvive
<1>1. UpdateInv => ChangesSurvive
  <2> SUFFICES ASSUME UpdateInv
               PROVE  ChangesSurvive
    OBVIOUS
  <2>0. /\ StashList /\ WorkKept /\ GivenBack /\ Workspaces /\ Ranges
        /\ stashes \in Seq(Entries) /\ life \in Nat /\ 1 <= life
    BY DEF UpdateInv, StashList, Ranges
  <2>1. NothingIsLost
    <3> SUFFICES ASSUME ~raced, NEW x \in written
                 PROVE  x \in work \cup committed \cup UNION {InStash(by) : by \in 0..MaxLives}
      BY DEF NothingIsLost
    <3>1. CASE Held(x)
      BY <3>1 DEF Held
    <3>2. CASE \E i \in 1..Len(stashes) : x \in stashes[i].changes
      <4>1. PICK i \in 1..Len(stashes) : x \in stashes[i].changes
        BY <3>2
      <4>2. stashes[i] \in Entries
        BY <2>0
      <4>3. stashes[i].by \in 0..MaxLives
        BY <4>2 DEF Entries
      <4>4. x \in InStash(stashes[i].by)
        BY <2>0, <4>1, Stashed
      <4> QED
        BY <4>3, <4>4
    <3> QED
      BY <2>0, <3>1, <3>2 DEF WorkKept
  <2>2. LeavingsAreReported
    <3>1. life \in roots => roots = {life}
      BY <2>0 DEF Workspaces
    <3> SUFFICES ASSUME at = "ended"
                 PROVE  /\ life \in roots \cup registered => "workspace" \in said
                        /\ mine.by = life /\ ~raced /\ "stash" \notin said =>
                             mine.changes \subseteq work \cup committed \cup InStash(0)
                        /\ InStash(life) # {} =>
                             said \cap {"stash", "push"} # {} \/ raced \/ mine.by # life
      BY <3>1 DEF LeavingsAreReported
    <3>2. life \in roots \cup registered => "workspace" \in said
      BY <2>0 DEF Workspaces
    <3>3. ASSUME mine.by = life, ~raced, "stash" \notin said, NEW x \in mine.changes
          PROVE  x \in work \cup committed \cup InStash(0)
      BY <2>0, <3>3, Stashed DEF GivenBack, Held
    <3>4. ASSUME NEW x \in InStash(life), mine.by = life, ~raced
          PROVE  "stash" \in said \/ "push" \in said
      <4>1. \E i \in 1..Len(stashes) : stashes[i].by = life
        BY <2>0, <3>4, Stashed
      <4> QED
        BY <2>0, <3>4, <4>1 DEF GivenBack
    <3> QED
      BY <3>2, <3>3, <3>4
  <2> QED
    BY <2>1, <2>2 DEF ChangesSurvive
<1> QED
  BY <1>1, UpdateAlways, PTL
=============================================================================
