----------------------------- MODULE AtomicWrite -----------------------------
(***************************************************************************)
(* One atomic save: atomic_write_with of file/io.rs with the Linux commit  *)
(* of file/io/atomic_unix.rs, one action per system call that another      *)
(* process can get in front of, while that other process replaces,         *)
(* rewrites, links, re-modes or removes the target.                        *)
(*                                                                         *)
(* A directory entry names an inode; an inode has data and a stamp that    *)
(* every write or mode change moves (the size, mtime and mode fields of    *)
(* UnixMetadata), and a ctime that a rename moves too.  A crash is the end *)
(* of the process, not of the machine: what was written stays written.     *)
(***************************************************************************)
EXTENDS Naturals, FiniteSets

CONSTANTS
  Documents,      \* what the other process writes, something new every time
  MaxExternal     \* bound on the steps of the other process

ASSUME AtomicWriteAssumption ==
  /\ MaxExternal \in Nat
  /\ Documents \cap {"gone", "original", "staged", "old", "new", "empty", "partial"} = {}

Gone  == "gone"
Names == {"target", "temp", "alias"}
Inode == {"original", "staged"} \cup Documents  \* those made to hold a document

\* What a file can hold: what was there, what is being saved, nothing yet or a
\* part of it, or what the other process wrote.
Torn == {"empty", "partial"}
Data == {"old", "new"} \cup Torn \cup Documents

VARIABLES
  entry,      \* Names -> the inode an entry names, or Gone
  data,       \* Inode -> what it holds
  stamp,      \* Inode -> its size, mtime and mode, as a counter
  ctime,      \* Inode -> the change time, as a counter
  pc,         \* the next system call of the save
  seen,       \* what symlink_metadata returned, then ExistingTarget.baseline
  staged,     \* StagedFile, or None before the temp file is created
  result,     \* what atomic_write_with returned
  external,   \* how many steps the other process has taken
  used,       \* the documents it has written
  faulted,    \* history variable: some system call failed by itself
  removed,    \* history variable: the other process removed the target
  started,    \* history variable: entry when the save started
  inspected,  \* history variable: what the inspected inode held
  destroyed   \* history variable: documents whose last copy the save removed

inodes     == <<entry, data, stamp, ctime>>
program    == <<pc, seen, staged, result>>
saveGhosts == <<faulted, removed, started, inspected, destroyed>>
saveVars   == <<inodes, program, external, used, saveGhosts>>

Missing == [ino |-> Gone]

\* UnixMetadata of the inode an entry names.
Metadata(name) ==
  [ino   |-> entry[name],
   links |-> Cardinality({n \in Names : entry[n] = entry[name]}),
   stamp |-> stamp[entry[name]],
   ctime |-> ctime[entry[name]]]

HardLinked == seen # Missing /\ seen.links > 1

\* The last entry of an inode is going: what it holds is lost, unless it is
\* the staged file's own.
LostWith(name) ==
  IF entry[name] = "staged" \/ \E n \in Names \ {name} : entry[n] = entry[name]
  THEN {} ELSE {data[entry[name]]}

-----------------------------------------------------------------------------
SaveInit ==
  /\ \E there, linked \in BOOLEAN :
       /\ linked => there
       /\ entry = [n \in Names |->
                     IF (n = "target" /\ there) \/ (n = "alias" /\ linked)
                     THEN "original" ELSE Gone]
  /\ data = [i \in Inode |-> IF i = "original" THEN "old" ELSE "empty"]
  /\ stamp = [i \in Inode |-> 0] /\ ctime = [i \in Inode |-> 0]
  /\ pc = "stat" /\ seen = Missing /\ staged = "None" /\ result = "None"
  /\ external = 0 /\ used = {}
  /\ faulted = FALSE /\ removed = FALSE
  /\ started = entry /\ inspected = {} /\ destroyed = {}

Goto(label) == pc' = label /\ UNCHANGED result

\* Every error leaves through discard_failed_attempt.
Fail == Goto("discard")

\* A system call that fails by itself.
Fault == faulted' = TRUE /\ Fail /\ UNCHANGED <<seen, staged>>

Return(r) == pc' = "done" /\ result' = r

Stat ==
  /\ pc = "stat"
  /\ IF entry["target"] = Gone
     THEN Goto("create") /\ seen' = Missing
     ELSE Goto("open") /\ seen' = Metadata("target")
  /\ UNCHANGED <<inodes, staged, external, used, saveGhosts>>

\* Open the target and require it to be what was just inspected.
Open ==
  /\ pc = "open"
  /\ IF entry["target"] # Gone /\ Metadata("target") = seen
     THEN Goto("create") /\ inspected' = {data[entry["target"]]}
     ELSE Fail /\ UNCHANGED inspected
  /\ UNCHANGED <<inodes, seen, staged, external, used, faulted, removed, started, destroyed>>

Create ==
  /\ pc = "create"
  /\ \/ /\ entry' = [entry EXCEPT !["temp"] = "staged"]
        /\ staged' = "Owned"
        /\ Goto("stream")
        /\ UNCHANGED <<seen, faulted>>
     \/ Fault /\ UNCHANGED entry
  /\ UNCHANGED <<data, stamp, ctime, external, used, removed, started, inspected, destroyed>>

AfterStream == IF seen = Missing THEN "publish" ELSE "validate"

\* Write the contents, copy the metadata and sync; part of it may be written
\* when this fails.
CommitBeforeStream ==
  /\ pc = "stream" /\ Goto(AfterStream)
  /\ UNCHANGED <<inodes, seen, staged, external, used, saveGhosts>>
Stream ==
  /\ pc = "stream"
  /\ \/ /\ data' = [data EXCEPT !["staged"] = "new"]
        /\ Goto(AfterStream)
        /\ UNCHANGED <<seen, staged, faulted>>
     \/ data' = [data EXCEPT !["staged"] = "partial"] /\ Fault
  /\ UNCHANGED <<entry, stamp, ctime, external, used, removed, started, inspected, destroyed>>

\* commit_new_file: RENAME_NOREPLACE.
Publish ==
  /\ pc = "publish"
  /\ IF entry["target"] = Gone
     THEN /\ entry' = [entry EXCEPT !["target"] = "staged", !["temp"] = Gone]
          /\ staged' = "Committed"
          /\ Return("Ok")
     ELSE Fail /\ UNCHANGED <<entry, staged>>
  /\ UNCHANGED <<data, stamp, ctime, seen, external, used, saveGhosts>>

Validate ==
  /\ pc = "validate"
  /\ IF entry["target"] # Gone /\ Metadata("target") = seen
     THEN Goto(IF HardLinked THEN "truncate" ELSE "exchange")
     ELSE Fail
  /\ UNCHANGED <<inodes, seen, staged, external, used, saveGhosts>>

\* RENAME_EXCHANGE: it swaps whatever the two names are by now.
Swap ==
  /\ entry' = [entry EXCEPT !["target"] = entry["temp"], !["temp"] = entry["target"]]
  /\ ctime' = [i \in Inode |->
                 IF i \in {entry["target"], entry["temp"]} THEN ctime[i] + 1 ELSE ctime[i]]

Exchange ==
  /\ pc = "exchange"
  /\ IF entry["target"] # Gone
     THEN Swap /\ staged' = "Committed" /\ Goto("displaced")
     ELSE Fail /\ UNCHANGED <<entry, ctime, staged>>
  /\ UNCHANGED <<data, stamp, seen, external, used, saveGhosts>>

\* same_preserved_metadata: the exchange itself has moved the ctime.
SamePreservedMetadata(m) == [m EXCEPT !.ctime = seen.ctime] = seen

\* validate_displaced_target.
TrustDisplaced ==
  /\ pc = "displaced" /\ Goto("unlink")
  /\ UNCHANGED <<inodes, seen, staged, external, used, saveGhosts>>
Displaced ==
  /\ pc = "displaced"
  /\ Goto(IF SamePreservedMetadata(Metadata("temp")) THEN "unlink" ELSE "rollback")
  /\ UNCHANGED <<inodes, seen, staged, external, used, saveGhosts>>

RemoveTemp ==
  /\ destroyed' = destroyed \cup LostWith("temp")
  /\ entry' = [entry EXCEPT !["temp"] = Gone]

\* Remove the displaced target: the save is done.
UnlinkOrFail ==
  /\ pc = "unlink"
  /\ \/ RemoveTemp /\ Return("Ok") /\ UNCHANGED <<seen, staged, faulted>>
     \/ Fault /\ UNCHANGED <<entry, destroyed>>
  /\ UNCHANGED <<data, stamp, ctime, external, used, removed, started, inspected>>
Unlink ==
  /\ pc = "unlink"
  /\ \/ RemoveTemp /\ Return("Ok") /\ UNCHANGED faulted
     \/ faulted' = TRUE /\ Goto("rollback") /\ UNCHANGED <<entry, destroyed>>
  /\ UNCHANGED <<data, stamp, ctime, seen, staged, external, used, removed, started, inspected>>

Rollback ==
  /\ pc = "rollback"
  /\ \/ /\ entry["target"] # Gone
        /\ Swap /\ staged' = "Owned"
        /\ UNCHANGED faulted
     \/ /\ staged' = "KeptAsRecoveryEvidence"
        /\ faulted' = (faulted \/ entry["target"] # Gone)
        /\ UNCHANGED <<entry, ctime>>
  /\ Fail
  /\ UNCHANGED <<data, stamp, seen, external, used, removed, started, inspected, destroyed>>

\* A hard-linked target is updated in place, through the descriptor opened
\* at the start: from here on the staged file is the only complete copy.
Truncate ==
  /\ pc = "truncate"
  /\ staged' = "KeptAsRecoveryEvidence"
  /\ \/ /\ data' = [data EXCEPT ![seen.ino] = "empty"]
        /\ stamp' = [stamp EXCEPT ![seen.ino] = @ + 1]
        /\ destroyed' = destroyed \cup {data[seen.ino]}
        /\ Goto("refill")
        /\ UNCHANGED faulted
     \/ faulted' = TRUE /\ Fail /\ UNCHANGED <<data, stamp, destroyed>>
  /\ UNCHANGED <<entry, ctime, seen, external, used, removed, started, inspected>>

Refill ==
  /\ pc = "refill"
  /\ stamp' = [stamp EXCEPT ![seen.ino] = @ + 1]
  /\ \/ /\ data' = [data EXCEPT ![seen.ino] = "new"]
        /\ staged' = "Committed"
        /\ Goto("unstage")
        /\ UNCHANGED <<seen, faulted>>
     \/ data' = [data EXCEPT ![seen.ino] = "partial"] /\ Fault
  /\ UNCHANGED <<entry, ctime, external, used, removed, started, inspected, destroyed>>

Unstage ==
  /\ pc = "unstage"
  /\ \/ RemoveTemp /\ Return("Ok") /\ UNCHANGED <<seen, staged, faulted>>
     \/ Fault /\ UNCHANGED <<entry, destroyed>>
  /\ UNCHANGED <<data, stamp, ctime, external, used, removed, started, inspected>>

\* discard_failed_attempt: best effort, and only for a temp file still owned.
Discard ==
  /\ pc = "discard"
  /\ Return("Err")
  /\ \/ staged = "Owned" /\ RemoveTemp /\ UNCHANGED faulted
     \/ staged = "Owned" /\ faulted' = TRUE /\ UNCHANGED <<entry, destroyed>>
     \/ staged # "Owned" /\ UNCHANGED <<entry, destroyed, faulted>>
  /\ UNCHANGED <<data, stamp, ctime, seen, staged, external, used, removed, started, inspected>>

\* The process is killed between any two system calls.
Crash ==
  /\ pc \notin {"done", "crashed"}
  /\ pc' = "crashed"
  /\ UNCHANGED <<inodes, seen, staged, result, external, used, saveGhosts>>

-----------------------------------------------------------------------------
(* The other process, at any moment. *)

Other ==
  /\ external < MaxExternal
  /\ external' = external + 1
  /\ UNCHANGED <<program, faulted, started, inspected, destroyed>>

\* An atomic replacement (or creation) by rename.
OtherReplaces(d) ==
  /\ Other
  /\ d \notin used /\ used' = used \cup {d}
  /\ entry' = [entry EXCEPT !["target"] = d]
  /\ data' = [data EXCEPT ![d] = d]
  /\ UNCHANGED <<stamp, ctime, removed>>

Touched(i) ==
  /\ stamp' = [stamp EXCEPT ![i] = @ + 1]
  /\ ctime' = [ctime EXCEPT ![i] = @ + 1]

OtherRewrites(d) ==
  /\ Other
  /\ d \notin used /\ used' = used \cup {d}
  /\ entry["target"] # Gone
  /\ data' = [data EXCEPT ![entry["target"]] = d]
  /\ Touched(entry["target"])
  /\ UNCHANGED <<entry, removed>>

OtherChangesMode ==
  /\ Other
  /\ entry["target"] # Gone
  /\ Touched(entry["target"])
  /\ UNCHANGED <<entry, data, removed, used>>

OtherLinks ==
  /\ Other
  /\ entry["target"] # Gone /\ entry["alias"] = Gone
  /\ entry' = [entry EXCEPT !["alias"] = entry["target"]]
  /\ ctime' = [ctime EXCEPT ![entry["target"]] = @ + 1]
  /\ UNCHANGED <<data, stamp, removed, used>>

OtherRemoves ==
  /\ Other
  /\ entry["target"] # Gone
  /\ entry' = [entry EXCEPT !["target"] = Gone]
  /\ removed' = TRUE
  /\ UNCHANGED <<data, stamp, ctime, used>>

SaveStep ==
  \/ Stat \/ Open \/ Create \/ Stream \/ Publish \/ Validate \/ Exchange
  \/ Displaced \/ Unlink \/ Rollback \/ Truncate \/ Refill \/ Unstage \/ Discard

OtherProcess ==
  \/ \E d \in Documents : OtherReplaces(d) \/ OtherRewrites(d)
  \/ OtherChangesMode \/ OtherLinks \/ OtherRemoves

SaveNext == SaveStep \/ Crash \/ OtherProcess

SaveSpec == SaveInit /\ [][SaveNext]_saveVars

-----------------------------------------------------------------------------
(* Properties. *)

\* Types, and the save is over exactly when it has returned something.
SaveTypeOK ==
  /\ entry \in [Names -> Inode \cup {Gone}]
  /\ data \in [Inode -> Data]
  /\ stamp \in [Inode -> Nat] /\ ctime \in [Inode -> Nat]
  /\ staged \in {"None", "Owned", "Committed", "KeptAsRecoveryEvidence"}
  /\ result \in {"None", "Ok", "Err"}
  /\ external \in 0..MaxExternal /\ used \subseteq Documents
  /\ pc = "done" <=> result # "None"

\* Nobody who opens a single-link target ever finds it empty or half written,
\* whatever call fails and whenever the process dies.
TargetNeverTorn ==
  entry["target"] # Gone /\ ~HardLinked => data[entry["target"]] \notin Torn

\* A document that was there and that nobody else removed is never gone
\* altogether: a complete one is at the target or in the staged file, even in
\* the middle of an in-place update of a hard-linked file.
CompleteCopyExists ==
  started["target"] # Gone /\ ~removed =>
    \E n \in {"target", "temp"} : entry[n] # Gone /\ data[entry[n]] \notin Torn

\* Whatever fails and whenever the process dies, what the user had is there whole.
TargetIntact == SaveTypeOK /\ TargetNeverTorn /\ CompleteCopyExists

\* A save that reports success over a single-link file has removed the very
\* document it inspected and no other: what another process put there in
\* between makes it fail.
SuccessReplacesInspected ==
  result = "Ok" /\ ~HardLinked => destroyed \subseteq inspected

\* A save that reports an error, left alone by others, has not saved: the
\* target is what it was, unless the error says that evidence was kept; and
\* what an error calls kept is there.
ErrorsAreTrue ==
  /\ result = "Err" /\ external = 0 /\ ~HardLinked /\ staged # "KeptAsRecoveryEvidence"
       => entry["target"] = started["target"]
  /\ pc = "done" /\ staged = "KeptAsRecoveryEvidence" => entry["temp"] # Gone

\* The checks do not trip over the save's own traces: with no other process
\* and no failing call, it succeeds and cleans up after itself.
UndisturbedSaveSucceeds ==
  pc = "done" /\ external = 0 /\ ~faulted =>
    /\ result = "Ok" /\ entry["temp"] = Gone
    /\ entry["target"] # Gone /\ data[entry["target"]] = "new"

\* What a save returns is what has happened to the file.
ReportsAreTrue == ErrorsAreTrue /\ UndisturbedSaveSucceeds
=============================================================================
