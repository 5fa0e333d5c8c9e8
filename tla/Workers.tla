-------------------------------- MODULE Workers --------------------------------
(***************************************************************************)
(* The external programs an editor has running beside the text: a command  *)
(* with the preview of its output (app/external_command.rs and its         *)
(* preview.rs), the chains of hooks that a load and every save start       *)
(* (app/hooks.rs) and the linter (app/lint.rs), for one named buffer that  *)
(* is edited, saved and reloaded meanwhile, over a file that other         *)
(* processes write.                                                        *)
(*                                                                         *)
(* The main loop polls the watcher, the linter, the command and then the   *)
(* hooks before every event of the user (runtime.rs), so the user acts     *)
(* only when no hook is left to start: Polled.  While a command runs or is *)
(* on screen the keys of the preview are bound instead of the editor's: no *)
(* save, no prompt, no other buffer, but typing and help.                  *)
(***************************************************************************)
EXTENDS Integers, Sequences

CONSTANTS
  Texts,          \* what a text can be
  OnOpen,         \* how many hooks [hooks] names for a file that is opened
  OnSave,         \* and for one that is saved
  MaxGeneration,  \* bound on the changes of the text
  MaxVersion,     \* bound on the writes of the file
  MaxChain        \* bound on the chains of hooks that are started

ASSUME WorkersAssumption ==
  /\ Texts # {} /\ {OnOpen, OnSave, MaxGeneration} \subseteq Nat
  /\ {MaxVersion, MaxChain} \subseteq Nat \ {0}

VARIABLES
  disk,        \* the file: what it holds and which write that was
  text,        \* what the buffer holds
  revision,    \* Buffer::content_revision
  generation,  \* FileState.content_generation
  dirtyText,    \* FileState.dirty
  saved,       \* the disk of the last load or save: FileState.disk_snapshot
  help,        \* whether the help view has the focus
  running,     \* ExternalCommandState.running
  preview,     \* the CommandPreview on screen
  queue,       \* HookState.queue
  activeHook,  \* HookState.active
  lint,        \* LintState.running, with what the linter has read
  results,     \* LintState.results, with the text they are about
  chain,       \* history variable: the newest chain
  succeeded,   \* history variable: the hooks that ran and succeeded
  helped       \* history variable: the chains that help interrupted

textAndFile == <<text, revision, generation, dirtyText, saved>>
command  == <<running, preview>>
hooks    == <<queue, activeHook, chain, succeeded, helped>>
linter   == <<lint, results>>
workersVars == <<disk, textAndFile, help, command, hooks, linter>>

None   == [is |-> "none"]
Unread == [is |-> "unread"]
Busy   == running # None \/ preview # None      \* is_busy
Polled == Busy \/ activeHook # None \/ queue = <<>>

\* Where the keys of the editor are bound (input/scope.rs).
InEditor == Polled /\ ~help /\ ~Busy

Chain(c, n) == [k \in 1 .. n |-> [is |-> "hook", chain |-> c, link |-> k]]

WorkersInit ==
  /\ \E t \in Texts : disk = [text |-> t, version |-> 1]
  /\ text = disk.text /\ saved = disk
  /\ revision = 0 /\ generation = 0 /\ dirtyText = FALSE /\ help = FALSE
  /\ running = None /\ preview = None /\ activeHook = None
  /\ queue = Chain(1, OnOpen) /\ chain = 1
  /\ succeeded = {} /\ helped = {}
  /\ lint = None /\ results = None

-----------------------------------------------------------------------------
(* The text and the file.                                                  *)

Invalidate == lint' = None /\ results' = None

Generation == generation < MaxGeneration /\ generation' = generation + 1

\* record_content_edit after a change of the buffer: only an undo or a redo
\* back to the saved position makes it clean.
Change(t) ==
  /\ Generation
  /\ revision' = revision + 1
  /\ text' = t
  /\ dirtyText' \in {TRUE} \cup {FALSE : x \in {saved.text} \cap {t}}
  /\ UNCHANGED saved
  /\ Invalidate

\* Typing, a paste, undo: also one that leaves the text as it is.  The keys
\* that are not bound reach the text while a command runs.
EditText ==
  /\ Polled /\ ~help /\ preview = None
  /\ \/ \E t \in Texts \ {text} : Change(t)
     \/ /\ Generation
        /\ Invalidate
        /\ UNCHANGED <<text, revision, dirtyText, saved>>
  /\ UNCHANGED <<disk, help, command, hooks>>

\* A save that succeeds, confirmed if there was a conflict.
SaveFile ==
  /\ InEditor
  /\ disk.version < MaxVersion /\ chain < MaxChain
  /\ disk' = [text |-> text, version |-> disk.version + 1]
  /\ saved' = disk' /\ dirtyText' = FALSE
  /\ chain' = chain + 1
  /\ queue' = queue \o Chain(chain', OnSave)
  /\ UNCHANGED <<text, revision, generation, help, command,
                 activeHook, succeeded, helped, linter>>

\* A new buffer starts its revisions again; its generation goes on.
Reload ==
  /\ Generation
  /\ text' = disk.text /\ saved' = disk
  /\ revision' = 0 /\ dirtyText' = FALSE
  /\ Invalidate
  /\ UNCHANGED <<disk, help, command, hooks>>

ReloadKey == InEditor /\ disk # saved /\ Reload

\* A change on disk is noticed: a clean buffer is reloaded where auto_reload
\* is on, whatever has the focus.
Watch ==
  /\ disk # saved
  /\ \/ ~dirtyText /\ Reload
     \/ /\ Invalidate
        /\ UNCHANGED <<disk, textAndFile, help, command, hooks>>

WriteDisk ==
  /\ disk.version < MaxVersion
  /\ \E t \in Texts : disk' = [text |-> t, version |-> disk.version + 1]
  /\ UNCHANGED <<textAndFile, help, command, hooks, linter>>

-----------------------------------------------------------------------------
(* Commands.                                                               *)

\* ExternalCommandTask::start with a snapshot of the source, for a command
\* whose output is an edit (target) or only shown; source is a history field,
\* as is hook, the link that started it.
Start(hook) ==
  \E target \in BOOLEAN :
    running' = [is |-> "running", hook |-> hook, target |-> target,
                revision |-> revision, generation |-> generation,
                source |-> text]

FinishAndKeepQueue(cmd, ok) ==
  /\ activeHook' = None
  /\ succeeded' = succeeded \cup {h \in {cmd.hook} \ {None} : ok}
  /\ UNCHANGED <<queue, chain, helped>>

\* hooks::finish_command, and whether the command was a hook that succeeded.
FinishCommand(cmd, ok) ==
  /\ activeHook' = None
  /\ queue' = IF activeHook # None /\ ~ok THEN <<>> ELSE queue
  /\ succeeded' = succeeded \cup {h \in {cmd.hook} \ {None} : ok}
  /\ UNCHANGED <<chain, helped>>

\* `:run`; one that cannot start changes nothing.
Run ==
  /\ InEditor
  /\ Start(None)
  /\ UNCHANGED <<disk, textAndFile, help, preview, hooks, linter>>

\* poll: the output goes to the preview, and can be applied only when it is
\* complete and the command succeeded.
PollFinished ==
  /\ running # None
  /\ running' = None
  /\ \E ok \in BOOLEAN, output \in Texts :
       preview' = [is |-> "preview", hook |-> running.hook, ok |-> ok,
                   target |-> running.target /\ ok, output |-> output,
                   revision |-> running.revision,
                   generation |-> running.generation,
                   source |-> running.source]
  /\ help' = FALSE
  /\ UNCHANGED <<disk, textAndFile, hooks, linter>>

\* A command that timed out or could not be run, and Esc.
EndTask ==
  /\ running # None
  /\ running' = None
  /\ FinishCommand(running, FALSE)
  /\ UNCHANGED <<disk, textAndFile, help, preview, linter>>

CurrentRevision(cmd) == cmd.revision = revision

Current(cmd) == cmd.revision = revision /\ cmd.generation = generation

\* Enter in the preview (apply_or_close).
Accept ==
  /\ preview # None
  /\ preview' = None
  /\ \/ /\ ~preview.target
        /\ FinishCommand(preview, preview.ok)
        /\ UNCHANGED <<textAndFile, linter>>
     \/ /\ preview.target /\ ~Current(preview)
        /\ FinishCommand(preview, FALSE)
        /\ UNCHANGED <<textAndFile, linter>>
     \/ /\ preview.target /\ Current(preview)
        /\ FinishCommand(preview, TRUE)
        /\ \/ Change(preview.output)
           \/ preview.output = text /\ UNCHANGED <<textAndFile, linter>>
  /\ UNCHANGED <<disk, help, running>>

\* Esc in the preview.
Reject ==
  /\ preview # None
  /\ preview' = None
  /\ FinishCommand(preview, FALSE)
  /\ UNCHANGED <<disk, textAndFile, help, running, linter>>

\* The help key is bound everywhere; it ends the command and its preview, and
\* says nothing to the hooks.
Help ==
  /\ Polled
  /\ help' = ~help
  /\ running' = None /\ preview' = None
  /\ helped' = helped \cup {cmd.hook.chain :
                 cmd \in {c \in {running, preview} \ {None} : c.hook # None}}
  /\ UNCHANGED <<disk, textAndFile, queue, activeHook, chain, succeeded, linter>>

\* hooks::pump: a hook that does not start ends the chain.
Pump ==
  /\ activeHook = None /\ ~Busy /\ queue # <<>>
  /\ \/ /\ activeHook' = Head(queue) /\ queue' = Tail(queue)
        /\ Start(Head(queue))
     \/ /\ activeHook' = None /\ queue' = <<>>
        /\ UNCHANGED running
  /\ UNCHANGED <<disk, textAndFile, help, preview, chain, succeeded, helped, linter>>

-----------------------------------------------------------------------------
(* The linter, which reads the file and not the buffer.                    *)

StartLint ==
  /\ InEditor
  /\ ~dirtyText /\ disk = saved
  /\ lint' = [is |-> "running", disk |-> saved, generation |-> generation,
              read |-> Unread]
  /\ results' = None
  /\ UNCHANGED <<disk, textAndFile, help, command, hooks>>

\* The linter reads the file at any time, and as often as it likes.
LinterReads ==
  /\ lint # None
  /\ lint' = [lint EXCEPT !.read = disk]
  /\ UNCHANGED <<disk, textAndFile, help, command, hooks, results>>

PollLintUnchecked ==
  /\ lint # None /\ lint.read # Unread
  /\ lint' = None
  /\ results' = IF lint.generation = generation
                THEN [is |-> "findings", generation |-> lint.generation,
                      text |-> lint.read.text]
                ELSE results
  /\ UNCHANGED <<disk, textAndFile, help, command, hooks>>

\* run_is_current and the check that the file is the one that was linted.
PollLint ==
  /\ lint # None /\ lint.read # Unread
  /\ lint' = None
  /\ results' = IF lint.generation = generation /\ lint.disk = disk
                THEN [is |-> "findings", generation |-> lint.generation,
                      text |-> lint.read.text]
                ELSE results
  /\ UNCHANGED <<disk, textAndFile, help, command, hooks>>

\* Esc, and a linter that fails or prints too much.
EndLint ==
  /\ lint # None
  /\ lint' = None
  /\ UNCHANGED <<disk, textAndFile, help, command, hooks, results>>

WorkersNext ==
  \/ EditText \/ SaveFile \/ ReloadKey \/ Watch \/ WriteDisk
  \/ Run \/ PollFinished \/ EndTask \/ Accept \/ Reject \/ Help \/ Pump
  \/ StartLint \/ LinterReads \/ PollLint \/ EndLint

WorkersSpec == WorkersInit /\ [][WorkersNext]_workersVars

-----------------------------------------------------------------------------
(* Properties.                                                             *)

Disks == [text : Texts, version : 1 .. MaxVersion]
Links == [is : {"hook"}, chain : 1 .. MaxChain, link : Nat \ {0}]

\* The state is well formed: a preview, a running command and the help view
\* never share the screen, a clean buffer holds what was last loaded or saved,
\* and the hook that is active is the command on hand unless help ended it.
WorkersTypeOK ==
  /\ disk \in Disks /\ saved \in Disks /\ text \in Texts
  /\ revision \in 0 .. generation /\ generation \in 0 .. MaxGeneration
  /\ dirtyText \in BOOLEAN /\ help \in BOOLEAN
  /\ activeHook \in Links \cup {None} /\ queue \in Seq(Links)
  /\ running = None \/ preview = None
  /\ help => ~Busy
  /\ ~dirtyText => text = saved.text
  /\ activeHook # None =>
       \/ activeHook.chain \in helped
       \/ running # None /\ running.hook = activeHook
       \/ preview # None /\ preview.hook = activeHook

\* Output is applied over the very text the command was started on, though the
\* text may have been edited, undone or reloaded while it ran and while it was
\* previewed (preview.rs:4, source drift refuses it).
AppliedOverSource ==
  [][preview # None /\ preview' = None /\ generation' # generation
       => text = preview.source]_workersVars

\* A hook starts only when the one before it in its chain has run and
\* succeeded (hooks.rs:4), unless help interrupted the chain.
Follows(hook) ==
  hook.link > 1 => [hook EXCEPT !.link = hook.link - 1] \in succeeded

ChainInOrder ==
  [][running' # running /\ running' # None /\ running'.hook # None
       => \/ Follows(running'.hook)
          \/ running'.hook.chain \in helped]_workersVars

\* The same of every chain: "failure/cancellation aborts the remaining chain"
\* (hooks.rs:4).  Help ends the command of a hook and leaves its chain to the
\* next command of the user that succeeds.
CancelledChainStops ==
  [][running' # running /\ running' # None /\ running'.hook # None
       => Follows(running'.hook)]_workersVars

\* The findings on screen are about the text on screen, though the linter
\* reads the file, which others write while it runs (lint.rs:4).
LintIsCurrent ==
  /\ WorkersTypeOK
  /\ results # None /\ results.generation = generation => results.text = text
=============================================================================
