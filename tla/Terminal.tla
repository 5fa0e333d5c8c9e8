------------------------------ MODULE Terminal ------------------------------
(***************************************************************************)
(* The terminal session (terminal/session.rs, terminal/mod.rs,             *)
(* terminal/signal.rs) and the event loop that it brackets                 *)
(* (app/runtime.rs).  "reports" stands for the mouse, focus and paste      *)
(* reports.  Keyboard flags live on the screen they were pushed on, as in  *)
(* the terminals that have them.  A write that fails has no effect.        *)
(***************************************************************************)
EXTENDS Naturals, Sequences

CONSTANTS
  Sizes,      \* sizes of the window
  MaxResizes  \* how often the user changes it

ASSUME TerminalAssumption == Sizes # {} /\ MaxResizes \in Nat

\* enable_output_modes, in its order, after raw mode
Setup == <<"raw", "alternate", "title", "kitty", "format", "xterm", "reports">>
Keys  == {"kitty", "xterm", "format"}
Writes == {"recovery", "reports", "xterm", "format", "kitty", "alternate", "title"}

VARIABLES
  step,       \* where the session is
  progress,   \* how many of Setup have been done
  modes,      \* what the terminal has switched on
  flagged,    \* the screens that have the editor's keyboard flags
  active,     \* active_modes: what restore() believes it has to undo
  panicked,   \* "no", "worker" (recorded by the hook), "session"
  signal,     \* TERMINATION_SIGNAL
  pending,    \* RESIZE_PENDING
  size, screen, \* the size of the window, and the editor's idea of it
  resizes,
  clean, shown  \* history: no write of the last attempt failed; where the worker's panic was printed

terminal == <<modes, flagged, active>>
window   == <<pending, size, screen, resizes>>
termVars == <<step, progress, terminal, panicked, signal, window, clean, shown>>

TerminalInit ==
  /\ step = "setup" /\ progress = 0 /\ modes = {} /\ flagged = {} /\ active = {}
  /\ panicked = "no" /\ signal = "none" /\ pending = FALSE
  /\ size \in Sizes /\ screen = size /\ resizes = 0 /\ clean = TRUE /\ shown = "nowhere"

Screen(on) == IF "alternate" \in on THEN "alternate" ELSE "main"

\* TerminalGuard::setup: a mode is marked once its sequence is written; the reports
\* have no mark, since restore() always ends them.
Enable ==
  /\ step = "setup"
  /\ LET m == Setup[progress + 1] IN
     \/ /\ modes' = modes \cup {m} /\ progress' = progress + 1
        /\ active' = active \cup ({m} \ {"reports"})
        /\ flagged' = IF m = "kitty" THEN flagged \cup {Screen(modes)} ELSE flagged
        /\ step' = IF progress' = Len(Setup) THEN "top" ELSE "setup"
     \/ step' = "drop_guard" /\ UNCHANGED <<terminal, progress>>
  /\ UNCHANGED <<panicked, signal, window, clean, shown>>

-----------------------------------------------------------------------------
LeavesAnyway(failed, left) == "alternate" \in active \ failed

\* TerminalRestorer::restore with restore_output_modes; `failed` are the writes
\* that fail.  The alternate screen is left only once the keys are back.
LeavesScreen(failed, left) == left \cap Keys = {} /\ "alternate" \in active \ failed

Undo(failed) ==
  LET keysLeft == active \cap (failed \ {"alternate", "title"})
      leaves   == LeavesScreen(failed, keysLeft)
      left     == IF "recovery" \in failed THEN active
                  ELSE keysLeft \cup (active \cap failed \cap {"title"})
                       \cup (IF leaves THEN {} ELSE active \cap {"alternate"})
  IN /\ active' = left \ {"raw"}
     /\ modes' = modes \ ({"raw"} \cup (active \ left)
                          \cup (IF failed \cap {"recovery", "reports"} = {} THEN {"reports"} ELSE {}))
     /\ flagged' = IF "kitty" \in active \ left THEN flagged \ {Screen(modes)} ELSE flagged
     /\ clean' = (failed = {})

Restore ==
  \/ active = {} /\ UNCHANGED <<terminal, clean>>
  \/ active # {} /\ \E failed \in SUBSET Writes : Undo(failed)

-----------------------------------------------------------------------------
\* run_with_startup_config.  What is done between two looks at the signal may fail,
\* and returns through the guards' Drop.
Top ==
  /\ step = "top"
  /\ IF signal # "none" THEN step' = "restore" /\ UNCHANGED pending
     ELSE step' = (IF pending THEN "size" ELSE "poll") /\ pending' = FALSE
  /\ UNCHANGED <<progress, terminal, panicked, signal, size, screen, resizes, clean, shown>>

ReadSize ==
  /\ step = "size"
  /\ screen' = size /\ step' \in {"poll", "drop_hook"}
  /\ UNCHANGED <<progress, terminal, panicked, signal, pending, size, resizes, clean, shown>>

PollClearsFlag ==
  /\ step = "poll" /\ pending' = FALSE
  /\ step' \in {"top", "restore", "drop_hook"}
  /\ UNCHANGED <<progress, terminal, panicked, signal, size, screen, resizes, clean, shown>>

\* poll_runtime_tasks, then an event, if there is one, which may be the quit key
Poll ==
  /\ step = "poll"
  /\ step' \in {"top", "restore", "drop_hook"}
  /\ UNCHANGED <<progress, terminal, panicked, signal, window, clean, shown>>

\* terminal_guard.restore at the end of the loop
Leave ==
  /\ step = "restore" /\ Restore /\ step' = "drop_hook"
  /\ UNCHANGED <<progress, panicked, signal, window, shown>>

\* The hook restores when the session's own thread panics, which then unwinds.
Panic ==
  /\ step \in {"size", "poll"} /\ panicked # "session"
  /\ Restore /\ step' = "drop_guard" /\ panicked' = "session"
  /\ UNCHANGED <<progress, signal, window, shown>>

\* A worker that panics is only written down; the first one is kept.
WorkerPanic ==
  /\ step \in {"top", "size", "poll"} /\ panicked = "no" /\ panicked' = "worker"
  /\ UNCHANGED <<step, progress, terminal, signal, window, clean, shown>>

\* Drop of the PanicRestoreGuard, then of the TerminalGuard
DropHook ==
  /\ step = "drop_hook" /\ step' = "drop_guard"
  /\ IF panicked = "worker" THEN Restore /\ shown' = IF clean' THEN Screen(modes') ELSE "anywhere"
                            ELSE UNCHANGED <<terminal, clean, shown>>
  /\ UNCHANGED <<progress, panicked, signal, window>>

DropGuard ==
  /\ step = "drop_guard" /\ step' = "gone" /\ Restore
  /\ UNCHANGED <<progress, panicked, signal, window, shown>>

-----------------------------------------------------------------------------
\* record_termination keeps the first signal; record_resize raises the flag.
Terminate ==
  /\ step # "gone" /\ signal = "none" /\ signal' = "term"
  /\ UNCHANGED <<step, progress, terminal, panicked, window, clean, shown>>

Resize ==
  /\ step # "gone" /\ resizes < MaxResizes /\ resizes' = resizes + 1
  /\ size' \in Sizes \ {size} /\ pending' = TRUE
  /\ UNCHANGED <<step, progress, terminal, panicked, signal, screen, clean, shown>>

SessionStep == Enable \/ Top \/ ReadSize \/ Poll \/ Leave \/ DropHook \/ DropGuard

TerminalNext == SessionStep \/ Panic \/ WorkerPanic \/ Terminate \/ Resize

TerminalSpec == TerminalInit /\ [][TerminalNext]_termVars /\ WF_termVars(SessionStep)

-----------------------------------------------------------------------------
TerminalTypeOK ==
  /\ modes \subseteq {Setup[i] : i \in DOMAIN Setup} /\ active \subseteq modes
  /\ flagged \subseteq {"main", "alternate"} /\ {size, screen} \subseteq Sizes

\* The keyboard flags are taken back on the screen they were pushed on, whatever
\* fails and however often restore() is tried: the alternate screen never disappears
\* with them, and the flags of the parent's screen are never touched.
FlagsStayOnTheirScreen == flagged \subseteq {Screen(modes)} /\ flagged \subseteq {"alternate"}

\* A session that ends has given back every mode, unless a write of its last attempt
\* failed: a failure that passes is repaired by the next attempt, in the panic hook or
\* in either Drop.  The reports have no mark, so a failure to end them is not tried
\* again once all else is restored.  Raw mode goes in any case.
GivenBack ==
  step = "gone" => /\ "raw" \notin modes
                   /\ clean => modes = {} /\ flagged = {}

\* While the editor is on the screen nothing restores it, whatever its workers do, and
\* what a worker's panic said is printed on the user's own screen unless a write failed.
SessionUndisturbed ==
  /\ step \in {"top", "size", "poll"} => modes = {Setup[i] : i \in DOMAIN Setup}
  /\ shown # "alternate"

TerminalRestored == TerminalTypeOK /\ FlagsStayOnTheirScreen /\ GivenBack /\ SessionUndisturbed

\* A signal ends the session and a change of the window's size reaches the editor,
\* whenever in the loop they come.
EventsAreSeen ==
  /\ signal # "none" ~> step = "gone"
  /\ \A s \in Sizes : size = s ~> screen = s \/ size # s \/ step \notin {"setup", "top", "size", "poll"}
=============================================================================
