----------------------------- MODULE ExternalTask -----------------------------
(***************************************************************************)
(* One external command: the worker thread that spawns and awaits the      *)
(* child, the threads that feed its input and capture its output, and the  *)
(* editor that polls the result or drops the task (external/task.rs,       *)
(* process_pipe.rs).  The child may leave a process in its group, or one   *)
(* that escapes the group, and either holds the pipes open.                *)
(*                                                                         *)
(* Input and output are counted in chunks.  One output stream stands for   *)
(* stdout and stderr, whose readers are the same code.                     *)
(***************************************************************************)
EXTENDS Naturals, Sequences

CONSTANTS
  Input,      \* chunks of input
  Capacity,   \* what a pipe holds
  Limit,      \* MAX_STREAM_BYTES
  Cleanup,    \* CLEANUP_DRAIN_BYTES
  MaxOutput   \* bound on what the child writes

ASSUME ExternalTaskAssumption ==
  /\ {Input, Capacity, Limit, Cleanup, MaxOutput} \subseteq Nat
  /\ Capacity <= Cleanup   \* a pipe holds less than a reader drains

VARIABLES
  task,      \* the editor's side: "held", "dropping" (joining) or "gone"
  cancel,    \* the flag a drop sets
  worker,    \* the next step of the worker thread
  outcome,   \* what wait_for_exit returned
  result,    \* what was sent, or "none"
  expired,   \* whether the deadline is past
  child,     \* "unborn", "running", "zombie" or "reaped"
  group,     \* another process in the group: "none", "alive" or "killed"
  escaped,   \* whether a process outside the group holds the pipes
  writer,    \* the input thread: its next step, or how it ended
  unwritten, \* chunks not yet written
  stdin,     \* chunks in the input pipe
  stdout,    \* the output pipe: the child's chunks by their number, 0 for another's
  reader,    \* the output thread: [at, stopping, left, captured, truncated]
  stop,      \* the stop flags of the two threads
  wrote      \* history variable: chunks the child has written

processes == <<child, group, escaped, wrote>>
pipes     == <<unwritten, stdin, stdout>>
threads   == <<writer, reader, stop>>
editor    == <<task, cancel>>
waiting   == <<worker, outcome, result, expired>>
taskVars  == <<editor, waiting, processes, pipes, threads>>

Ended == {"ok", "broken", "stopped"}

\* Somebody has the other end of the pipes open.
Alive == child = "running" \/ group # "none" \/ escaped

-----------------------------------------------------------------------------
TaskInit ==
  /\ task = "held" /\ cancel = FALSE
  /\ worker = "spawn" /\ outcome = "none" /\ result = "none" /\ expired = FALSE
  /\ child = "unborn" /\ group = "none" /\ escaped = FALSE /\ wrote = 0
  /\ unwritten = Input /\ stdin = 0 /\ stdout = <<>>
  /\ writer = "unborn"
  /\ reader = [at |-> "unborn", stopping |-> FALSE, left |-> Cleanup,
               captured |-> <<>>, truncated |-> FALSE]
  /\ stop = [writer |-> FALSE, reader |-> FALSE]

-----------------------------------------------------------------------------
(* The worker thread: run_command. *)

Send(r) == worker' = "ended" /\ result' = r

Spawn ==
  /\ worker = "spawn"
  /\ \/ /\ worker' = "check_cancel" /\ child' = "running"
        /\ writer' = "check" /\ reader' = [reader EXCEPT !.at = "check"]
        /\ UNCHANGED <<outcome, result, expired, group, escaped, wrote, stop>>
     \/ /\ Send("Error")          \* the shell, or a pipe thread, does not start
        /\ child' \in {"unborn", "reaped"}
        /\ UNCHANGED <<outcome, expired, group, escaped, wrote, threads>>
  /\ UNCHANGED <<editor, pipes>>

\* kill_process_group, kill and wait.
KillGroup ==
  /\ child' = "reaped"
  /\ group' = IF group = "alive" THEN "killed" ELSE group

EndWait(how) == outcome' = how /\ worker' = "join_writer"

CheckCancel ==
  /\ worker = "check_cancel"
  /\ IF cancel THEN EndWait("Cancelled") /\ KillGroup
     ELSE worker' = "check_deadline" /\ UNCHANGED <<outcome, child, group>>
  /\ UNCHANGED <<editor, result, expired, escaped, wrote, pipes, threads>>

CheckDeadline ==
  /\ worker = "check_deadline"
  /\ IF expired THEN EndWait("TimedOut") /\ KillGroup
     ELSE worker' = "try_wait" /\ UNCHANGED <<outcome, child, group>>
  /\ UNCHANGED <<editor, result, expired, escaped, wrote, pipes, threads>>

\* try_wait; the exit of the child takes its process group with it.
TryWaitAlone ==
  /\ worker = "try_wait"
  /\ IF child = "zombie" THEN EndWait("Exited") /\ child' = "reaped"
     ELSE worker' = "check_cancel" /\ UNCHANGED <<outcome, child>>
  /\ UNCHANGED <<editor, result, expired, group, escaped, wrote, pipes, threads>>
TryWait ==
  /\ worker = "try_wait"
  /\ IF child = "zombie" THEN EndWait("Exited") /\ KillGroup
     ELSE \/ worker' = "check_cancel" /\ UNCHANGED <<outcome, child, group>>
          \/ EndWait("Error") /\ KillGroup    \* the wait itself fails
  /\ UNCHANGED <<editor, result, expired, escaped, wrote, pipes, threads>>

\* PipeWorker::finish, of the writer and then of the reader.
StopWriter ==
  /\ worker = "join_writer" /\ ~stop.writer
  /\ stop' = [stop EXCEPT !.writer = TRUE]
  /\ UNCHANGED <<editor, waiting, processes, pipes, writer, reader>>
JoinWriter ==
  /\ worker = "join_writer" /\ stop.writer /\ writer \in Ended
  /\ worker' = "join_reader" /\ stop' = [stop EXCEPT !.reader = TRUE]
  /\ UNCHANGED <<editor, outcome, result, expired, processes, pipes, writer, reader>>

\* A command that did not read all its input is still a finished command.
JoinReader ==
  /\ worker = "join_reader" /\ reader.at = "ended"
  /\ Send(IF outcome # "Exited" THEN outcome
          ELSE IF writer = "stopped" THEN "Error" ELSE "Finished")
  /\ UNCHANGED <<editor, outcome, expired, processes, pipes, threads>>

-----------------------------------------------------------------------------
(* spawn_writer: the stop flag is read before every write. *)

CheckWriter ==
  /\ writer = "check"
  /\ writer' = IF unwritten = 0 THEN "ok" ELSE IF stop.writer THEN "stopped" ELSE "write"
  /\ UNCHANGED <<editor, waiting, processes, pipes, reader, stop>>

\* A full pipe sends the writer back to its check, with or without a wait.
WriteInput ==
  /\ writer = "write"
  /\ writer' = IF Alive THEN "check" ELSE "broken"
  /\ IF Alive /\ stdin < Capacity
     THEN stdin' = stdin + 1 /\ unwritten' = unwritten - 1
     ELSE UNCHANGED <<stdin, unwritten>>
  /\ UNCHANGED <<editor, waiting, processes, stdout, reader, stop>>

-----------------------------------------------------------------------------
(* spawn_reader, which drains what is left when it is told to stop. *)

CheckReaderAndEnd ==
  /\ reader.at = "check"
  /\ reader' = [reader EXCEPT !.at = IF stop.reader THEN "ended" ELSE "read"]
  /\ UNCHANGED <<editor, waiting, processes, pipes, writer, stop>>
CheckReader ==
  /\ reader.at = "check"
  /\ reader' = [reader EXCEPT
       !.stopping = stop.reader,
       !.at = IF stop.reader /\ reader.left = 0 THEN "ended" ELSE "read"]
  /\ UNCHANGED <<editor, waiting, processes, pipes, writer, stop>>

\* A chunk beyond the limit is read and dropped.
KeptOutput(r, chunk) ==
  IF Len(r.captured) < Limit THEN [r EXCEPT !.captured = Append(@, chunk)]
  ELSE [r EXCEPT !.truncated = TRUE]

ReadOutputForever ==
  /\ reader.at = "read"
  /\ IF stdout # <<>>
     THEN /\ stdout' = Tail(stdout)
          /\ reader' = [KeptOutput(reader, Head(stdout)) EXCEPT !.at = "check"]
     ELSE /\ UNCHANGED stdout
          /\ reader' = [reader EXCEPT !.at = IF reader.stopping \/ ~Alive THEN "ended"
                                             ELSE "check"]
  /\ UNCHANGED <<editor, waiting, processes, unwritten, stdin, writer, stop>>

ReadOutput ==
  /\ reader.at = "read"
  /\ IF stdout # <<>>
     THEN /\ stdout' = Tail(stdout)
          /\ reader' = [KeptOutput(reader, Head(stdout)) EXCEPT
               !.left = IF reader.stopping THEN @ - 1 ELSE @, !.at = "check"]
     ELSE /\ UNCHANGED stdout
          /\ reader' = [reader EXCEPT !.at = IF reader.stopping \/ ~Alive THEN "ended"
                                             ELSE "check"]
  /\ UNCHANGED <<editor, waiting, processes, unwritten, stdin, writer, stop>>

-----------------------------------------------------------------------------
(* The editor. *)

\* try_result, after which the task is dropped.
Collect ==
  /\ task = "held" /\ result # "none"
  /\ task' = "dropping" /\ cancel' = TRUE
  /\ UNCHANGED <<waiting, processes, pipes, threads>>

\* Escape, a buffer switch, or the end of the editor.
Drop ==
  /\ task = "held" /\ result = "none"
  /\ task' = "dropping" /\ cancel' = TRUE
  /\ UNCHANGED <<waiting, processes, pipes, threads>>

Joined ==
  /\ task = "dropping" /\ worker = "ended"
  /\ task' = "gone"
  /\ UNCHANGED <<cancel, waiting, processes, pipes, threads>>

-----------------------------------------------------------------------------
(* The command and the kernel. *)

DeadlinePasses ==
  /\ ~expired /\ expired' = TRUE
  /\ UNCHANGED <<editor, worker, outcome, result, processes, pipes, threads>>

Fork ==
  /\ child = "running"
  /\ \/ group = "none" /\ group' = "alive" /\ UNCHANGED escaped
     \/ ~escaped /\ escaped' = TRUE /\ UNCHANGED group
  /\ UNCHANGED <<editor, waiting, child, wrote, pipes, threads>>

ReadInput ==
  /\ Alive /\ stdin > 0 /\ stdin' = stdin - 1
  /\ UNCHANGED <<editor, waiting, processes, unwritten, stdout, threads>>

ChildWrites ==
  /\ child = "running" /\ Len(stdout) < Capacity /\ wrote < MaxOutput
  /\ wrote' = wrote + 1 /\ stdout' = Append(stdout, wrote')
  /\ UNCHANGED <<editor, waiting, child, group, escaped, unwritten, stdin, threads>>

OthersWrite ==
  /\ group = "alive" \/ escaped
  /\ Len(stdout) < Capacity
  /\ stdout' = Append(stdout, 0)
  /\ UNCHANGED <<editor, waiting, processes, unwritten, stdin, threads>>

Exit ==
  /\ child = "running" /\ child' = "zombie"
  /\ UNCHANGED <<editor, waiting, group, escaped, wrote, pipes, threads>>

\* A process of the group ends by itself or because it was killed.
GroupEnds ==
  /\ group # "none" /\ group' = "none"
  /\ UNCHANGED <<editor, waiting, child, escaped, wrote, pipes, threads>>

EscapedEnds ==
  /\ escaped /\ escaped' = FALSE
  /\ UNCHANGED <<editor, waiting, child, group, wrote, pipes, threads>>

Worker ==
  \/ Spawn \/ CheckCancel \/ CheckDeadline \/ TryWait
  \/ StopWriter \/ JoinWriter \/ JoinReader
Writer == CheckWriter \/ WriteInput
Reader == CheckReader \/ ReadOutput
Command ==
  \/ Fork \/ ReadInput \/ ChildWrites \/ OthersWrite \/ Exit \/ GroupEnds \/ EscapedEnds

TaskNext ==
  \/ Worker \/ Writer \/ Reader
  \/ Collect \/ Drop \/ Joined
  \/ DeadlinePasses \/ Command

TaskSpec == TaskInit /\ [][TaskNext]_taskVars

\* Threads run and time passes; of the command nothing is assumed.
FairTaskSpec ==
  /\ TaskSpec
  /\ WF_taskVars(Worker) /\ WF_taskVars(Writer) /\ WF_taskVars(Reader)
  /\ WF_taskVars(DeadlinePasses) /\ WF_taskVars(Joined)

-----------------------------------------------------------------------------
(* Properties. *)

TaskTypeOK ==
  /\ task \in {"held", "dropping", "gone"} /\ cancel = (task # "held")
  /\ child \in {"unborn", "running", "zombie", "reaped"}
  /\ group \in {"none", "alive", "killed"}
  /\ stdin \in 0..Capacity /\ Len(stdout) <= Capacity /\ unwritten \in 0..Input
  /\ reader.left \in 0..Cleanup /\ Len(reader.captured) <= Limit
  /\ result \in {"none", "Finished", "Cancelled", "TimedOut", "Error"}
  /\ writer \in Ended \cup {"unborn", "check", "write"}

\* "cancellation or timeout kills and reaps the Unix process group"
\* (docs/phase-7-acceptance.md:23), and so does an ordinary exit: when the
\* worker has ended there is no zombie and no process of the group that has
\* not been killed.
NothingSurvives ==
  /\ TaskTypeOK
  /\ worker = "ended" => child \in {"unborn", "reaped"} /\ group # "alive"

\* What a finished command printed is captured whole and in its order unless it is
\* marked as truncated, although the readers are stopped while there may be output
\* in the pipe and another process may still be writing.
InOrder(chunks) ==
  \A i, j \in DOMAIN chunks : i < j => chunks[j] = 0 \/ chunks[i] < chunks[j]

OutputIsComplete ==
  result = "Finished" /\ ~reader.truncated =>
    /\ {reader.captured[i] : i \in DOMAIN reader.captured} \ {0} = 1..wrote
    /\ InOrder(reader.captured)

\* "every pipe worker can be stopped and joined after child cleanup"
\* (external/task.rs:5): every command ends, by its deadline at the latest, and
\* a task that is dropped is gone before long, whatever still holds its pipes.
TasksEnd ==
  /\ child = "running" ~> worker = "ended"
  /\ task = "dropping" ~> task = "gone"
=============================================================================
