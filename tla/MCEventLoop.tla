----------------------------- MODULE MCEventLoop -----------------------------
(***************************************************************************)
(* The things the event loop must get to: changes of the file on disk      *)
(* (FileSync), signals and sizes of the terminal (Terminal), and commands  *)
(* that run beside it (ExternalTask).  They share no state; `part` says    *)
(* which one takes the steps.                                              *)
(***************************************************************************)
EXTENDS FileSync, Terminal, ExternalTask

VARIABLE part

QuietTerminal == TerminalInit /\ size = CHOOSE s \in Sizes : TRUE
QuietFile == /\ path = NoPath /\ Init /\ ~dirty /\ ~auto_reload
             /\ disk = [p \in Paths |-> Absent]

SumInit ==
  \/ part = "file" /\ Init /\ QuietTerminal /\ TaskInit
  \/ part = "terminal" /\ QuietFile /\ TerminalInit /\ TaskInit
  \/ part = "task" /\ QuietFile /\ QuietTerminal /\ TaskInit

Sync(A) == part = "file" /\ A /\ UNCHANGED <<termVars, taskVars, part>>
Term(A) == part = "terminal" /\ A /\ UNCHANGED <<vars, taskVars, part>>
Task(A) == part = "task" /\ A /\ UNCHANGED <<vars, termVars, part>>

SumNext == Sync(Next) \/ Term(TerminalNext) \/ Task(TaskNext)

\* The fairness of the parts, each while it is the one that runs.
SumSpec ==
  /\ SumInit /\ [][SumNext]_<<vars, termVars, taskVars, part>>
  /\ WF_vars(Sync(Step)) /\ SF_vars(Sync(CheckWatcher)) /\ SF_vars(Sync(CheckStopped))
  /\ WF_termVars(Term(SessionStep))
  /\ WF_taskVars(Task(Worker)) /\ WF_taskVars(Task(Writer)) /\ WF_taskVars(Task(Reader))
  /\ WF_taskVars(Task(DeadlinePasses)) /\ WF_taskVars(Task(Joined))
=============================================================================
