--------------------------- MODULE EventLoopProofs ---------------------------
(***************************************************************************)
(* Two of the things the event loop serves (MCEventLoop).  The session     *)
(* gives the terminal back, for every set of window sizes and however      *)
(* often the window changes, whichever writes fail.  Nothing of a command  *)
(* survives its task, and what it printed is captured whole, for every     *)
(* size of the input, of the pipes and of the limits.                      *)
(***************************************************************************)
EXTENDS Terminal, ExternalTask, SequenceTheorems, TLAPS

-----------------------------------------------------------------------------
(* The terminal session. *)

All == {Setup[i] : i \in DOMAIN Setup}

\* While setup runs, what is on is what has been done of it, in its order.
InSetup ==
  step = "setup" => progress \in 0..6 /\ modes = {Setup[i] : i \in 1..progress}

\* What restore() believes it has to undo is what is on, but for the reports, which
\* have no mark: it is what makes a second attempt take up where the first one failed.
MarksAreModes ==
  /\ modes \subseteq All /\ active \subseteq modes
  /\ modes \subseteq active \cup {"reports"} /\ "reports" \notin active

\* The keyboard flags are on the alternate screen exactly while they are marked, and
\* that screen is not left before them.
FlagsAreMarked ==
  /\ flagged = IF "kitty" \in active THEN {"alternate"} ELSE {}
  /\ "kitty" \in active => "alternate" \in active

\* Nothing is left behind an attempt of which every write succeeded.
CleanIsDone == clean /\ active = {} => modes = {}

SessionInv ==
  /\ {size, screen} \subseteq Sizes
  /\ InSetup /\ MarksAreModes /\ FlagsAreMarked /\ CleanIsDone
  /\ GivenBack /\ SessionUndisturbed

\* What the session's modes are, without the sequence they are done in.
LEMMA AllModes ==
  All = {"raw", "alternate", "title", "kitty", "format", "xterm", "reports"}
<1>1. DOMAIN Setup = 1..7
  BY DEF Setup
<1>2. 1..7 = {1, 2, 3, 4, 5, 6, 7}
  OBVIOUS
<1> QED
  BY <1>1, <1>2 DEF All, Setup

\* One attempt to restore: the marks and the flags stay true, raw mode is gone, and an
\* attempt without a failure leaves nothing.
LEMMA RestoreKeeps ==
  ASSUME MarksAreModes, FlagsAreMarked, CleanIsDone, Restore
  PROVE  /\ MarksAreModes' /\ FlagsAreMarked' /\ CleanIsDone'
         /\ "raw" \notin modes'
         /\ clean' => active' = {} /\ modes' = {} /\ flagged' = {}
<1>1. CASE active = {} /\ UNCHANGED <<terminal, clean>>
  BY <1>1 DEF MarksAreModes, FlagsAreMarked, CleanIsDone, terminal
<1>2. ASSUME NEW failed \in SUBSET Writes, Undo(failed)
      PROVE  /\ MarksAreModes' /\ FlagsAreMarked' /\ CleanIsDone'
             /\ "raw" \notin modes'
             /\ clean' => active' = {} /\ modes' = {} /\ flagged' = {}
  <2> DEFINE keysLeft == active \cap (failed \ {"alternate", "title"})
             left == IF "recovery" \in failed THEN active
                     ELSE keysLeft \cup (active \cap failed \cap {"title"})
                          \cup (IF LeavesScreen(failed, keysLeft) THEN {}
                                ELSE active \cap {"alternate"})
  <2>1. /\ active' = left \ {"raw"}
        /\ modes' = modes \ ({"raw"} \cup (active \ left)
                             \cup (IF failed \cap {"recovery", "reports"} = {} THEN {"reports"} ELSE {}))
        /\ flagged' = IF "kitty" \in active \ left THEN flagged \ {Screen(modes)} ELSE flagged
        /\ clean' = (failed = {})
    BY <1>2 DEF Undo
  <2>2. left \subseteq active
    OBVIOUS
  <2>3. "kitty" \in left => "alternate" \in left
    <3>1. CASE "recovery" \in failed
      BY <3>1 DEF FlagsAreMarked
    <3>2. CASE "recovery" \notin failed /\ "kitty" \in left
      <4>1. "kitty" \in keysLeft
        BY <3>2
      <4>2. ~LeavesScreen(failed, keysLeft)
        BY <4>1 DEF LeavesScreen, Keys
      <4> QED
        BY <3>2, <4>1, <4>2 DEF FlagsAreMarked
    <3> QED
      BY <3>1, <3>2
  <2>4. MarksAreModes'
    BY <2>1, <2>2 DEF MarksAreModes
  <2>5. FlagsAreMarked'
    <3>1. "kitty" \in active => Screen(modes) = "alternate"
      BY DEF FlagsAreMarked, MarksAreModes, Screen
    <3>2. flagged' = IF "kitty" \in active' THEN {"alternate"} ELSE {}
      BY <2>1, <2>2, <3>1 DEF FlagsAreMarked
    <3> QED
      BY <2>1, <2>3, <3>2 DEF FlagsAreMarked
  <2>6. clean' => active' = {} /\ modes' = {} /\ flagged' = {}
    <3> SUFFICES ASSUME clean'
                 PROVE  active' = {} /\ modes' = {} /\ flagged' = {}
      OBVIOUS
    <3>1. failed = {} /\ keysLeft = {}
      BY <2>1
    <3>2. "alternate" \in active => LeavesScreen(failed, keysLeft)
      BY <3>1 DEF LeavesScreen
    <3>3. left = {}
      BY <3>1, <3>2
    <3> HIDE DEF left
    <3>4. active' = {} /\ modes' = {}
      BY <2>1, <3>1, <3>3 DEF MarksAreModes
    <3> QED
      BY <3>4, <2>5 DEF FlagsAreMarked
  <2>7. "raw" \notin modes'
    BY <2>1
  <2> QED
    BY <2>4, <2>5, <2>6, <2>7 DEF CleanIsDone
<1> QED
  BY <1>1, <1>2 DEF Restore

LEMMA SessionStart == TerminalInit => SessionInv
BY DEF TerminalInit, SessionInv, InSetup, MarksAreModes, FlagsAreMarked, CleanIsDone,
       GivenBack, SessionUndisturbed

\* A step of setup switches on the next mode and marks it.
LEMMA EnableKeeps == SessionInv /\ Enable => SessionInv'
<1> SUFFICES ASSUME SessionInv, Enable
             PROVE  SessionInv'
  OBVIOUS
<1> USE DEF window, terminal
<1>1. CASE step' = "drop_guard" /\ UNCHANGED <<terminal, progress>>
  BY <1>1 DEF Enable, SessionInv, InSetup, MarksAreModes, FlagsAreMarked, CleanIsDone,
              GivenBack, SessionUndisturbed
<1>2. CASE step' # "drop_guard"
  <2> DEFINE m == Setup[progress + 1]
  <2>1. /\ progress \in 0..6 /\ modes = {Setup[i] : i \in 1..progress}
        /\ progress' = progress + 1 /\ modes' = modes \cup {m}
        /\ active' = active \cup ({m} \ {"reports"})
        /\ flagged' = IF m = "kitty" THEN flagged \cup {Screen(modes)} ELSE flagged
        /\ step' = IF progress' = Len(Setup) THEN "top" ELSE "setup"
        /\ UNCHANGED <<window, clean, shown>>
    BY <1>2 DEF Enable, SessionInv, InSetup
  <2>2. modes' = {Setup[i] : i \in 1..progress'}
    BY <2>1, 1..(progress + 1) = 1..progress \cup {progress + 1}
  <2>3. progress + 1 \in 1..7 /\ Len(Setup) = 7 /\ DOMAIN Setup = 1..7
    BY <2>1 DEF Setup
  <2>4. InSetup'
    BY <2>1, <2>2, <2>3 DEF InSetup
  <2>5. m \in All
    BY <2>3 DEF All
  <2>6. MarksAreModes'
    BY <2>1, <2>5 DEF MarksAreModes, SessionInv
  <2>7. m = "kitty" => progress = 3
    BY <2>1 DEF Setup
  <2>8. m = "kitty" => "alternate" \in modes
    <3>1. Setup[2] = "alternate"
      BY DEF Setup
    <3> QED
      BY <2>1, <2>7, <3>1
  <2>9. FlagsAreMarked'
    <3> HIDE DEF m
    <3>1. CASE m = "kitty"
      <4>1. "alternate" \in active /\ Screen(modes) = "alternate"
        BY <2>8, <3>1 DEF SessionInv, MarksAreModes, Screen
      <4> QED
        BY <2>1, <3>1, <4>1 DEF SessionInv, FlagsAreMarked
    <3>2. CASE m # "kitty"
      BY <2>1, <3>2 DEF SessionInv, FlagsAreMarked
    <3> QED
      BY <3>1, <3>2
  <2>10. CleanIsDone'
    <3>1. progress = 0 => m = "raw"
      BY DEF Setup
    <3>2. progress # 0 => "raw" \in modes
      <4>1. Setup[1] = "raw"
        BY DEF Setup
      <4> QED
        BY <2>1, <4>1
    <3>3. active' # {}
      BY <2>1, <3>1, <3>2 DEF SessionInv, MarksAreModes
    <3> QED
      BY <3>3 DEF CleanIsDone
  <2>11. GivenBack'
    BY <2>1 DEF GivenBack
  <2>12. SessionUndisturbed'
    BY <2>1, <2>2, <2>3 DEF SessionUndisturbed, SessionInv
  <2> QED
    BY <2>1, <2>4, <2>6, <2>9, <2>10, <2>11, <2>12 DEF SessionInv
<1> QED
  BY <1>1, <1>2 DEF Enable

\* A step at whose end the session is over, or about to be, and that restored.
LEMMA RestoredKeeps ==
  ASSUME SessionInv, Restore, UNCHANGED window,
         step' \in {"drop_hook", "drop_guard", "gone"},
         shown' # "alternate"
  PROVE  SessionInv'
<1>1. /\ MarksAreModes' /\ FlagsAreMarked' /\ CleanIsDone' /\ "raw" \notin modes'
      /\ clean' => active' = {} /\ modes' = {} /\ flagged' = {}
  BY RestoreKeeps DEF SessionInv
<1> QED
  BY <1>1 DEF SessionInv, InSetup, GivenBack, SessionUndisturbed, window

\* Every step of the session, its workers, the signals and the window.
LEMMA SessionKeeps == SessionInv /\ [TerminalNext]_termVars => SessionInv'
<1> SUFFICES ASSUME SessionInv, [TerminalNext]_termVars
             PROVE  SessionInv'
  OBVIOUS
<1>1. CASE Enable
  BY <1>1, EnableKeeps
<1>2. CASE Leave \/ Panic \/ DropGuard
  BY <1>2, RestoredKeeps DEF Leave, Panic, DropGuard, SessionInv, SessionUndisturbed
<1>3. CASE DropHook
  <2>1. CASE panicked = "worker"
    <3>1. Restore /\ shown' = IF clean' THEN Screen(modes') ELSE "anywhere"
      BY <1>3, <2>1 DEF DropHook
    <3>2. clean' => modes' = {}
      BY <3>1, RestoreKeeps DEF SessionInv
    <3>3. shown' # "alternate"
      BY <3>1, <3>2 DEF Screen
    <3> QED
      BY <1>3, <3>1, <3>3, RestoredKeeps DEF DropHook
  <2>2. CASE panicked # "worker"
    BY <1>3, <2>2 DEF DropHook, SessionInv, InSetup, MarksAreModes, FlagsAreMarked,
       CleanIsDone, GivenBack, SessionUndisturbed, window, terminal
  <2> QED
    BY <2>1, <2>2
<1>4. CASE Top \/ ReadSize \/ Poll
  <2>1. /\ step \in {"top", "size", "poll"} /\ step' \in {"top", "size", "poll", "restore", "drop_hook"}
        /\ step' \in {"top", "size", "poll"} => step \in {"top", "size", "poll"}
        /\ UNCHANGED <<progress, modes, flagged, active, size, clean, shown>>
        /\ screen' \in {screen, size}
    BY <1>4 DEF Top, ReadSize, Poll, terminal, window
  <2>2. InSetup' /\ GivenBack'
    BY <2>1 DEF InSetup, GivenBack
  <2>3. MarksAreModes' /\ FlagsAreMarked' /\ CleanIsDone'
    BY <2>1 DEF SessionInv, MarksAreModes, FlagsAreMarked, CleanIsDone
  <2>4. SessionUndisturbed'
    BY <2>1 DEF SessionInv, SessionUndisturbed
  <2> QED
    BY <2>1, <2>2, <2>3, <2>4 DEF SessionInv
<1>5. CASE WorkerPanic \/ Terminate \/ UNCHANGED termVars
  BY <1>5 DEF WorkerPanic, Terminate, termVars, SessionInv, InSetup, MarksAreModes,
     FlagsAreMarked, CleanIsDone, GivenBack, SessionUndisturbed, window, terminal
<1>6. CASE Resize
  BY <1>6 DEF Resize, SessionInv, InSetup, MarksAreModes,
     FlagsAreMarked, CleanIsDone, GivenBack, SessionUndisturbed, window, terminal
<1> QED
  BY <1>1, <1>2, <1>3, <1>4, <1>5, <1>6 DEF TerminalNext, SessionStep

\* The invariant of a session, from setup to the end of both guards.
THEOREM SessionAlways == TerminalSpec => []SessionInv
<1> QED
  BY SessionStart, SessionKeeps, PTL DEF TerminalSpec

\* However the session ends and whichever writes fail, the terminal is given back as
\* TerminalRestored says: modes, keyboard flags and raw mode.
THEOREM TerminalIsRestored == TerminalSpec => []TerminalRestored
<1>1. SessionInv => TerminalRestored
  <2> SUFFICES ASSUME SessionInv
               PROVE  TerminalRestored
    OBVIOUS
  <2>1. TerminalTypeOK
    BY DEF SessionInv, TerminalTypeOK, MarksAreModes, FlagsAreMarked, All
  <2>2. FlagsStayOnTheirScreen
    BY DEF SessionInv, FlagsStayOnTheirScreen, MarksAreModes, FlagsAreMarked, Screen
  <2> QED
    BY <2>1, <2>2 DEF TerminalRestored, SessionInv
<1> QED
  BY <1>1, SessionAlways, PTL

-----------------------------------------------------------------------------
(* The external command. *)

Chunks  == 0..MaxOutput
Polling == {"check_cancel", "check_deadline", "try_wait"}
Joining == {"join_writer", "join_reader", "ended"}
Steps   == {"spawn", "check_cancel", "check_deadline", "try_wait", "join_writer", "join_reader", "ended"}

Numbers(chunks) == {chunks[i] : i \in DOMAIN chunks} \ {0}

Readers ==
  [at : {"unborn", "check", "read", "ended"}, stopping : BOOLEAN,
   left : 0..Cleanup, captured : Seq(Chunks), truncated : BOOLEAN]

ReaderTypes == reader \in Readers /\ Len(reader.captured) <= Limit

TypesHold ==
  /\ worker \in Steps
  /\ outcome \in {"none", "Exited", "Cancelled", "TimedOut", "Error"}
  /\ result \in {"none", "Finished", "Cancelled", "TimedOut", "Error"}
  /\ child \in {"unborn", "running", "zombie", "reaped"}
  /\ group \in {"none", "alive", "killed"} /\ wrote \in Chunks
  /\ unwritten \in 0..Input /\ stdin \in 0..Capacity
  /\ stdout \in Seq(Chunks) /\ Len(stdout) <= Capacity
  /\ writer \in Ended \cup {"unborn", "check", "write"} /\ (writer = "write" => unwritten # 0)
  /\ stop \in [writer : BOOLEAN, reader : BOOLEAN]

\* What the worker thread has done to the processes by each of its steps: a child is
\* running or waits to be reaped while it is polled, and is reaped, its group killed,
\* before the threads are joined.
WorkerDid ==
  /\ worker = "spawn" => child = "unborn" /\ group = "none"
  /\ worker \in Polling => child \in {"running", "zombie"}
  /\ worker \in Joining => child \in {"unborn", "reaped"} /\ group # "alive"
  /\ worker \in {"join_writer", "join_reader"} => outcome # "none" /\ child = "reaped"
  /\ worker \in {"spawn"} \cup Polling => outcome = "none"

ReaderDid ==
  /\ child = "unborn" => reader.at = "unborn" /\ wrote = 0
  /\ reader.at = "unborn" => child = "unborn" \/ worker = "ended"
  /\ stop.reader => worker \in {"join_reader", "ended"} /\ child = "reaped"
  /\ reader.stopping => stop.reader
  /\ result = "Finished" => reader.at = "ended"

\* A reader that has not been told to stop may drain as much as a pipe holds, and one
\* that has goes on only while something is left to drain.
DrainLeft ==
  /\ ~reader.stopping => reader.left = Cleanup
  /\ reader.stopping /\ reader.at = "read" => reader.left > 0

\* The child's output is in the pipe ahead of what the drain would not reach.
OutputInReach == \A i \in DOMAIN stdout : stdout[i] # 0 => i <= reader.left

\* Nothing of the child's is in the pipe, or will be, when its reader has ended.
DrainedAtEnd ==
  reader.at = "ended" => child # "running" /\ \A i \in DOMAIN stdout : stdout[i] = 0

\* Captured and still in the pipe is all that the child wrote, in its order.
NothingLost ==
  ~reader.truncated =>
    /\ Numbers(reader.captured) \cup Numbers(stdout) = 1..wrote
    /\ InOrder(reader.captured) /\ InOrder(stdout)
    /\ \A i \in DOMAIN reader.captured, j \in DOMAIN stdout :
         stdout[j] # 0 => reader.captured[i] < stdout[j]

TaskInv ==
  /\ ReaderTypes /\ TypesHold /\ WorkerDid /\ ReaderDid
  /\ DrainLeft /\ OutputInReach /\ DrainedAtEnd /\ NothingLost

-----------------------------------------------------------------------------
\* A chunk at the end of a stream: its numbers, and its order when it is the next one.
LEMMA Appended ==
  ASSUME NEW s \in Seq(Chunks), NEW c \in Chunks
  PROVE  /\ Append(s, c) \in Seq(Chunks) /\ Len(Append(s, c)) = Len(s) + 1
         /\ DOMAIN Append(s, c) = DOMAIN s \cup {Len(s) + 1} /\ DOMAIN s = 1..Len(s)
         /\ \A i \in DOMAIN s : Append(s, c)[i] = s[i]
         /\ Append(s, c)[Len(s) + 1] = c
         /\ Numbers(Append(s, c)) = Numbers(s) \cup ({c} \ {0})
         /\ InOrder(s) /\ (c # 0 => \A i \in DOMAIN s : s[i] < c) => InOrder(Append(s, c))
<1>1. /\ Append(s, c) \in Seq(Chunks) /\ Len(Append(s, c)) = Len(s) + 1
      /\ DOMAIN s = 1..Len(s) /\ Len(s) \in Nat
      /\ \A i \in 1..Len(s) : Append(s, c)[i] = s[i]
      /\ Append(s, c)[Len(s) + 1] = c
  BY AppendProperties, LenProperties
<1>2. DOMAIN Append(s, c) = 1..(Len(s) + 1)
  BY <1>1, LenProperties
<1>3. DOMAIN Append(s, c) = DOMAIN s \cup {Len(s) + 1}
  BY <1>1, <1>2
<1>4. Numbers(Append(s, c)) = Numbers(s) \cup ({c} \ {0})
  <2>1. {Append(s, c)[i] : i \in DOMAIN Append(s, c)} = {s[i] : i \in DOMAIN s} \cup {c}
    BY <1>1, <1>3
  <2> QED
    BY <2>1 DEF Numbers
<1>5. InOrder(s) /\ (c # 0 => \A i \in DOMAIN s : s[i] < c) => InOrder(Append(s, c))
  BY <1>1, <1>3 DEF InOrder
<1> QED
  BY <1>1, <1>3, <1>4, <1>5

\* A chunk taken from the front of a stream.
LEMMA Taken ==
  ASSUME NEW s \in Seq(Chunks), s # <<>>
  PROVE  /\ Head(s) \in Chunks /\ Head(s) = s[1] /\ 1 \in DOMAIN s
         /\ Tail(s) \in Seq(Chunks) /\ Len(Tail(s)) = Len(s) - 1
         /\ \A i \in DOMAIN Tail(s) : i \in Nat \ {0} /\ i + 1 \in DOMAIN s /\ Tail(s)[i] = s[i + 1]
         /\ Numbers(s) = Numbers(Tail(s)) \cup ({Head(s)} \ {0})
         /\ InOrder(s) => InOrder(Tail(s))
<1>1. /\ Head(s) \in Chunks /\ Head(s) = s[1] /\ Len(s) \in Nat \ {0}
      /\ Tail(s) \in Seq(Chunks) /\ Len(Tail(s)) = Len(s) - 1
      /\ \A i \in 1..Len(Tail(s)) : Tail(s)[i] = s[i + 1]
  BY HeadTailProperties, EmptySeq, Head(s) = s[1]
<1>2. DOMAIN s = 1..Len(s) /\ DOMAIN Tail(s) = 1..(Len(s) - 1)
  BY <1>1, LenProperties
<1>3. \A i \in DOMAIN Tail(s) : i \in Nat \ {0} /\ i + 1 \in DOMAIN s /\ Tail(s)[i] = s[i + 1]
  BY <1>1, <1>2
<1>4. ASSUME NEW j \in DOMAIN s, j # 1
      PROVE  j - 1 \in DOMAIN Tail(s) /\ s[j] = Tail(s)[j - 1]
  <2>1. j - 1 \in 1..Len(Tail(s)) /\ (j - 1) + 1 = j
    BY <1>1, <1>2, <1>4
  <2> QED
    BY <1>1, <1>2, <2>1
<1>5. Numbers(s) = Numbers(Tail(s)) \cup ({Head(s)} \ {0})
  <2>1. ASSUME NEW j \in DOMAIN s
        PROVE  s[j] \in {Tail(s)[i] : i \in DOMAIN Tail(s)} \cup {s[1]}
    BY <1>4
  <2>2. ASSUME NEW i \in DOMAIN Tail(s)
        PROVE  Tail(s)[i] \in {s[j] : j \in DOMAIN s}
    BY <1>3
  <2>3. s[1] \in {s[j] : j \in DOMAIN s}
    BY <1>1, <1>2
  <2>4. {s[i] : i \in DOMAIN s} = {Tail(s)[i] : i \in DOMAIN Tail(s)} \cup {s[1]}
    BY <2>1, <2>2, <2>3
  <2> QED
    BY <1>1, <2>4 DEF Numbers
<1>6. InOrder(s) => InOrder(Tail(s))
  BY <1>2, <1>3 DEF InOrder
<1> QED
  BY <1>1, <1>2, <1>3, <1>5, <1>6

-----------------------------------------------------------------------------
LEMMA TaskStart == TaskInit => TaskInv
<1> SUFFICES ASSUME TaskInit
             PROVE  TaskInv
  OBVIOUS
<1>1. <<>> \in Seq(Chunks) /\ Len(<<>>) = 0 /\ DOMAIN <<>> = {}
  BY EmptySeq
<1>2. ReaderTypes /\ TypesHold
  <2>1. /\ Input \in Nat /\ Capacity \in Nat /\ Limit \in Nat /\ Cleanup \in Nat /\ MaxOutput \in Nat
    BY ExternalTaskAssumption
  <2>2. ReaderTypes
    BY <1>1, <2>1 DEF TaskInit, ReaderTypes, Readers
  <2>3. TypesHold
    BY <1>1, <2>1 DEF TaskInit, TypesHold, Ended, Chunks, Steps
  <2> QED
    BY <2>2, <2>3
<1>3. NothingLost
  BY <1>1 DEF TaskInit, NothingLost, Numbers, InOrder
<1>4. OutputInReach
  BY <1>1 DEF TaskInit, OutputInReach
<1> QED
  BY <1>2, <1>3, <1>4 DEF TaskInit, TaskInv, WorkerDid, ReaderDid, DrainLeft, DrainedAtEnd,
     Polling, Joining

\* The steps of the worker thread: no child is polled once it is reaped, and the reader
\* is told to stop only then.
LEMMA WorkerKeeps == TaskInv /\ Worker => TaskInv'
<1> SUFFICES ASSUME TaskInv, Worker
             PROVE  TaskInv'
  OBVIOUS
<1> USE DEF editor, processes, pipes, threads, waiting, Polling, Joining, Steps
<1>1. UNCHANGED <<task, cancel, escaped, wrote, unwritten, stdin, stdout>>
  BY DEF Worker, Spawn, CheckCancel, CheckDeadline, TryWait, StopWriter, JoinWriter, JoinReader
<1>2. CASE Spawn
  <2>1. reader' \in {reader, [reader EXCEPT !.at = "check"]} /\ writer' \in {writer, "check"}
        /\ UNCHANGED <<stop, outcome, group>>
    BY <1>2 DEF Spawn
  <2>2. ReaderTypes' /\ TypesHold'
    BY <1>1, <1>2, <2>1 DEF TaskInv, ReaderTypes, Readers, TypesHold, Spawn, Send, Ended
  <2>3. WorkerDid' /\ ReaderDid'
    BY <1>1, <1>2, <2>1 DEF TaskInv, ReaderTypes, Readers, TypesHold, WorkerDid, ReaderDid, Spawn, Send
  <2>4. DrainLeft' /\ OutputInReach' /\ DrainedAtEnd' /\ NothingLost'
    BY <1>1, <1>2, <2>1 DEF TaskInv, ReaderTypes, Readers, TypesHold, WorkerDid, ReaderDid, DrainLeft, OutputInReach, DrainedAtEnd,
       NothingLost, Spawn, Send
  <2> QED
    BY <2>2, <2>3, <2>4 DEF TaskInv
<1>3. CASE CheckCancel \/ CheckDeadline \/ TryWait
  <2>1. /\ worker \in Polling /\ UNCHANGED <<writer, reader, stop, result>>
        /\ \/ worker' \in Polling /\ UNCHANGED <<outcome, child, group>>
           \/ /\ worker' = "join_writer" /\ outcome' \in {"Exited", "Cancelled", "TimedOut", "Error"}
              /\ child' = "reaped" /\ group' = IF group = "alive" THEN "killed" ELSE group
    BY <1>3 DEF CheckCancel, CheckDeadline, TryWait, EndWait, KillGroup
  <2>2. ReaderTypes' /\ TypesHold'
    BY <1>1, <2>1 DEF TaskInv, ReaderTypes, Readers, TypesHold
  <2>3. WorkerDid' /\ ReaderDid'
    BY <1>1, <2>1 DEF TaskInv, ReaderTypes, Readers, TypesHold, WorkerDid, ReaderDid
  <2>4. DrainLeft' /\ OutputInReach' /\ DrainedAtEnd' /\ NothingLost'
    BY <1>1, <2>1 DEF TaskInv, ReaderTypes, Readers, TypesHold, WorkerDid, ReaderDid, DrainLeft, OutputInReach, DrainedAtEnd, NothingLost
  <2> QED
    BY <2>2, <2>3, <2>4 DEF TaskInv
<1>4. CASE StopWriter \/ JoinWriter \/ JoinReader
  <2>1. worker \in Joining /\ worker' \in Joining /\ UNCHANGED <<outcome, child, group, writer, reader>>
    BY <1>4 DEF StopWriter, JoinWriter, JoinReader, Send
  <2>2. ReaderTypes' /\ TypesHold'
    <3>1. CASE StopWriter
      BY <1>1, <2>1, <3>1 DEF TaskInv, ReaderTypes, Readers, TypesHold, StopWriter
    <3>2. CASE JoinWriter
      BY <1>1, <2>1, <3>2 DEF TaskInv, ReaderTypes, Readers, TypesHold, JoinWriter
    <3>3. CASE JoinReader
      BY <1>1, <2>1, <3>3 DEF TaskInv, ReaderTypes, Readers, TypesHold, WorkerDid, JoinReader, Send
    <3> QED
      BY <1>4, <3>1, <3>2, <3>3
  <2>3. WorkerDid' /\ ReaderDid'
    <3>1. CASE StopWriter
      BY <1>1, <2>1, <3>1 DEF TaskInv, TypesHold, WorkerDid, ReaderDid, StopWriter
    <3>2. CASE JoinWriter
      BY <1>1, <2>1, <3>2 DEF TaskInv, TypesHold, WorkerDid, ReaderDid, JoinWriter
    <3>3. CASE JoinReader
      BY <1>1, <2>1, <3>3 DEF TaskInv, WorkerDid, ReaderDid, JoinReader, Send
    <3> QED
      BY <1>4, <3>1, <3>2, <3>3
  <2>4. DrainLeft' /\ OutputInReach' /\ DrainedAtEnd' /\ NothingLost'
    BY <1>1, <2>1 DEF TaskInv, DrainLeft, OutputInReach, DrainedAtEnd, NothingLost
  <2> QED
    BY <2>2, <2>3, <2>4 DEF TaskInv
<1> QED
  BY <1>2, <1>3, <1>4 DEF Worker

\* The input thread, the editor and the clock touch nothing that the output depends on.
LEMMA OthersKeep ==
  TaskInv /\ (Writer \/ Collect \/ Drop \/ Joined \/ DeadlinePasses \/ ReadInput) => TaskInv'
<1> SUFFICES ASSUME TaskInv, Writer \/ Collect \/ Drop \/ Joined \/ DeadlinePasses \/ ReadInput
             PROVE  TaskInv'
  OBVIOUS
<1> USE DEF editor, processes, pipes, threads, waiting
<1>1. UNCHANGED <<worker, outcome, result, processes, stdout, reader, stop>>
  BY DEF Writer, CheckWriter, WriteInput, Collect, Drop, Joined, DeadlinePasses, ReadInput
<1>2. ReaderTypes' /\ WorkerDid' /\ ReaderDid' /\ DrainLeft' /\ OutputInReach' /\ DrainedAtEnd' /\ NothingLost'
  BY <1>1 DEF TaskInv, ReaderTypes, Readers, WorkerDid, ReaderDid, DrainLeft, OutputInReach, DrainedAtEnd, NothingLost
<1>3. /\ Capacity \in Nat /\ Input \in Nat
      /\ unwritten \in 0..Input /\ stdin \in 0..Capacity
      /\ writer \in Ended \cup {"unborn", "check", "write"}
  BY ExternalTaskAssumption DEF TaskInv, TypesHold
<1>4. unwritten' \in 0..Input /\ stdin' \in 0..Capacity
  <2>1. CASE WriteInput
    <3>1. unwritten # 0
      BY <2>1 DEF WriteInput, TaskInv, TypesHold
    <3> QED
      BY <1>3, <2>1, <3>1 DEF WriteInput
  <2>2. CASE ReadInput
    BY <1>3, <2>2 DEF ReadInput
  <2>3. CASE CheckWriter \/ Collect \/ Drop \/ Joined \/ DeadlinePasses
    BY <1>3, <2>3 DEF CheckWriter, Collect, Drop, Joined, DeadlinePasses
  <2> QED
    BY <2>1, <2>2, <2>3 DEF Writer
<1>5. writer' \in Ended \cup {"unborn", "check", "write"} /\ (writer' = "write" => unwritten' # 0)
  BY <1>3 DEF TaskInv, TypesHold, Writer, CheckWriter, WriteInput, Collect, Drop, Joined, DeadlinePasses, ReadInput, Ended
<1>6. TypesHold'
  BY <1>1, <1>4, <1>5 DEF TaskInv, TypesHold
<1> QED
  BY <1>2, <1>6 DEF TaskInv

\* The output thread takes the chunks in their order, and one that drains has counted
\* at least as many as the child's last is away.
LEMMA ReaderKeeps == TaskInv /\ Reader => TaskInv'
<1> SUFFICES ASSUME TaskInv, Reader
             PROVE  TaskInv'
  OBVIOUS
<1> USE DEF editor, processes, pipes, threads, waiting
<1>1. UNCHANGED <<editor, waiting, processes, unwritten, stdin, writer, stop>>
  BY DEF Reader, CheckReader, ReadOutput
<1>2. /\ Cleanup \in Nat /\ Capacity \in Nat /\ Limit \in Nat /\ Capacity <= Cleanup
      /\ reader \in Readers
      /\ stdout \in Seq(Chunks) /\ Len(stdout) <= Capacity /\ stop.reader \in BOOLEAN
      /\ Len(reader.captured) <= Limit
  BY ExternalTaskAssumption DEF TaskInv, TypesHold, ReaderTypes, Readers
<1>3. WorkerDid'
  BY <1>1 DEF TaskInv, WorkerDid
<1>4. CASE CheckReader
  <2> DEFINE at == IF stop.reader /\ reader.left = 0 THEN "ended" ELSE "read"
  <2>1. reader.at = "check" /\ UNCHANGED stdout
        /\ reader' = [reader EXCEPT !.stopping = stop.reader, !.at = at]
    BY <1>4 DEF CheckReader
  <2>2. reader' \in Readers
    BY <1>2, <2>1 DEF Readers
  <2>3. /\ reader'.at = at /\ reader'.stopping = stop.reader
        /\ reader'.left = reader.left /\ reader'.captured = reader.captured
        /\ reader'.truncated = reader.truncated
    BY <1>2, <2>1 DEF Readers
  <2>4. ReaderTypes' /\ TypesHold'
    BY <1>1, <1>2, <2>1, <2>2, <2>3 DEF TaskInv, TypesHold, ReaderTypes, Readers
  <2>5. ReaderDid' /\ DrainLeft' /\ OutputInReach' /\ NothingLost'
    <3>1. ReaderDid' /\ DrainLeft'
      BY <1>1, <1>2, <2>1, <2>3 DEF TaskInv, ReaderDid, DrainLeft, Readers
    <3>2. OutputInReach'
      BY <2>1, <2>3 DEF TaskInv, OutputInReach
    <3>3. NothingLost'
      BY <1>1, <2>1, <2>3 DEF TaskInv, NothingLost
    <3> QED
      BY <3>1, <3>2, <3>3
  <2>6. DrainedAtEnd'
    <3>1. stop.reader => child # "running"
      BY DEF TaskInv, ReaderDid
    <3>2. ASSUME reader.left = 0, NEW i \in DOMAIN stdout
          PROVE  stdout[i] = 0
      <4>1. i \in Nat \ {0}
        BY <1>2, LenProperties
      <4> QED
        BY <3>2, <4>1 DEF TaskInv, OutputInReach
    <3> QED
      BY <1>1, <2>1, <2>3, <3>1, <3>2 DEF DrainedAtEnd
  <2> QED
    BY <1>3, <2>4, <2>5, <2>6 DEF TaskInv
<1>5. CASE ReadOutput /\ stdout = <<>>
  <2>1. /\ reader.at = "read" /\ UNCHANGED stdout
        /\ reader' = [reader EXCEPT !.at = IF reader.stopping \/ ~Alive THEN "ended" ELSE "check"]
    BY <1>5 DEF ReadOutput
  <2>2. ReaderTypes' /\ TypesHold'
    BY <1>1, <1>2, <2>1 DEF TaskInv, TypesHold, ReaderTypes, Readers
  <2>3. /\ reader'.at \in {"check", "ended"}
        /\ reader'.stopping = reader.stopping /\ reader'.left = reader.left
        /\ reader'.captured = reader.captured /\ reader'.truncated = reader.truncated
        /\ reader'.at = "ended" => reader.stopping \/ child # "running"
    BY <1>2, <2>1 DEF Alive, Readers
  <2>4. ReaderDid' /\ DrainLeft'
    BY <1>1, <2>1, <2>3 DEF TaskInv, ReaderDid, DrainLeft
  <2>5. OutputInReach' /\ NothingLost'
    BY <1>1, <2>1, <2>3 DEF TaskInv, OutputInReach, NothingLost
  <2>6. DrainedAtEnd'
    BY <1>1, <1>5, <2>1, <2>3, EmptySeq DEF TaskInv, ReaderDid, DrainedAtEnd
  <2> QED
    BY <1>3, <2>2, <2>4, <2>5, <2>6 DEF TaskInv
<1>6. CASE ReadOutput /\ stdout # <<>>
  <2> DEFINE chunk == Head(stdout)
             kept  == Len(reader.captured) < Limit
  <2>1. /\ reader.at = "read" /\ stdout' = Tail(stdout)
        /\ reader' = [KeptOutput(reader, chunk) EXCEPT
             !.left = IF reader.stopping THEN @ - 1 ELSE @, !.at = "check"]
    BY <1>6 DEF ReadOutput
  <2>2. /\ chunk \in Chunks /\ chunk = stdout[1] /\ 1 \in DOMAIN stdout
        /\ Tail(stdout) \in Seq(Chunks) /\ Len(Tail(stdout)) = Len(stdout) - 1
        /\ \A i \in DOMAIN Tail(stdout) :
             i \in Nat \ {0} /\ i + 1 \in DOMAIN stdout /\ Tail(stdout)[i] = stdout[i + 1]
        /\ Numbers(stdout) = Numbers(Tail(stdout)) \cup ({chunk} \ {0})
        /\ InOrder(stdout) => InOrder(Tail(stdout))
    BY <1>2, <1>6, Taken
  <2> HIDE DEF chunk
  <2>3. /\ reader'.at = "check" /\ reader'.stopping = reader.stopping
        /\ reader'.left = IF reader.stopping THEN reader.left - 1 ELSE reader.left
        /\ reader'.captured = IF kept THEN Append(reader.captured, chunk) ELSE reader.captured
        /\ reader'.truncated = IF kept THEN reader.truncated ELSE TRUE
    BY <1>2, <2>1 DEF KeptOutput, Readers
  <2>4. reader.stopping => reader.left > 0
    BY <2>1 DEF TaskInv, DrainLeft
  <2>5. /\ Append(reader.captured, chunk) \in Seq(Chunks)
        /\ Len(Append(reader.captured, chunk)) = Len(reader.captured) + 1
        /\ DOMAIN Append(reader.captured, chunk) = DOMAIN reader.captured \cup {Len(reader.captured) + 1}
        /\ \A i \in DOMAIN reader.captured : Append(reader.captured, chunk)[i] = reader.captured[i]
        /\ Append(reader.captured, chunk)[Len(reader.captured) + 1] = chunk
        /\ Numbers(Append(reader.captured, chunk)) = Numbers(reader.captured) \cup ({chunk} \ {0})
        /\ InOrder(reader.captured) /\ (chunk # 0 => \A i \in DOMAIN reader.captured : reader.captured[i] < chunk)
             => InOrder(Append(reader.captured, chunk))
    <3>1. reader.captured \in Seq(Chunks)
      BY <1>2 DEF Readers
    <3> QED
      BY <2>2, <3>1, Appended
  <2>6. reader' \in Readers
    <3>1. KeptOutput(reader, chunk) \in Readers
          /\ KeptOutput(reader, chunk).left = reader.left
      BY <1>2, <2>5 DEF KeptOutput, Readers
    <3>2. (IF reader.stopping THEN reader.left - 1 ELSE reader.left) \in 0..Cleanup
      BY <1>2, <2>4 DEF Readers
    <3> DEFINE r == KeptOutput(reader, chunk)
    <3>3. reader' = [r EXCEPT !.left = IF reader.stopping THEN reader.left - 1 ELSE reader.left, !.at = "check"]
      BY <2>1, <3>1
    <3> HIDE DEF r
    <3> QED
      BY <3>1, <3>2, <3>3 DEF Readers, r
  <2>7. ReaderTypes' /\ TypesHold'
    <3>1. Len(reader'.captured) <= Limit
      BY <1>2, <2>3, <2>5, LenProperties DEF Readers
    <3>2. Len(stdout') <= Capacity /\ stdout' \in Seq(Chunks)
      BY <1>2, <2>1, <2>2, LenProperties
    <3> QED
      BY <1>1, <2>6, <3>1, <3>2 DEF TaskInv, TypesHold, ReaderTypes, Readers
  <2>8. ReaderDid' /\ DrainLeft' /\ DrainedAtEnd'
    BY <1>1, <2>1, <2>3 DEF TaskInv, ReaderDid, DrainLeft, DrainedAtEnd
  <2>9. OutputInReach'
    <3> SUFFICES ASSUME NEW i \in DOMAIN Tail(stdout), Tail(stdout)[i] # 0
                 PROVE  i <= reader'.left
      BY <2>1 DEF OutputInReach
    <3>1. i \in Nat /\ i + 1 <= reader.left
      BY <2>2 DEF TaskInv, OutputInReach
    <3> QED
      BY <1>2, <2>3, <3>1 DEF Readers
  <2>10. NothingLost'
    <3> SUFFICES ASSUME kept, ~reader.truncated
                 PROVE  NothingLost'
      BY <2>3 DEF NothingLost
    <3>1. reader'.captured = Append(reader.captured, chunk) /\ stdout' = Tail(stdout)
      BY <2>1, <2>3
    <3>2. /\ Numbers(reader.captured) \cup Numbers(stdout) = 1..wrote
          /\ InOrder(reader.captured) /\ InOrder(stdout)
          /\ \A i \in DOMAIN reader.captured, j \in DOMAIN stdout :
               stdout[j] # 0 => reader.captured[i] < stdout[j]
      BY DEF TaskInv, NothingLost
    <3>3. Numbers(reader'.captured) \cup Numbers(stdout') = 1..wrote'
      BY <1>1, <2>2, <2>5, <3>1, <3>2
    <3>4. InOrder(reader'.captured) /\ InOrder(stdout')
      BY <2>2, <2>5, <3>1, <3>2
    <3>5. ASSUME NEW i \in DOMAIN reader'.captured, NEW j \in DOMAIN stdout', stdout'[j] # 0
          PROVE  reader'.captured[i] < stdout'[j]
      <4>1. j + 1 \in DOMAIN stdout /\ stdout'[j] = stdout[j + 1] /\ 1 < j + 1
        BY <2>2, <3>1, <3>5
      <4>2. CASE i \in DOMAIN reader.captured
        BY <2>5, <3>1, <3>2, <3>5, <4>1, <4>2
      <4>3. CASE i = Len(reader.captured) + 1
        <5>1. stdout[1] < stdout[j + 1]
          BY <2>2, <3>2, <3>5, <4>1 DEF InOrder
        <5> QED
          BY <2>2, <2>5, <3>1, <4>1, <4>3, <5>1
      <4> QED
        BY <2>5, <3>1, <3>5, <4>2, <4>3
    <3> QED
      BY <3>3, <3>4, <3>5 DEF NothingLost
  <2> QED
    BY <1>3, <2>7, <2>8, <2>9, <2>10 DEF TaskInv
<1> QED
  BY <1>4, <1>5, <1>6 DEF Reader

\* The command and the kernel: the child's next chunk comes after all the others, and
\* none comes once it has exited.
LEMMA CommandKeeps == TaskInv /\ Command => TaskInv'
<1> SUFFICES ASSUME TaskInv, Command
             PROVE  TaskInv'
  OBVIOUS
<1> USE DEF editor, processes, pipes, threads, waiting
<1>1. CASE ReadInput
  BY <1>1, OthersKeep
<1>2. UNCHANGED <<editor, waiting, unwritten, threads>>
  BY DEF Command, Fork, ReadInput, ChildWrites, OthersWrite, Exit, GroupEnds, EscapedEnds
<1>3. ReaderTypes'
  BY <1>2 DEF TaskInv, ReaderTypes
<1>4. ASSUME Fork \/ Exit \/ GroupEnds \/ EscapedEnds
      PROVE  TaskInv'
  <2>1. /\ UNCHANGED <<stdin, stdout, wrote>>
        /\ child' = child \/ (child = "running" /\ child' = "zombie")
        /\ group' \in {"none", group} \/ (child = "running" /\ group' = "alive")
    BY <1>4 DEF Fork, Exit, GroupEnds, EscapedEnds
  <2>2. TypesHold' /\ WorkerDid' /\ ReaderDid'
    BY <1>2, <2>1 DEF TaskInv, TypesHold, WorkerDid, ReaderDid, Polling, Joining
  <2>3. DrainLeft' /\ OutputInReach' /\ DrainedAtEnd' /\ NothingLost'
    BY <1>2, <2>1 DEF TaskInv, DrainLeft, OutputInReach, DrainedAtEnd, NothingLost
  <2> QED
    BY <1>3, <2>2, <2>3 DEF TaskInv
<1>5. ASSUME NEW c \in Chunks, stdout' = Append(stdout, c), Len(stdout) < Capacity,
             UNCHANGED <<child, group, stdin>>,
             \/ c = 0 /\ wrote' = wrote
             \/ c = wrote + 1 /\ wrote' = c /\ child = "running"
      PROVE  TaskInv'
  <2>1. /\ Capacity \in Nat /\ Cleanup \in Nat /\ Capacity <= Cleanup /\ MaxOutput \in Nat
        /\ stdout \in Seq(Chunks) /\ Len(stdout) \in Nat /\ wrote \in Nat
    BY ExternalTaskAssumption, LenProperties DEF TaskInv, TypesHold, Chunks
  <2>2. /\ stdout' \in Seq(Chunks) /\ Len(stdout') = Len(stdout) + 1
        /\ DOMAIN stdout' = DOMAIN stdout \cup {Len(stdout) + 1} /\ DOMAIN stdout = 1..Len(stdout)
        /\ \A i \in DOMAIN stdout : stdout'[i] = stdout[i]
        /\ stdout'[Len(stdout) + 1] = c
        /\ Numbers(stdout') = Numbers(stdout) \cup ({c} \ {0})
        /\ InOrder(stdout) /\ (c # 0 => \A i \in DOMAIN stdout : stdout[i] < c) => InOrder(stdout')
    BY <1>5, <2>1, Appended
  <2>3. TypesHold' /\ WorkerDid' /\ ReaderDid' /\ DrainLeft'
    <3>1. wrote' \in Chunks
      BY <1>5 DEF TaskInv, TypesHold
    <3>2. TypesHold'
      BY <1>2, <1>5, <2>1, <2>2, <3>1 DEF TaskInv, TypesHold
    <3>3. WorkerDid' /\ ReaderDid'
      BY <1>2, <1>5 DEF TaskInv, WorkerDid, ReaderDid
    <3>4. DrainLeft'
      BY <1>2 DEF TaskInv, DrainLeft
    <3> QED
      BY <3>2, <3>3, <3>4
  <2>4. OutputInReach'
    <3>1. c # 0 => ~reader.stopping /\ reader.left = Cleanup
      BY <1>5 DEF TaskInv, ReaderDid, DrainLeft
    <3> QED
      BY <1>2, <1>5, <2>1, <2>2, <3>1 DEF TaskInv, OutputInReach
  <2>5. DrainedAtEnd'
    BY <1>2, <1>5, <2>1, <2>2 DEF TaskInv, DrainedAtEnd
  <2>6. NothingLost'
    <3> SUFFICES ASSUME ~reader.truncated
                 PROVE  NothingLost'
      BY <1>2 DEF NothingLost
    <3>1. /\ Numbers(reader.captured) \cup Numbers(stdout) = 1..wrote
          /\ InOrder(reader.captured) /\ InOrder(stdout)
          /\ \A i \in DOMAIN reader.captured, j \in DOMAIN stdout :
               stdout[j] # 0 => reader.captured[i] < stdout[j]
      BY DEF TaskInv, NothingLost
    <3>2. c # 0 => /\ \A i \in DOMAIN reader.captured : reader.captured[i] < c
                   /\ \A i \in DOMAIN stdout : stdout[i] < c
      <4>1. \A n \in Numbers(reader.captured) \cup Numbers(stdout) : n \in Nat /\ n <= wrote
        BY <2>1, <3>1
      <4>2. \A n \in Numbers(reader.captured) \cup Numbers(stdout) \cup {0} : c # 0 => n < c
        BY <1>5, <2>1, <4>1
      <4>3. /\ \A i \in DOMAIN reader.captured : reader.captured[i] \in Numbers(reader.captured) \cup {0}
            /\ \A i \in DOMAIN stdout : stdout[i] \in Numbers(stdout) \cup {0}
        BY DEF Numbers
      <4> QED
        BY <4>2, <4>3
    <3>3. Numbers(reader'.captured) \cup Numbers(stdout') = 1..wrote'
      BY <1>2, <1>5, <2>1, <2>2, <3>1
    <3>4. InOrder(reader'.captured) /\ InOrder(stdout')
      BY <1>2, <2>2, <3>1, <3>2
    <3>5. \A i \in DOMAIN reader'.captured, j \in DOMAIN stdout' :
               stdout'[j] # 0 => reader'.captured[i] < stdout'[j]
      BY <1>2, <2>2, <3>1, <3>2
    <3> QED
      BY <3>3, <3>4, <3>5 DEF NothingLost
  <2> QED
    BY <1>3, <2>3, <2>4, <2>5, <2>6 DEF TaskInv
<1>6. CASE ChildWrites
  <2>1. wrote \in 0..MaxOutput /\ MaxOutput \in Nat
    BY ExternalTaskAssumption DEF TaskInv, TypesHold, Chunks
  <2>2. wrote' \in Chunks
    BY <1>6, <2>1 DEF ChildWrites, Chunks
  <2> QED
    BY <1>5, <1>6, <2>2 DEF ChildWrites
<1>7. CASE OthersWrite
  <2>1. 0 \in Chunks
    BY ExternalTaskAssumption DEF Chunks
  <2> QED
    BY <1>5, <1>7, <2>1 DEF OthersWrite
<1> QED
  BY <1>1, <1>4, <1>6, <1>7 DEF Command

\* The invariant of one task.
THEOREM TaskAlways == TaskSpec => []TaskInv
<1>1. TaskInv /\ [TaskNext]_taskVars => TaskInv'
  <2>1. ASSUME TaskInv, UNCHANGED taskVars
        PROVE  TaskInv'
    BY <2>1 DEF taskVars, editor, waiting, processes, pipes, threads, TaskInv, ReaderTypes, TypesHold,
       WorkerDid, ReaderDid, DrainLeft, OutputInReach, DrainedAtEnd, NothingLost
  <2> QED
    BY <2>1, WorkerKeeps, OthersKeep, ReaderKeeps, CommandKeeps DEF TaskNext
<1> QED
  BY <1>1, TaskStart, PTL DEF TaskSpec

\* The flag that a drop sets is set exactly when the task is no longer held.
LEMMA HeldOrCancelled == TaskSpec => [](task \in {"held", "dropping", "gone"} /\ cancel = (task # "held"))
<1> DEFINE Held == task \in {"held", "dropping", "gone"} /\ cancel = (task # "held")
<1>1. TaskInit => Held
  BY DEF TaskInit
<1>2. Held /\ [TaskNext]_taskVars => Held'
  <2> SUFFICES ASSUME Held, [TaskNext]_taskVars
               PROVE  Held'
    OBVIOUS
  <2>1. CASE Collect \/ Drop
    BY <2>1 DEF Collect, Drop
  <2>2. CASE Joined
    BY <2>2 DEF Joined
  <2>3. CASE UNCHANGED editor
    BY <2>3 DEF editor
  <2> QED
    BY <2>1, <2>2, <2>3 DEF TaskNext, taskVars, editor, Worker, Writer, Reader, Command, Spawn, CheckCancel,
       CheckDeadline, TryWait, StopWriter, JoinWriter, JoinReader, CheckWriter, WriteInput, CheckReader,
       ReadOutput, DeadlinePasses, Fork, ReadInput, ChildWrites, OthersWrite, Exit, GroupEnds, EscapedEnds
<1> QED
  BY <1>1, <1>2, PTL DEF TaskSpec

\* When the worker thread has ended, however it did, the child has been reaped and no
\* process of its group is left unkilled.
THEOREM CommandLeavesNothing == TaskSpec => []NothingSurvives
<1>1. /\ TaskInv /\ task \in {"held", "dropping", "gone"} /\ cancel = (task # "held")
      => NothingSurvives
  <2> SUFFICES ASSUME TaskInv, task \in {"held", "dropping", "gone"}, cancel = (task # "held")
               PROVE  NothingSurvives
    OBVIOUS
  <2>1. worker = "ended" => child \in {"unborn", "reaped"} /\ group # "alive"
    BY DEF TaskInv, WorkerDid, Joining
  <2>2. TaskTypeOK
    BY DEF TaskTypeOK, TaskInv, ReaderTypes, Readers, TypesHold
  <2> QED
    BY <2>1, <2>2 DEF NothingSurvives
<1> QED
  BY <1>1, TaskAlways, HeldOrCancelled, PTL

\* Whatever else writes to the pipe, a finished command's output is captured whole and
\* in its order, unless it is marked as truncated.
THEOREM OutputIsWhole == TaskSpec => []OutputIsComplete
<1>1. TaskInv => OutputIsComplete
  <2> SUFFICES ASSUME TaskInv, result = "Finished", ~reader.truncated
               PROVE  /\ {reader.captured[i] : i \in DOMAIN reader.captured} \ {0} = 1..wrote
                      /\ InOrder(reader.captured)
    BY DEF OutputIsComplete
  <2>1. reader.at = "ended"
    BY DEF TaskInv, ReaderDid
  <2>2. Numbers(stdout) = {}
    BY <2>1 DEF TaskInv, DrainedAtEnd, Numbers
  <2> QED
    BY <2>2 DEF TaskInv, NothingLost, Numbers
<1> QED
  BY <1>1, TaskAlways, PTL
=============================================================================
