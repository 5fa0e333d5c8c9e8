------------------------- MODULE PagedWorkersProofs -------------------------
(***************************************************************************)
(* The pages of a large file together are one document with one history,   *)
(* for any number of pages, texts and sizes and any limits.  The output of *)
(* a command is applied over the text it was started on, a hook starts     *)
(* only after the one before it has succeeded, and findings are about the  *)
(* text on screen, for any texts and numbers of hooks (MCFiles, MCBuffers) *)
(***************************************************************************)
EXTENDS PagedHistory, Workers, FoldFacts, SequenceTheorems, WellFoundedInduction, TLAPS

\* What the generation of a command tells: as long as it is the one of the
\* buffer, the text is the one the command was started on.  No generation is
\* used twice, so it never becomes the one of the buffer again; the revision,
\* which a reload restarts, would not do.
Tracks(cmd) ==
  cmd # None =>
    /\ cmd.generation \in Nat
    /\ cmd.generation <= generation
    /\ cmd.generation = generation => cmd.source = text

SourceInv ==
  /\ generation \in Nat
  /\ Tracks(running)
  /\ Tracks(preview)

\* A step that leaves the commands alone and either the text, too, or moves
\* the generation on, keeps what the generations tell.
LEMMA TextMovesOn ==
  ASSUME SourceInv, UNCHANGED <<running, preview>>,
         \/ UNCHANGED <<text, generation>>
         \/ generation' = generation + 1
  PROVE  SourceInv'
BY DEF SourceInv, Tracks

\* A step that leaves the text alone and only ends commands keeps it.
LEMMA CommandsEnd ==
  ASSUME SourceInv, UNCHANGED <<text, generation>>,
         running' \in {running, None}, preview' \in {preview, None}
  PROVE  SourceInv'
BY DEF SourceInv, Tracks

\* Every step keeps the relation between the commands and the text.
LEMMA SourceStep ==
  ASSUME SourceInv, [WorkersNext]_workersVars
  PROVE  SourceInv'
<1> USE DEF command, textAndFile
<1>1. CASE EditText
  BY <1>1, TextMovesOn DEF EditText, Change, Generation
<1>2. CASE SaveFile
  BY <1>2, TextMovesOn DEF SaveFile
<1>3. CASE ReloadKey \/ Watch
  <2>1. CASE Reload
    BY <2>1, TextMovesOn DEF Reload, Generation
  <2>2. CASE UNCHANGED <<disk, textAndFile, help, command, hooks>>
    BY <2>2, TextMovesOn
  <2> QED
    BY <1>3, <2>1, <2>2 DEF ReloadKey, Watch
<1>4. CASE WriteDisk \/ StartLint \/ LinterReads \/ PollLint \/ EndLint
  BY <1>4, TextMovesOn
  DEF WriteDisk, StartLint, LinterReads, PollLint, EndLint
<1>5. CASE Run
  BY <1>5 DEF Run, Start, SourceInv, Tracks
<1>6. CASE PollFinished
  BY <1>6 DEF PollFinished, SourceInv, Tracks
<1>7. CASE EndTask \/ Reject \/ Help
  BY <1>7, CommandsEnd DEF EndTask, Reject, Help
<1>8. CASE Accept
  <2>1. preview' = None /\ running' = running
    BY <1>8 DEF Accept
  <2>2. CASE UNCHANGED <<text, generation>>
    BY <2>1, <2>2, CommandsEnd
  <2>3. CASE generation' = generation + 1
    BY <2>1, <2>3 DEF SourceInv, Tracks
  <2> QED
    BY <1>8, <2>2, <2>3 DEF Accept, Change, Generation
<1>9. CASE Pump
  BY <1>9 DEF Pump, Start, SourceInv, Tracks
<1>10. CASE UNCHANGED workersVars
  BY <1>10, TextMovesOn DEF workersVars
<1> QED
  BY <1>1, <1>2, <1>3, <1>4, <1>5, <1>6, <1>7, <1>8, <1>9, <1>10 DEF WorkersNext

\* A command on hand whose generation is the buffer's was started on the text
\* that is there.
THEOREM SourceAlways == WorkersSpec => []SourceInv
<1>1. WorkersInit => SourceInv
  BY DEF WorkersInit, SourceInv, Tracks
<1>2. SourceInv /\ [WorkersNext]_workersVars => SourceInv'
  BY SourceStep
<1> QED
  BY <1>1, <1>2, PTL DEF WorkersSpec

\* Output is applied over the very text the command was started on: the check
\* in apply_or_close refuses it after any edit, undo or reload.
THEOREM OutputFitsItsSource == WorkersSpec => AppliedOverSource
<1> DEFINE Fits == preview # None /\ preview' = None /\ generation' # generation
                     => text = preview.source
<1>1. SourceInv /\ [WorkersNext]_workersVars => [Fits]_workersVars
  <2> SUFFICES ASSUME SourceInv, WorkersNext,
                      preview # None, preview' = None, generation' # generation
               PROVE  text = preview.source
    OBVIOUS
  <2>1. CASE Accept
    BY <2>1 DEF Accept, Current, SourceInv, Tracks, textAndFile
  <2>2. CASE EditText
    BY <2>2 DEF EditText
  <2>3. CASE Reload
    BY <2>3 DEF Reload, command
  <2> QED
    BY <2>1, <2>2, <2>3
    DEF WorkersNext, SaveFile, ReloadKey, Watch, WriteDisk, Run, PollFinished, EndTask,
        Reject, Help, Pump, StartLint, LinterReads, PollLint, EndLint, textAndFile
<1> QED
  BY <1>1, SourceAlways, PTL DEF WorkersSpec, AppliedOverSource

-----------------------------------------------------------------------------
(* The hooks. *)

\* The file and the buffer are well formed.
FileTypes ==
  /\ disk \in Disks /\ saved \in Disks /\ text \in Texts
  /\ revision \in Nat /\ generation \in Nat /\ chain \in Nat
  /\ revision <= generation /\ generation <= MaxGeneration
  /\ 1 <= chain /\ chain <= MaxChain
  /\ dirtyText \in BOOLEAN /\ help \in BOOLEAN
  /\ ~dirtyText => text = saved.text

\* The keys of the preview, help and the editor are never bound together.
ScreenShared ==
  /\ running = None \/ preview = None
  /\ help => ~Busy
  /\ help \/ Busy => activeHook # None \/ queue = <<>>
  /\ preview # None => preview.output \in Texts

\* The hooks are hooks.
QueueTypes == activeHook \in Links \cup {None} /\ queue \in Seq(Links)

\* The active hook is the command on hand, unless help ended it.
ActiveOnHand ==
  activeHook # None =>
    \/ activeHook.chain \in helped
    \/ running # None /\ running.hook = activeHook
    \/ preview # None /\ preview.hook = activeHook

\* The hook before this one in its chain.
Before(hook) == [hook EXCEPT !.link = hook.link - 1]

\* Before each hook in the queue stands the one before it in its chain; before the first,
\* that one is active, or has succeeded, or help interrupted the chain.
QueueInOrder ==
  /\ \A k \in 1 .. Len(queue) : k > 1 /\ queue[k].link > 1 => queue[k - 1] = Before(queue[k])
  /\ queue # <<>> /\ queue[1].link > 1 =>
       \/ activeHook # None /\ activeHook = Before(queue[1])
       \/ Before(queue[1]) \in succeeded
       \/ queue[1].chain \in helped

HooksInv == FileTypes /\ ScreenShared /\ QueueTypes /\ ActiveOnHand /\ QueueInOrder

\* The constants, one by one.
LEMMA Bounds ==
  /\ OnOpen \in Nat /\ OnSave \in Nat /\ MaxGeneration \in Nat
  /\ MaxVersion \in Nat /\ MaxVersion >= 1 /\ MaxChain \in Nat /\ MaxChain >= 1
  BY WorkersAssumption

\* A chain of hooks.
LEMMA Chaining ==
  ASSUME NEW c \in 1 .. MaxChain, NEW n \in Nat
  PROVE  /\ Chain(c, n) \in Seq(Links) /\ Len(Chain(c, n)) = n
         /\ \A k \in 1 .. n : Chain(c, n)[k].link = k
         /\ \A k \in 1 .. n : k > 1 => Chain(c, n)[k - 1] = Before(Chain(c, n)[k])
<1>1. \A k \in 1 .. n : [is |-> "hook", chain |-> c, link |-> k] \in Links
  BY DEF Links
<1>2. Chain(c, n) \in Seq(Links) /\ Len(Chain(c, n)) = n
  BY <1>1 DEF Chain
<1>3. \A k \in 1 .. n : Chain(c, n)[k] = [is |-> "hook", chain |-> c, link |-> k]
  BY DEF Chain
<1>4. ASSUME NEW k \in 1 .. n, k > 1
      PROVE  Chain(c, n)[k - 1] = Before(Chain(c, n)[k])
  <2>1. k - 1 \in 1 .. n
    BY <1>4
  <2>2. Chain(c, n)[k] = [is |-> "hook", chain |-> c, link |-> k]
        /\ Chain(c, n)[k - 1] = [is |-> "hook", chain |-> c, link |-> k - 1]
    BY <2>1, <1>3
  <2> QED
    BY <2>2 DEF Before
<1> QED
  BY <1>2, <1>3, <1>4

\* A reload leaves the file well formed.
LEMMA Reloading ==
  ASSUME FileTypes, Reload
  PROVE  FileTypes'
<1>1. saved' = disk /\ disk' = disk /\ text' = disk.text /\ disk.text \in Texts
      /\ revision' = 0 /\ dirtyText' = FALSE /\ help' = help /\ chain' = chain
  BY DEF Reload, FileTypes, Disks, hooks
<1>2. generation' = generation + 1 /\ generation < MaxGeneration
  BY DEF Reload, Generation
<1>3. /\ revision' \in Nat /\ revision' <= generation'
      /\ generation' \in Nat /\ generation' <= MaxGeneration
  BY <1>1, <1>2, Bounds DEF FileTypes
<1>4. disk' \in Disks /\ saved' \in Disks /\ text' \in Texts /\ text' = saved'.text
  BY <1>1 DEF FileTypes
<1> QED
  BY <1>1, <1>3, <1>4, Zenon DEF FileTypes

\* What a change of the text does.
LEMMA Changing ==
  ASSUME NEW t \in Texts, Change(t)
  PROVE  /\ dirtyText' \in BOOLEAN /\ (~dirtyText' => t = saved.text)
         /\ text' = t /\ saved' = saved /\ revision' = revision + 1
         /\ generation < MaxGeneration /\ generation' = generation + 1
<1>1. dirtyText' \in BOOLEAN /\ (~dirtyText' => t = saved.text)
  BY Zenon DEF Change
<1> QED
  BY <1>1 DEF Change, Generation

\* Every step keeps the types of the file.
LEMMA TypesKeep == HooksInv /\ [WorkersNext]_workersVars => FileTypes'
<1> SUFFICES ASSUME HooksInv, [WorkersNext]_workersVars
             PROVE  FileTypes'
  OBVIOUS
<1> USE Bounds DEF HooksInv, FileTypes, ScreenShared, Disks, textAndFile, command, hooks, linter, None
<1>1. CASE EditText
  <2>1. CASE \E t \in Texts \ {text} : Change(t)
    BY <1>1, <2>1, Changing DEF EditText
  <2>2. CASE Generation /\ UNCHANGED <<text, revision, dirtyText, saved>>
    BY <1>1, <2>2 DEF EditText, Generation
  <2> QED
    BY <1>1, <2>1, <2>2 DEF EditText
<1>2. CASE SaveFile
  <2>1. disk' \in Disks
    BY <1>2 DEF SaveFile
  <2>2. dirtyText' = FALSE /\ UNCHANGED <<text, revision, generation, help>> /\ saved' = disk'
        /\ disk'.text = text
    BY <1>2 DEF SaveFile
  <2>3. chain' \in Nat /\ 1 <= chain' /\ chain' <= MaxChain
    BY <1>2 DEF SaveFile
  <2> HIDE DEF Disks
  <2> QED
    BY <2>1, <2>2, <2>3
<1>3. CASE ReloadKey
  <2>1. CASE Reload
    BY <2>1, Reloading
  <2>2. CASE UNCHANGED <<disk, textAndFile, chain, help>>
    BY <2>2
  <2> QED
    BY <1>3, <2>1, <2>2 DEF ReloadKey, hooks
<1>4. CASE Watch
  <2>1. CASE Reload
    BY <2>1, Reloading
  <2>2. CASE UNCHANGED <<disk, textAndFile, chain, help>>
    BY <2>2
  <2> QED
    BY <1>4, <2>1, <2>2 DEF Watch, hooks
<1>5. CASE WriteDisk
  BY <1>5 DEF WriteDisk
<1>6. CASE Run
  BY <1>6 DEF Run, Start, InEditor
<1>7. CASE PollFinished
  BY <1>7 DEF PollFinished
<1>8. CASE EndTask
  BY <1>8 DEF EndTask, FinishCommand
<1>9. CASE Accept
  <2>1. UNCHANGED <<disk, help, chain>>
    BY <1>9 DEF Accept, FinishCommand
  <2>2. CASE UNCHANGED <<text, revision, generation, dirtyText, saved>>
    BY <2>1, <2>2
  <2>3. CASE preview # None /\ Change(preview.output)
    BY <2>1, <2>3, Changing
  <2> QED
    BY <1>9, <2>2, <2>3 DEF Accept
<1>10. CASE Reject
  BY <1>10 DEF Reject, FinishCommand
<1>11. CASE Help
  BY <1>11 DEF Help
<1>12. CASE Pump
  BY <1>12 DEF Pump, Start
<1>13. CASE StartLint
  BY <1>13 DEF StartLint, InEditor
<1>14. CASE LinterReads
  BY <1>14 DEF LinterReads
<1>15. CASE PollLint
  BY <1>15 DEF PollLint
<1>16. CASE EndLint
  BY <1>16 DEF EndLint
<1>17. CASE UNCHANGED workersVars
  BY <1>17 DEF workersVars
<1> QED
  BY <1>1, <1>2, <1>3, <1>4, <1>5, <1>6, <1>7, <1>8, <1>9, <1>10, <1>11, <1>12, <1>13, <1>14,
     <1>15, <1>16, <1>17 DEF WorkersNext

\* Every step keeps the screen: a hook is only pumped when nothing has the focus.
LEMMA ScreenKeeps == HooksInv /\ [WorkersNext]_workersVars => ScreenShared'
<1> SUFFICES ASSUME HooksInv, [WorkersNext]_workersVars
             PROVE  ScreenShared'
  OBVIOUS
<1> USE WorkersAssumption DEF HooksInv, ScreenShared, Busy, Polled, textAndFile, command, hooks, linter,
       None
<1>1. CASE EditText
  BY <1>1 DEF EditText, Change, Generation, Invalidate
<1>2. CASE SaveFile
  BY <1>2 DEF SaveFile, InEditor
<1>3. CASE ReloadKey
  BY <1>3 DEF ReloadKey, Reload, Generation, Invalidate
<1>4. CASE Watch
  BY <1>4 DEF Watch, Reload, Generation, Invalidate
<1>5. CASE WriteDisk
  BY <1>5 DEF WriteDisk
<1>6. CASE Run
  BY <1>6 DEF Run, Start, InEditor
<1>7. CASE PollFinished
  BY <1>7 DEF PollFinished
<1>8. CASE EndTask
  BY <1>8 DEF EndTask, FinishCommand
<1>9. CASE Accept
  BY <1>9 DEF Accept, FinishCommand, Change, Generation, Invalidate
<1>10. CASE Reject
  BY <1>10 DEF Reject, FinishCommand
<1>11. CASE Help
  BY <1>11 DEF Help
<1>12. CASE Pump
  <2>1. queue # <<>> /\ ~help /\ Head(queue) # None
    BY <1>12, HeadTailProperties DEF Pump, QueueTypes, Links
  <2> QED
    BY <1>12, <2>1 DEF Pump, Start
<1>13. CASE StartLint
  BY <1>13 DEF StartLint, InEditor
<1>14. CASE LinterReads
  BY <1>14 DEF LinterReads
<1>15. CASE PollLint
  BY <1>15 DEF PollLint
<1>16. CASE EndLint
  BY <1>16 DEF EndLint
<1>17. CASE UNCHANGED workersVars
  BY <1>17 DEF workersVars
<1> QED
  BY <1>1, <1>2, <1>3, <1>4, <1>5, <1>6, <1>7, <1>8, <1>9, <1>10, <1>11, <1>12, <1>13, <1>14,
     <1>15, <1>16, <1>17 DEF WorkersNext

\* Every step keeps a queue of hooks.
LEMMA QueueTypesKeep == HooksInv /\ [WorkersNext]_workersVars => QueueTypes'
<1> SUFFICES ASSUME HooksInv, [WorkersNext]_workersVars
             PROVE  QueueTypes'
  OBVIOUS
<1> USE WorkersAssumption DEF HooksInv, FileTypes, QueueTypes, textAndFile, command, hooks, linter, None
<1>1. CASE EditText
  BY <1>1 DEF EditText, Change, Generation, Invalidate
<1>2. CASE SaveFile
  <2>1. Chain(chain', OnSave) \in Seq(Links)
    BY <1>2, Chaining, Bounds DEF SaveFile
  <2> QED
    BY <1>2, <2>1, ConcatProperties DEF SaveFile
<1>3. CASE ReloadKey
  BY <1>3 DEF ReloadKey, Reload, Generation, Invalidate
<1>4. CASE Watch
  BY <1>4 DEF Watch, Reload, Generation, Invalidate
<1>5. CASE WriteDisk
  BY <1>5 DEF WriteDisk
<1>6. CASE Run
  BY <1>6 DEF Run, Start, InEditor
<1>7. CASE PollFinished
  BY <1>7 DEF PollFinished
<1>8. CASE EndTask
  BY <1>8 DEF EndTask, FinishCommand
<1>9. CASE Accept
  <2>1. activeHook' = None /\ queue' \in {queue, <<>>}
    BY <1>9 DEF Accept, FinishCommand
  <2>2. <<>> \in Seq(Links)
    OBVIOUS
  <2> QED
    BY <2>1, <2>2
<1>10. CASE Reject
  BY <1>10 DEF Reject, FinishCommand
<1>11. CASE Help
  BY <1>11 DEF Help
<1>12. CASE Pump
  <2>1. Head(queue) \in Links /\ Tail(queue) \in Seq(Links)
    BY <1>12, HeadTailProperties DEF Pump
  <2>2. <<>> \in Seq(Links)
    OBVIOUS
  <2> QED
    BY <1>12, <2>1, <2>2 DEF Pump
<1>13. CASE StartLint
  BY <1>13 DEF StartLint, InEditor
<1>14. CASE LinterReads
  BY <1>14 DEF LinterReads
<1>15. CASE PollLint
  BY <1>15 DEF PollLint
<1>16. CASE EndLint
  BY <1>16 DEF EndLint
<1>17. CASE UNCHANGED workersVars
  BY <1>17 DEF workersVars
<1> QED
  BY <1>1, <1>2, <1>3, <1>4, <1>5, <1>6, <1>7, <1>8, <1>9, <1>10, <1>11, <1>12, <1>13, <1>14,
     <1>15, <1>16, <1>17 DEF WorkersNext

\* Every step keeps the active hook on hand.
LEMMA ActiveKeeps == HooksInv /\ [WorkersNext]_workersVars => ActiveOnHand'
<1> SUFFICES ASSUME HooksInv, [WorkersNext]_workersVars
             PROVE  ActiveOnHand'
  OBVIOUS
<1> USE WorkersAssumption DEF HooksInv, ScreenShared, ActiveOnHand, Busy, textAndFile, command, hooks,
       linter, None
<1>1. CASE EditText
  BY <1>1 DEF EditText, Change, Generation, Invalidate
<1>2. CASE SaveFile
  BY <1>2 DEF SaveFile, InEditor
<1>3. CASE ReloadKey
  BY <1>3 DEF ReloadKey, Reload, Generation, Invalidate
<1>4. CASE Watch
  BY <1>4 DEF Watch, Reload, Generation, Invalidate
<1>5. CASE WriteDisk
  BY <1>5 DEF WriteDisk
<1>6. CASE Run
  BY <1>6 DEF Run, Start, InEditor
<1>7. CASE PollFinished
  BY <1>7 DEF PollFinished
<1>8. CASE EndTask
  BY <1>8 DEF EndTask, FinishCommand
<1>9. CASE Accept
  BY <1>9 DEF Accept, FinishCommand
<1>10. CASE Reject
  BY <1>10 DEF Reject, FinishCommand
<1>11. CASE Help
  BY <1>11 DEF Help
<1>12. CASE Pump
  BY <1>12 DEF Pump, Start
<1>13. CASE StartLint
  BY <1>13 DEF StartLint, InEditor
<1>14. CASE LinterReads
  BY <1>14 DEF LinterReads
<1>15. CASE PollLint
  BY <1>15 DEF PollLint
<1>16. CASE EndLint
  BY <1>16 DEF EndLint
<1>17. CASE UNCHANGED workersVars
  BY <1>17 DEF workersVars
<1> QED
  BY <1>1, <1>2, <1>3, <1>4, <1>5, <1>6, <1>7, <1>8, <1>9, <1>10, <1>11, <1>12, <1>13, <1>14,
     <1>15, <1>16, <1>17 DEF WorkersNext

\* Every step keeps the order of the queue: a save appends a whole chain, the pump takes
\* the head, and a hook that ends is recorded if it succeeded.
LEMMA OrderKeeps == HooksInv /\ [WorkersNext]_workersVars => QueueInOrder'
<1> SUFFICES ASSUME HooksInv, [WorkersNext]_workersVars
             PROVE  QueueInOrder'
  OBVIOUS
<1> USE WorkersAssumption DEF HooksInv, QueueTypes, ScreenShared, ActiveOnHand, QueueInOrder,
       textAndFile, command, hooks, linter, None
<1>1. CASE EditText
  BY <1>1 DEF EditText, Change, Generation, Invalidate
<1>2. CASE SaveFile
  <2> DEFINE new == Chain(chain', OnSave)
  <2>1. /\ new \in Seq(Links) /\ Len(new) = OnSave /\ OnSave \in Nat
        /\ \A k \in 1 .. OnSave : new[k].link = k
        /\ \A k \in 1 .. OnSave : k > 1 => new[k - 1] = Before(new[k])
    <3>1. chain' \in 1 .. MaxChain
      BY <1>2, Bounds DEF SaveFile, FileTypes
    <3> QED
      BY <3>1, Chaining, Bounds
  <2>2. queue' = queue \o new /\ UNCHANGED <<activeHook, succeeded, helped>>
    BY <1>2 DEF SaveFile
  <2> HIDE DEF new
  <2>3. /\ Len(queue') = Len(queue) + OnSave
        /\ \A k \in 1 .. Len(queue') :
             queue'[k] = IF k <= Len(queue) THEN queue[k] ELSE new[k - Len(queue)]
    <3>1. /\ Len(queue \o new) = Len(queue) + Len(new)
          /\ \A k \in 1 .. (Len(queue) + Len(new)) :
               (queue \o new)[k] = IF k <= Len(queue) THEN queue[k] ELSE new[k - Len(queue)]
      <4> HIDE DEF QueueInOrder, ScreenShared, ActiveOnHand
      <4>1. queue \in Seq(Links) /\ new \in Seq(Links)
        BY <2>1
      <4> QED
        BY <4>1, ConcatProperties
    <3> QED
      BY <2>1, <2>2, <3>1
  <2>4. ASSUME NEW k \in 1 .. Len(queue'), k > 1, queue'[k].link > 1
        PROVE  queue'[k - 1] = Before(queue'[k])
    <3>1. CASE k <= Len(queue)
      <4>1. /\ k \in 1 .. Len(queue) /\ k - 1 \in 1 .. Len(queue')
            /\ queue'[k] = queue[k] /\ queue'[k - 1] = queue[k - 1]
        BY <2>3, <2>4, <3>1
      <4>2. queue[k - 1] = Before(queue[k])
        BY <2>4, <4>1
      <4> QED
        BY <4>1, <4>2
    <3>2. CASE k > Len(queue)
      <4>1. k - Len(queue) \in 1 .. OnSave /\ queue'[k] = new[k - Len(queue)]
        BY <2>1, <2>3, <3>2
      <4>2. k - Len(queue) > 1
        BY <2>1, <2>4, <4>1
      <4>3. queue'[k - 1] = new[(k - Len(queue)) - 1]
        <5>1. k - 1 \in 1 .. Len(queue') /\ k - 1 > Len(queue) /\ Len(queue) \in Nat
          BY <2>1, <2>3, <4>1, <4>2
        <5>2. (k - 1) - Len(queue) = (k - Len(queue)) - 1
          BY <5>1
        <5>3. queue'[k - 1] = new[(k - 1) - Len(queue)]
          BY <2>3, <5>1
        <5> QED
          BY <5>2, <5>3
      <4> QED
        BY <2>1, <4>1, <4>2, <4>3
    <3> QED
      BY <3>1, <3>2
  <2>5. queue' # <<>> /\ queue'[1].link > 1 => queue # <<>> /\ queue'[1] = queue[1]
    BY <2>1, <2>3
  <2> QED
    BY <2>2, <2>4, <2>5
<1>3. CASE ReloadKey
  BY <1>3 DEF ReloadKey, Reload, Generation, Invalidate
<1>4. CASE Watch
  BY <1>4 DEF Watch, Reload, Generation, Invalidate
<1>5. CASE WriteDisk
  BY <1>5 DEF WriteDisk
<1>6. CASE Run
  BY <1>6 DEF Run, Start, InEditor
<1>7. CASE PollFinished
  BY <1>7 DEF PollFinished
<1>8. CASE EndTask
  BY <1>8 DEF EndTask, FinishCommand
<1>9. CASE Accept
  <2>1. PICK ok : FinishCommand(preview, ok) /\ preview # None
    BY <1>9 DEF Accept
  <2>2. activeHook' = None /\ helped' = helped
        /\ (ok => queue' = queue /\ succeeded' = succeeded \cup ({preview.hook} \ {None}))
        /\ (~ok => succeeded' = succeeded)
        /\ (activeHook # None /\ ~ok => queue' = <<>>)
        /\ (activeHook = None => queue' = queue)
    BY <2>1 DEF FinishCommand
  <2>3. CASE queue' = queue /\ activeHook # None /\ queue # <<>> /\ activeHook = Before(queue[1])
    <3>1. queue[1] \in Links
      BY <2>3
    <3>2. activeHook.chain = queue[1].chain
      BY <2>3, <3>1 DEF Links, Before
    <3>3. ok /\ (activeHook.chain \in helped \/ preview.hook = activeHook)
      BY <2>1, <2>2, <2>3
    <3>4. queue'[1].chain \in helped' \/ Before(queue'[1]) \in succeeded'
      BY <2>2, <2>3, <3>2, <3>3
    <3> QED
      BY <2>2, <2>3, <3>4
  <2>4. succeeded \subseteq succeeded' /\ queue' \in {queue, <<>>}
    BY <2>2
  <2> QED
    BY <2>2, <2>3, <2>4
<1>10. CASE Reject
  BY <1>10 DEF Reject, FinishCommand
<1>11. CASE Help
  BY <1>11 DEF Help
<1>12. CASE Pump
  <2>1. CASE queue' = Tail(queue) /\ activeHook' = Head(queue)
    <3>1. /\ Len(queue') = Len(queue) - 1 /\ Head(queue) = queue[1]
          /\ \A k \in 1 .. Len(queue') : queue'[k] = queue[k + 1]
      BY <1>12, <2>1, HeadTailProperties DEF Pump
    <3>2. queue' \in Seq(Links) /\ queue[1] \in Links
      BY <1>12, <2>1, HeadTailProperties DEF Pump
    <3>3. \A k \in 1 .. Len(queue') :
            k > 1 /\ queue'[k].link > 1 => queue'[k - 1] = Before(queue'[k])
      BY <3>1
    <3>4. queue' # <<>> /\ queue'[1].link > 1 => activeHook' = Before(queue'[1])
      <4>1. SUFFICES ASSUME queue' # <<>>, queue'[1].link > 1
                     PROVE  activeHook' = Before(queue'[1])
        OBVIOUS
      <4>2. 1 \in 1 .. Len(queue')
        BY <3>2, <4>1
      <4>3. queue'[1] = queue[2] /\ 2 \in 1 .. Len(queue)
        BY <3>1, <4>2
      <4>4. queue[1] = Before(queue[2])
        BY <4>1, <4>3
      <4> QED
        BY <2>1, <3>1, <4>3, <4>4
    <3>5. activeHook' # None
      <4>1. activeHook' = queue[1] /\ queue[1].is = "hook"
        BY <2>1, <3>1, <3>2 DEF Links
      <4> QED
        BY <4>1
    <3> QED
      BY <3>3, <3>4, <3>5
  <2>2. CASE queue' = <<>>
    BY <2>2
  <2> QED
    BY <1>12, <2>1, <2>2 DEF Pump
<1>13. CASE StartLint
  BY <1>13 DEF StartLint, InEditor
<1>14. CASE LinterReads
  BY <1>14 DEF LinterReads
<1>15. CASE PollLint
  BY <1>15 DEF PollLint
<1>16. CASE EndLint
  BY <1>16 DEF EndLint
<1>17. CASE UNCHANGED workersVars
  BY <1>17 DEF workersVars
<1> QED
  BY <1>1, <1>2, <1>3, <1>4, <1>5, <1>6, <1>7, <1>8, <1>9, <1>10, <1>11, <1>12, <1>13, <1>14,
     <1>15, <1>16, <1>17 DEF WorkersNext

-----------------------------------------------------------------------------
(* The linter. *)

\* What the linter reads is no older than what it was started on and no newer than what
\* is on disk, and two looks at the file that saw the same write saw the same text.
ReadBetween ==
  lint # None =>
    /\ lint \in [is : {"running"}, disk : Disks, generation : Nat, read : Disks \cup {Unread}]
    /\ lint.generation <= generation
    /\ lint.disk.version <= disk.version
    /\ lint.disk.version = disk.version => lint.disk = disk
    /\ lint.generation = generation => lint.disk.text = text
    /\ lint.read # Unread =>
         /\ lint.disk.version <= lint.read.version /\ lint.read.version <= disk.version
         /\ lint.read.version = disk.version => lint.read = disk

\* Findings of the generation of the buffer are about its text.
FindingsFit ==
  results # None =>
    /\ results.generation \in Nat /\ results.generation <= generation
    /\ results.generation = generation => results.text = text

LintInv == ReadBetween /\ FindingsFit

\* Every step keeps what the linter has read between the versions.
LEMMA ReadKeeps == HooksInv /\ LintInv /\ [WorkersNext]_workersVars => ReadBetween'
<1> SUFFICES ASSUME HooksInv /\ LintInv, [WorkersNext]_workersVars
             PROVE  ReadBetween'
  OBVIOUS
<1> USE WorkersAssumption DEF HooksInv, LintInv, FileTypes, ReadBetween, Disks, Unread, textAndFile,
       command, hooks, linter, None
<1>1. CASE EditText
  BY <1>1 DEF EditText, Change, Generation, Invalidate
<1>2. CASE SaveFile
  BY <1>2 DEF SaveFile, InEditor
<1>3. CASE ReloadKey
  BY <1>3 DEF ReloadKey, Reload, Generation, Invalidate
<1>4. CASE Watch
  BY <1>4 DEF Watch, Reload, Generation, Invalidate
<1>5. CASE WriteDisk
  BY <1>5 DEF WriteDisk
<1>6. CASE Run
  BY <1>6 DEF Run, Start, InEditor
<1>7. CASE PollFinished
  BY <1>7 DEF PollFinished
<1>8. CASE EndTask
  BY <1>8 DEF EndTask, FinishCommand
<1>9. CASE Accept
  BY <1>9 DEF Accept, FinishCommand, Change, Generation, Invalidate
<1>10. CASE Reject
  BY <1>10 DEF Reject, FinishCommand
<1>11. CASE Help
  BY <1>11 DEF Help
<1>12. CASE Pump
  BY <1>12 DEF Pump, Start
<1>13. CASE StartLint
  BY <1>13 DEF StartLint, InEditor
<1>14. CASE LinterReads
  BY <1>14 DEF LinterReads
<1>15. CASE PollLint
  BY <1>15 DEF PollLint
<1>16. CASE EndLint
  BY <1>16 DEF EndLint
<1>17. CASE UNCHANGED workersVars
  BY <1>17 DEF workersVars
<1> QED
  BY <1>1, <1>2, <1>3, <1>4, <1>5, <1>6, <1>7, <1>8, <1>9, <1>10, <1>11, <1>12, <1>13, <1>14,
     <1>15, <1>16, <1>17 DEF WorkersNext

\* Every step keeps the findings on their text.
LEMMA FindingsKeep == HooksInv /\ LintInv /\ [WorkersNext]_workersVars => FindingsFit'
<1> SUFFICES ASSUME HooksInv /\ LintInv, [WorkersNext]_workersVars
             PROVE  FindingsFit'
  OBVIOUS
<1> USE WorkersAssumption DEF HooksInv, LintInv, FileTypes, ReadBetween, FindingsFit, textAndFile,
       command, hooks, linter, None
<1>1. CASE EditText
  BY <1>1 DEF EditText, Change, Generation, Invalidate
<1>2. CASE SaveFile
  BY <1>2 DEF SaveFile, InEditor
<1>3. CASE ReloadKey
  BY <1>3 DEF ReloadKey, Reload, Generation, Invalidate
<1>4. CASE Watch
  BY <1>4 DEF Watch, Reload, Generation, Invalidate
<1>5. CASE WriteDisk
  BY <1>5 DEF WriteDisk
<1>6. CASE Run
  BY <1>6 DEF Run, Start, InEditor
<1>7. CASE PollFinished
  BY <1>7 DEF PollFinished
<1>8. CASE EndTask
  BY <1>8 DEF EndTask, FinishCommand
<1>9. CASE Accept
  BY <1>9 DEF Accept, FinishCommand, Change, Generation, Invalidate
<1>10. CASE Reject
  BY <1>10 DEF Reject, FinishCommand
<1>11. CASE Help
  BY <1>11 DEF Help
<1>12. CASE Pump
  BY <1>12 DEF Pump, Start
<1>13. CASE StartLint
  BY <1>13 DEF StartLint, InEditor
<1>14. CASE LinterReads
  BY <1>14 DEF LinterReads
<1>15. CASE PollLint
  <2>1. CASE lint.generation = generation /\ lint.disk = disk
    <3>1. lint.read = disk
      <4>1. /\ lint # None /\ lint.read # Unread
            /\ lint.disk.version <= lint.read.version /\ lint.read.version <= disk.version
            /\ lint.read.version = disk.version => lint.read = disk
            /\ lint.read \in Disks
        BY <1>15 DEF PollLint
      <4>2. lint.read.version \in Nat /\ disk.version \in Nat
        BY <4>1 DEF Disks
      <4> QED
        BY <2>1, <4>1, <4>2
    <3> QED
      BY <1>15, <2>1, <3>1 DEF PollLint
  <2>2. CASE ~(lint.generation = generation /\ lint.disk = disk)
    BY <1>15, <2>2 DEF PollLint
  <2> QED
    BY <2>1, <2>2
<1>16. CASE EndLint
  BY <1>16 DEF EndLint
<1>17. CASE UNCHANGED workersVars
  BY <1>17 DEF workersVars
<1> QED
  BY <1>1, <1>2, <1>3, <1>4, <1>5, <1>6, <1>7, <1>8, <1>9, <1>10, <1>11, <1>12, <1>13, <1>14,
     <1>15, <1>16, <1>17 DEF WorkersNext

-----------------------------------------------------------------------------
(* The theorems. *)

\* The first state has the invariants.
LEMMA Starting ==
  ASSUME WorkersInit
  PROVE  HooksInv /\ LintInv
<1>1. disk \in Disks /\ saved = disk /\ text = disk.text /\ text \in Texts
  BY Bounds DEF WorkersInit, Disks
<1>2. FileTypes
  <2>1. revision = 0 /\ generation = 0 /\ chain = 1 /\ dirtyText = FALSE /\ help = FALSE
    BY DEF WorkersInit
  <2>2. /\ revision \in Nat /\ generation \in Nat /\ chain \in Nat
        /\ revision <= generation /\ generation <= MaxGeneration
        /\ 1 <= chain /\ chain <= MaxChain /\ saved \in Disks /\ text = saved.text
    BY <1>1, <2>1, Bounds
  <2> QED
    BY <1>1, <2>1, <2>2, Zenon DEF FileTypes
<1>3. 1 \in 1 .. MaxChain
  BY Bounds
<1>4. queue = Chain(1, OnOpen) /\ running = None /\ preview = None /\ activeHook = None
      /\ ~help /\ lint = None /\ results = None
  BY DEF WorkersInit
<1>5. /\ queue \in Seq(Links) /\ Len(queue) = OnOpen
      /\ \A k \in 1 .. OnOpen : queue[k].link = k
      /\ \A k \in 1 .. OnOpen : k > 1 => queue[k - 1] = Before(queue[k])
  BY <1>3, <1>4, Chaining, Bounds
<1>6. QueueInOrder
  BY <1>5, Bounds DEF QueueInOrder
<1>7. ScreenShared /\ QueueTypes /\ ActiveOnHand
  BY <1>4, <1>5 DEF ScreenShared, QueueTypes, ActiveOnHand, Busy
<1> QED
  BY <1>2, <1>4, <1>6, <1>7 DEF HooksInv, LintInv, ReadBetween, FindingsFit

\* The hooks of a chain wait in their order, behind the one that is active, and what the
\* linter has read lies between what it was started on and what is on disk.
THEOREM HooksAlways == WorkersSpec => [](HooksInv /\ LintInv)
<1>1. WorkersInit => HooksInv /\ LintInv
  BY Starting
<1>2. HooksInv /\ LintInv /\ [WorkersNext]_workersVars => (HooksInv /\ LintInv)'
  BY TypesKeep, ScreenKeeps, QueueTypesKeep, ActiveKeeps, OrderKeeps, ReadKeeps, FindingsKeep
  DEF HooksInv, LintInv
<1> QED
  BY <1>1, <1>2, PTL DEF WorkersSpec

\* The findings on screen are about the text on screen, though the linter reads the file
\* and others write it meanwhile: a finding is kept only if what was linted is still what
\* is on disk, and then it is what the linter read.
THEOREM FindingsAreCurrent == WorkersSpec => []LintIsCurrent
<1>1. HooksInv /\ LintInv => LintIsCurrent
  <2> SUFFICES ASSUME HooksInv, LintInv
               PROVE  LintIsCurrent
    OBVIOUS
  <2>1. /\ revision \in 0 .. generation /\ generation \in 0 .. MaxGeneration
        /\ disk \in Disks /\ saved \in Disks /\ text \in Texts
        /\ ~dirtyText => text = saved.text
    BY Bounds DEF HooksInv, FileTypes
  <2>2. dirtyText \in BOOLEAN /\ help \in BOOLEAN
    BY Zenon DEF HooksInv, FileTypes
  <2>3. WorkersTypeOK
    BY <2>1, <2>2, Zenon DEF HooksInv, ScreenShared, QueueTypes, ActiveOnHand, WorkersTypeOK
  <2> QED
    BY <2>3 DEF LintInv, FindingsFit, LintIsCurrent
<1> QED
  BY <1>1, HooksAlways, PTL

\* A hook starts only when the one before it in its chain has run and succeeded, unless
\* help ended a command of that chain: only pump starts one, and it takes the head of the
\* queue when none is active.
THEOREM HooksFollow == WorkersSpec => ChainInOrder
<1> DEFINE InOrder == running' # running /\ running' # None /\ running'.hook # None
                      => Follows(running'.hook) \/ running'.hook.chain \in helped
<1>1. HooksInv /\ [WorkersNext]_workersVars => [InOrder]_workersVars
  <2> SUFFICES ASSUME HooksInv, WorkersNext,
                      running' # running, running' # None, running'.hook # None
               PROVE  Follows(running'.hook) \/ running'.hook.chain \in helped
    OBVIOUS
  <2>1. CASE Pump
    <3>1. /\ queue # <<>> /\ activeHook = None /\ Head(queue) = queue[1]
          /\ running'.hook = queue[1]
      BY <2>1 DEF Pump, Start, HooksInv, QueueTypes
    <3>2. queue[1].link > 1 => Before(queue[1]) \in succeeded \/ queue[1].chain \in helped
      BY <3>1 DEF HooksInv, QueueInOrder
    <3> QED
      BY <3>1, <3>2 DEF Follows, Before
  <2>2. CASE Run
    BY <2>2 DEF Run, Start
  <2> QED
    BY <2>1, <2>2
    DEF WorkersNext, EditText, Change, SaveFile, ReloadKey, Watch, Reload, WriteDisk,
        PollFinished, EndTask,
        Accept, Reject, Help, StartLint, LinterReads, PollLint, EndLint, command
<1> QED
  BY <1>1, HooksAlways, PTL DEF WorkersSpec, ChainInOrder

-----------------------------------------------------------------------------
(* Recursive functions of a list. *)

\* What Own computes, element by element.
Owns(f, s, p) ==
  /\ f[0] = <<>>
  /\ \A k \in 1..Len(s) : f[k] = IF s[k].page = p THEN Append(f[k - 1], s[k]) ELSE f[k - 1]

LEMMA OwnFold ==
  ASSUME NEW S, NEW s \in Seq(S), NEW p
  PROVE  \E f \in [0..Len(s) -> Seq(S)] : Owns(f, s, p) /\ Own(s, p) = f[Len(s)]
<1> DEFINE n == Len(s)
           G == [k \in 1..n |->
                   [a \in Seq(S) |-> IF s[k].page = p THEN Append(a, s[k]) ELSE a]]
           Step(f, k) == IF k = 0 THEN <<>>
                         ELSE IF s[k].page = p THEN Append(f[k - 1], s[k]) ELSE f[k - 1]
           own == CHOOSE f : f = [k \in 0..n |-> Step(f, k)]
<1>1. n \in Nat /\ <<>> \in Seq(S)
  BY EmptySeq
<1>2. G \in [1..n -> [Seq(S) -> Seq(S)]]
  <2>1. \A k \in 1..n : s[k] \in S
    BY ElementOfSeq
  <2>2. \A k \in 1..n, a \in Seq(S) : Append(a, s[k]) \in Seq(S)
    BY <2>1, AppendProperties
  <2> HIDE DEF n
  <2> QED
    BY <2>2
<1>3. PICK f \in [0..n -> Seq(S)] : Folds(f, <<>>, G, n)
  <2> HIDE DEF G, n
  <2> QED
    BY <1>1, <1>2, FoldExists
<1>4. f[0] = <<>>
  BY <1>3 DEF Folds
<1>5. ASSUME NEW k \in 1..n
      PROVE  f[k] = IF s[k].page = p THEN Append(f[k - 1], s[k]) ELSE f[k - 1]
  <2>1. k - 1 \in 0..n
    BY <1>1
  <2>2. f[k - 1] \in Seq(S) /\ f[k] = G[k][f[k - 1]]
    BY <1>3, <2>1 DEF Folds
  <2> HIDE DEF n
  <2> QED
    BY <2>2
<1>6. f = [k \in 0..n |-> Step(f, k)]
  <2>1. \A k \in 0..n : f[k] = Step(f, k)
    <3> SUFFICES ASSUME NEW k \in 0..n
                 PROVE  f[k] = Step(f, k)
      OBVIOUS
    <3>1. CASE k = 0
      BY <1>4, <3>1
    <3>2. CASE k # 0
      <4>1. k \in 1..n
        BY <1>1, <3>2
      <4> QED
        BY <1>5, <3>2, <4>1
    <3> QED
      BY <3>1, <3>2
  <2> QED
    BY <1>3, <2>1
<1>7. own = [k \in 0..n |-> Step(own, k)]
  BY <1>6, Zenon
<1>8. Own(s, p) = own[n]
  BY DEF Own
<1>9. own[0] = <<>> /\ \A k \in 1..n : own[k] = Step(own, k)
  <2> HIDE DEF own, n
  <2>1. ASSUME NEW k \in 0..n
        PROVE  own[k] = Step(own, k)
    BY <1>7
  <2>2. 0 \in 0..n /\ \A k \in 1..n : k \in 0..n /\ k # 0
    BY <1>1
  <2> QED
    BY <2>1, <2>2
<1>10. \A k \in 0..n : own[k] = f[k]
  <2> HIDE DEF own, n
  <2>1. ASSUME NEW k \in 1..n, own[k - 1] = f[k - 1]
        PROVE  own[k] = f[k]
    <3>1. k # 0
      BY <1>1
    <3> QED
      BY <1>5, <1>9, <2>1, <3>1
  <2>2. InStep(own, f, n)
    BY <1>4, <1>9, <2>1 DEF InStep
  <2> QED
    BY <1>1, <2>2, Agree
<1>11. Owns(f, s, p)
  BY <1>4, <1>5 DEF Owns
<1>12. n \in 0..n
  BY <1>1
<1> QED
  BY <1>3, <1>8, <1>10, <1>11, <1>12

LEMMA OwnIsSeq ==
  ASSUME NEW S, NEW p, NEW s \in Seq(S)
  PROVE  Own(s, p) \in Seq(S)
<1>1. PICK f \in [0..Len(s) -> Seq(S)] : Owns(f, s, p) /\ Own(s, p) = f[Len(s)]
  BY OwnFold
<1> QED
  BY <1>1

LEMMA OwnEmpty ==
  ASSUME NEW p
  PROVE  Own(<<>>, p) = <<>>
<1>1. <<>> \in Seq({}) /\ Len(<<>>) = 0
  BY EmptySeq
<1>2. PICK f \in [0..Len(<<>>) -> Seq({})] : Owns(f, <<>>, p) /\ Own(<<>>, p) = f[Len(<<>>)]
  BY <1>1, OwnFold
<1> QED
  BY <1>1, <1>2 DEF Owns

LEMMA OwnAppend ==
  ASSUME NEW S, NEW s \in Seq(S), NEW t \in S, NEW p
  PROVE  /\ Own(s, p) \in Seq(S)
         /\ Own(Append(s, t), p) = IF t.page = p THEN Append(Own(s, p), t) ELSE Own(s, p)
<1> DEFINE u == Append(s, t)
           n == Len(s)
<1>1. /\ u \in Seq(S) /\ n \in Nat /\ Len(u) = n + 1 /\ u[n + 1] = t
      /\ \A k \in 1..n : u[k] = s[k]
  BY AppendAt
<1>3. PICK f \in [0..n -> Seq(S)] : Owns(f, s, p) /\ Own(s, p) = f[n]
  BY OwnFold
<1> HIDE DEF u
<1>4. PICK g \in [0..Len(u) -> Seq(S)] : Owns(g, u, p) /\ Own(u, p) = g[Len(u)]
  BY <1>1, OwnFold
<1>5. ASSUME NEW k \in 1..n, f[k - 1] = g[k - 1]
      PROVE  f[k] = g[k]
  <2>1. k \in 1..Len(u)
    BY <1>1
  <2> QED
    BY <1>1, <1>3, <1>4, <1>5, <2>1 DEF Owns
<1>6. f[n] = g[n]
  <2>1. InStep(f, g, n)
    BY <1>3, <1>4, <1>5 DEF InStep, Owns
  <2>2. n \in 0..n
    BY <1>1
  <2>3. n \in Nat
    BY <1>1
  <2> HIDE DEF n
  <2>4. \A k \in 0..n : f[k] = g[k]
    BY <2>1, <2>3, Agree
  <2> QED
    BY <2>2, <2>4
<1>7. n + 1 \in 1..Len(u) /\ (n + 1) - 1 = n
  BY <1>1
<1>8. g[n + 1] = IF t.page = p THEN Append(g[n], t) ELSE g[n]
  BY <1>1, <1>4, <1>7 DEF Owns
<1>9. f[n] \in Seq(S)
  BY <1>1, <1>3
<1> QED
  BY <1>1, <1>3, <1>4, <1>6, <1>8, <1>9 DEF u

LEMMA OwnConcat ==
  ASSUME NEW S, NEW u \in Seq(S), NEW p, NEW v \in Seq(S)
  PROVE  Own(u \o v, p) = Own(u, p) \o Own(v, p)
<1> DEFINE T == {n \in Nat : \A w \in Seq(S) :
                    Len(w) = n => Own(u \o w, p) = Own(u, p) \o Own(w, p)}
<1>0. \A w \in Seq(S) : Own(w, p) \in Seq(S)
  BY OwnIsSeq
<1>1. 0 \in T
  <2> SUFFICES ASSUME NEW w \in Seq(S), Len(w) = 0
               PROVE  Own(u \o w, p) = Own(u, p) \o Own(w, p)
    OBVIOUS
  <2>1. w = <<>>
    BY EmptySeq
  <2>2. Own(<<>>, p) = <<>>
    BY OwnEmpty
  <2> QED
    BY <1>0, <2>1, <2>2, ConcatEmptySeq
<1>2. ASSUME NEW n \in Nat, n \in T
      PROVE  n + 1 \in T
  <2> SUFFICES ASSUME NEW w \in Seq(S), Len(w) = n + 1
               PROVE  Own(u \o w, p) = Own(u, p) \o Own(w, p)
    OBVIOUS
  <2> DEFINE x == Front(w)
             t == Last(w)
  <2>1. x \in Seq(S) /\ t \in S /\ Len(x) = n /\ w = Append(x, t)
    <3>1. w # <<>> /\ Len(w) - 1 = n
      BY EmptySeq
    <3>2. /\ Front(w) \in Seq(S) /\ Last(w) \in S /\ Len(Front(w)) = Len(w) - 1
          /\ w = Append(Front(w), Last(w))
      BY <3>1, FrontAt
    <3> QED
      BY <3>1, <3>2
  <2> HIDE DEF x, t
  <2>2. u \o x \in Seq(S) /\ u \o w = Append(u \o x, t)
    BY <2>1, ConcatAppend
  <2>3. Own(u \o x, p) = Own(u, p) \o Own(x, p)
    BY <1>2, <2>1
  <2>4. Own(u \o w, p) = IF t.page = p THEN Append(Own(u \o x, p), t) ELSE Own(u \o x, p)
    <3> DEFINE y == u \o x
    <3>1. y \in Seq(S) /\ t \in S
      BY <2>1, <2>2
    <3> HIDE DEF y
    <3>2. Own(Append(y, t), p) = IF t.page = p THEN Append(Own(y, p), t) ELSE Own(y, p)
      BY <3>1, OwnAppend
    <3> QED
      BY <2>2, <3>2 DEF y
  <2>5. Own(w, p) = IF t.page = p THEN Append(Own(x, p), t) ELSE Own(x, p)
    <3>1. x \in Seq(S) /\ t \in S
      BY <2>1
    <3>2. Own(Append(x, t), p) = IF t.page = p THEN Append(Own(x, p), t) ELSE Own(x, p)
      BY <3>1, OwnAppend
    <3> QED
      BY <2>1, <3>2
  <2>6. Own(u, p) \o Append(Own(x, p), t) = Append(Own(u, p) \o Own(x, p), t)
    BY <1>0, <2>1, ConcatAppend
  <2> QED
    BY <2>3, <2>4, <2>5, <2>6
<1>3. Len(v) \in T
  <2>1. Len(v) \in Nat
    OBVIOUS
  <2> HIDE DEF T
  <2> QED
    BY <1>1, <1>2, <2>1, Induction
<1> QED
  BY <1>3

\* What goes from the front of a list goes from the front of every page's part of it.
LEMMA OwnSplit ==
  ASSUME NEW S, NEW s \in Seq(S), NEW p, NEW k \in 0..Len(s)
  PROVE  LET prefix == SubSeq(s, 1, k)
             suffix == SubSeq(s, k + 1, Len(s))
         IN  /\ prefix \in Seq(S) /\ suffix \in Seq(S)
             /\ Own(s, p) \in Seq(S) /\ Own(prefix, p) \in Seq(S) /\ Own(suffix, p) \in Seq(S)
             /\ Own(s, p) = Own(prefix, p) \o Own(suffix, p)
<1> DEFINE prefix == SubSeq(s, 1, k)
           suffix == SubSeq(s, k + 1, Len(s))
<1>1. prefix \in Seq(S) /\ suffix \in Seq(S)
  BY PrefixAt, SuffixAt
<1>2. s = prefix \o suffix
  BY SplitIsAll
<1>3. \A w \in Seq(S) : Own(w, p) \in Seq(S)
  BY OwnIsSeq
<1> HIDE DEF prefix, suffix
<1>4. Own(prefix \o suffix, p) = Own(prefix, p) \o Own(suffix, p)
  BY <1>1, OwnConcat
<1> QED
  BY <1>1, <1>2, <1>3, <1>4 DEF prefix, suffix

\* A page has no part of a list of which nothing is about it.
LEMMA OwnNone ==
  ASSUME NEW S, NEW s \in Seq(S), NEW p
  PROVE  Own(s, p) = <<>> <=> \A i \in 1..Len(s) : s[i].page # p
<1> DEFINE T == {n \in Nat : \A w \in Seq(S) :
                    Len(w) = n => (Own(w, p) = <<>> <=> \A i \in 1..n : w[i].page # p)}
<1>1. 0 \in T
  <2> SUFFICES ASSUME NEW w \in Seq(S), Len(w) = 0
               PROVE  Own(w, p) = <<>>
    OBVIOUS
  <2>1. w = <<>>
    BY EmptySeq
  <2> QED
    BY <2>1, OwnEmpty
<1>2. ASSUME NEW n \in Nat, n \in T
      PROVE  n + 1 \in T
  <2> SUFFICES ASSUME NEW w \in Seq(S), Len(w) = n + 1
               PROVE  Own(w, p) = <<>> <=> \A i \in 1..n + 1 : w[i].page # p
    OBVIOUS
  <2> DEFINE x == Front(w)
             t == Last(w)
  <2>1. /\ x \in Seq(S) /\ t \in S /\ Len(x) = n /\ w = Append(x, t)
        /\ t = w[n + 1] /\ \A i \in 1..n : x[i] = w[i]
    <3>1. w # <<>> /\ Len(w) - 1 = n
      BY EmptySeq
    <3>2. /\ Front(w) \in Seq(S) /\ Last(w) \in S /\ Len(Front(w)) = Len(w) - 1
          /\ w = Append(Front(w), Last(w)) /\ Last(w) = w[Len(w)]
          /\ \A i \in 1..Len(w) - 1 : Front(w)[i] = w[i]
      BY <3>1, FrontAt
    <3> QED
      BY <3>1, <3>2
  <2> HIDE DEF x, t
  <2>2. Own(x, p) \in Seq(S)
    BY <2>1, OwnIsSeq
  <2>3. Own(w, p) = IF t.page = p THEN Append(Own(x, p), t) ELSE Own(x, p)
    <3>1. x \in Seq(S) /\ t \in S
      BY <2>1
    <3>2. Own(Append(x, t), p) = IF t.page = p THEN Append(Own(x, p), t) ELSE Own(x, p)
      BY <3>1, OwnAppend
    <3> QED
      BY <2>1, <3>2
  <2>4. Own(x, p) = <<>> <=> \A i \in 1..n : x[i].page # p
    BY <1>2, <2>1
  <2>5. CASE t.page = p
    <3>1. Own(w, p) # <<>>
      BY <2>1, <2>2, <2>3, <2>5, AppendAt
    <3>2. n + 1 \in 1..n + 1 /\ w[n + 1].page = p
      BY <2>1, <2>5
    <3> QED
      BY <3>1, <3>2
  <2>6. CASE t.page # p
    <3>1. (\A i \in 1..n + 1 : w[i].page # p) <=> \A i \in 1..n : w[i].page # p
      <4>1. 1..n + 1 = (1..n) \cup {n + 1}
        OBVIOUS
      <4>2. w[n + 1].page # p
        BY <2>1, <2>6
      <4> QED
        BY <4>1, <4>2
    <3>2. (\A i \in 1..n : x[i].page # p) <=> \A i \in 1..n : w[i].page # p
      BY <2>1
    <3> QED
      BY <2>3, <2>4, <2>6, <3>1, <3>2
  <2> QED
    BY <2>5, <2>6
<1>3. Len(s) \in T
  <2>1. Len(s) \in Nat
    OBVIOUS
  <2> HIDE DEF T
  <2> QED
    BY <1>1, <1>2, <2>1, Induction
<1> QED
  BY <1>3

-----------------------------------------------------------------------------
(* What a list of transactions retains. *)

Changes == [page : Pages, id : Nat, bytes : Nat,
            before : [Pages -> PageTexts], after : [Pages -> PageTexts]]

Sums(f, s) == f[0] = 0 /\ \A k \in 1..Len(s) : f[k] = f[k - 1] + s[k].bytes

LEMMA BytesFold ==
  ASSUME NEW s \in Seq(Changes)
  PROVE  \E f \in [0..Len(s) -> Nat] : Sums(f, s) /\ Bytes(s) = f[Len(s)]
<1> DEFINE n == Len(s)
           G == [k \in 1..n |-> [a \in Nat |-> a + s[k].bytes]]
           Step(f, k) == IF k = 0 THEN 0 ELSE f[k - 1] + s[k].bytes
           sum == CHOOSE f : f = [k \in 0..n |-> Step(f, k)]
<1>1. n \in Nat
  OBVIOUS
<1>2. G \in [1..n -> [Nat -> Nat]]
  <2>1. ASSUME NEW k \in 1..n
        PROVE  s[k].bytes \in Nat
    <3>1. s[k] \in Changes
      BY ElementOfSeq
    <3> QED
      BY <3>1 DEF Changes
  <2> HIDE DEF n
  <2> QED
    BY <2>1
<1>3. PICK f \in [0..n -> Nat] : Folds(f, 0, G, n)
  <2> HIDE DEF G, n
  <2> QED
    BY <1>1, <1>2, FoldExists
<1>4. f[0] = 0
  BY <1>3 DEF Folds
<1>5. ASSUME NEW k \in 1..n
      PROVE  f[k] = f[k - 1] + s[k].bytes
  <2>1. k - 1 \in 0..n
    BY <1>1
  <2>2. f[k - 1] \in Nat /\ f[k] = G[k][f[k - 1]]
    BY <1>3, <2>1 DEF Folds
  <2> HIDE DEF n
  <2> QED
    BY <2>2
<1>6. f = [k \in 0..n |-> Step(f, k)]
  <2>1. ASSUME NEW k \in 0..n
        PROVE  f[k] = Step(f, k)
    <3>1. CASE k = 0
      BY <1>4, <3>1
    <3>2. CASE k # 0
      <4>1. k \in 1..n
        BY <1>1, <3>2
      <4> QED
        BY <1>5, <3>2, <4>1
    <3> QED
      BY <3>1, <3>2
  <2> QED
    BY <1>3, <2>1
<1>7. sum = [k \in 0..n |-> Step(sum, k)]
  BY <1>6, Zenon
<1>8. Bytes(s) = sum[n]
  BY DEF Bytes
<1>9. sum[0] = 0 /\ \A k \in 1..n : sum[k] = Step(sum, k)
  <2> HIDE DEF sum, n
  <2>1. ASSUME NEW k \in 0..n
        PROVE  sum[k] = Step(sum, k)
    BY <1>7
  <2>2. 0 \in 0..n /\ \A k \in 1..n : k \in 0..n /\ k # 0
    BY <1>1
  <2> QED
    BY <2>1, <2>2
<1>10. \A k \in 0..n : sum[k] = f[k]
  <2> HIDE DEF sum, n
  <2>1. ASSUME NEW k \in 1..n, sum[k - 1] = f[k - 1]
        PROVE  sum[k] = f[k]
    <3>1. k # 0
      BY <1>1
    <3> QED
      BY <1>5, <1>9, <2>1, <3>1
  <2>2. InStep(sum, f, n)
    BY <1>4, <1>9, <2>1 DEF InStep
  <2> QED
    BY <1>1, <2>2, Agree
<1>11. Sums(f, s)
  BY <1>4, <1>5 DEF Sums
<1>12. n \in 0..n
  BY <1>1
<1> QED
  BY <1>3, <1>8, <1>10, <1>11, <1>12

LEMMA BytesIsNat ==
  ASSUME NEW s \in Seq(Changes)
  PROVE  Bytes(s) \in Nat
<1>1. PICK f \in [0..Len(s) -> Nat] : Sums(f, s) /\ Bytes(s) = f[Len(s)]
  BY BytesFold
<1> QED
  BY <1>1

LEMMA BytesEmpty == Bytes(<<>>) = 0
<1>1. <<>> \in Seq(Changes) /\ Len(<<>>) = 0
  BY EmptySeq
<1>2. PICK f \in [0..Len(<<>>) -> Nat] : Sums(f, <<>>) /\ Bytes(<<>>) = f[Len(<<>>)]
  BY <1>1, BytesFold
<1> QED
  BY <1>1, <1>2 DEF Sums

LEMMA BytesAppend ==
  ASSUME NEW s \in Seq(Changes), NEW t \in Changes
  PROVE  Bytes(Append(s, t)) = Bytes(s) + t.bytes
<1> DEFINE u == Append(s, t)
           n == Len(s)
<1>1. /\ u \in Seq(Changes) /\ n \in Nat /\ Len(u) = n + 1 /\ u[n + 1] = t
      /\ \A k \in 1..n : u[k] = s[k]
  BY AppendAt
<1>2. PICK f \in [0..n -> Nat] : Sums(f, s) /\ Bytes(s) = f[n]
  BY BytesFold
<1> HIDE DEF u
<1>3. PICK g \in [0..Len(u) -> Nat] : Sums(g, u) /\ Bytes(u) = g[Len(u)]
  BY <1>1, BytesFold
<1>4. ASSUME NEW k \in 1..n, f[k - 1] = g[k - 1]
      PROVE  f[k] = g[k]
  <2>1. k \in 1..Len(u)
    BY <1>1
  <2> QED
    BY <1>1, <1>2, <1>3, <1>4, <2>1 DEF Sums
<1>5. f[n] = g[n]
  <2>1. InStep(f, g, n)
    BY <1>2, <1>3, <1>4 DEF InStep, Sums
  <2>2. n \in 0..n
    BY <1>1
  <2> QED
    BY <1>1, <2>1, <2>2, Agree
<1>6. n + 1 \in 1..Len(u) /\ (n + 1) - 1 = n
  BY <1>1
<1>7. g[n + 1] = g[n] + t.bytes
  BY <1>1, <1>3, <1>6 DEF Sums
<1> QED
  BY <1>1, <1>2, <1>3, <1>5, <1>7 DEF u

LEMMA BytesFront ==
  ASSUME NEW s \in Seq(Changes), s # <<>>
  PROVE  Bytes(s) = Bytes(Front(s)) + Last(s).bytes
<1>1. Front(s) \in Seq(Changes) /\ Last(s) \in Changes /\ s = Append(Front(s), Last(s))
  BY FrontAt
<1>2. Bytes(Append(Front(s), Last(s))) = Bytes(Front(s)) + Last(s).bytes
  BY <1>1, BytesAppend
<1> QED
  BY <1>1, <1>2

LEMMA BytesConcat ==
  ASSUME NEW u \in Seq(Changes), NEW v \in Seq(Changes)
  PROVE  Bytes(u \o v) = Bytes(u) + Bytes(v)
<1> DEFINE T == {n \in Nat : \A w \in Seq(Changes) :
                    Len(w) = n => Bytes(u \o w) = Bytes(u) + Bytes(w)}
<1>0. \A w \in Seq(Changes) : Bytes(w) \in Nat
  BY BytesIsNat
<1>1. 0 \in T
  <2> SUFFICES ASSUME NEW w \in Seq(Changes), Len(w) = 0
               PROVE  Bytes(u \o w) = Bytes(u) + Bytes(w)
    OBVIOUS
  <2>1. w = <<>>
    BY EmptySeq
  <2>2. u \o w = u
    BY <2>1, ConcatEmptySeq
  <2> QED
    BY <1>0, <2>1, <2>2, BytesEmpty
<1>2. ASSUME NEW n \in Nat, n \in T
      PROVE  n + 1 \in T
  <2> SUFFICES ASSUME NEW w \in Seq(Changes), Len(w) = n + 1
               PROVE  Bytes(u \o w) = Bytes(u) + Bytes(w)
    OBVIOUS
  <2> DEFINE x == Front(w)
             t == Last(w)
  <2>1. /\ x \in Seq(Changes) /\ t \in Changes /\ Len(x) = n /\ w = Append(x, t)
        /\ Bytes(w) = Bytes(x) + t.bytes
    <3>1. w # <<>> /\ Len(w) - 1 = n
      BY EmptySeq
    <3>2. /\ Front(w) \in Seq(Changes) /\ Last(w) \in Changes /\ Len(Front(w)) = Len(w) - 1
          /\ w = Append(Front(w), Last(w))
      BY <3>1, FrontAt
    <3>3. Bytes(w) = Bytes(Front(w)) + Last(w).bytes
      BY <3>1, BytesFront
    <3> QED
      BY <3>1, <3>2, <3>3
  <2> HIDE DEF x, t
  <2>2. u \o x \in Seq(Changes) /\ u \o w = Append(u \o x, t)
    BY <2>1, ConcatAppend
  <2>3. Bytes(u \o x) = Bytes(u) + Bytes(x)
    BY <1>2, <2>1
  <2>4. Bytes(u \o w) = Bytes(u \o x) + t.bytes
    <3> DEFINE y == u \o x
    <3>1. y \in Seq(Changes) /\ t \in Changes
      BY <2>1, <2>2
    <3> HIDE DEF y
    <3>2. Bytes(Append(y, t)) = Bytes(y) + t.bytes
      BY <3>1, BytesAppend
    <3> QED
      BY <2>2, <3>2 DEF y
  <2>5. Bytes(u) \in Nat /\ Bytes(x) \in Nat /\ t.bytes \in Nat
    BY <1>0, <2>1 DEF Changes
  <2> QED
    BY <2>1, <2>3, <2>4, <2>5
<1>3. Len(v) \in T
  <2>1. Len(v) \in Nat
    OBVIOUS
  <2> HIDE DEF T
  <2> QED
    BY <1>1, <1>2, <2>1, Induction
<1> QED
  BY <1>3

LEMMA BytesSplit ==
  ASSUME NEW s \in Seq(Changes), NEW k \in 0..Len(s)
  PROVE  Bytes(s) = Bytes(SubSeq(s, 1, k)) + Bytes(SubSeq(s, k + 1, Len(s)))
<1> DEFINE prefix == SubSeq(s, 1, k)
           suffix == SubSeq(s, k + 1, Len(s))
<1>1. prefix \in Seq(Changes) /\ suffix \in Seq(Changes)
  BY PrefixAt, SuffixAt
<1>2. s = prefix \o suffix
  BY SplitIsAll
<1> HIDE DEF prefix, suffix
<1>3. Bytes(prefix \o suffix) = Bytes(prefix) + Bytes(suffix)
  BY <1>1, BytesConcat
<1> QED
  BY <1>2, <1>3 DEF prefix, suffix

-----------------------------------------------------------------------------
(* The invariant. *)

PageChanges == [before : PageTexts, after : PageTexts, bytes : Nat, id : Nat]
PageStates  == [text : PageTexts, undo : Seq(PageChanges), redo : Seq(PageChanges),
                base : Nat, next : Nat, current : Nat, run : Runs \cup {NoRun}]

First(page) == IF page.undo = <<>> THEN page.text ELSE page.undo[1].before

\* A page whose next position is at most n: it stands at the newest of its
\* changes, and as long as none was discarded it goes back to the file.
Sound(page, n) ==
  /\ page \in PageStates
  /\ page.next \in 1..n /\ page.base < page.next
  /\ \A i \in 1..Len(page.undo) : page.undo[i].id \in 1..page.next - 1
  /\ \A i \in 1..Len(page.redo) : page.redo[i].id \in 1..page.next - 1
  /\ page.current = IF page.undo = <<>> THEN page.base ELSE Last(page.undo).id
  /\ page.base = 0 => First(page) = Original

\* s is what page p keeps of the list o.
Matches(s, o, p) ==
  /\ Len(s) = Len(o)
  /\ \A i \in 1..Len(o) :
       s[i].before = o[i].before[p] /\ s[i].after = o[i].after[p]
       /\ s[i].bytes + Overhead = o[i].bytes

IsMap(f) == f = [x \in DOMAIN f |-> f[x]]

\* The pages in memory, `at` among them, when the global history is u and r.
InMemory(mem, at, u, r, n) ==
  /\ DOMAIN mem \subseteq Pages /\ IsMap(mem)
  /\ at \in DOMAIN mem
  /\ \A p \in DOMAIN mem :
       /\ Sound(mem[p], n)
       /\ Matches(mem[p].undo, Own(u, p), p) /\ Matches(mem[p].redo, Own(r, p), p)
       /\ p # at => mem[p].run = NoRun
  /\ \A p \in Pages \ DOMAIN mem : Own(u, p) = <<>> /\ Own(r, p) = <<>>

\* A change to one page, and a list of such changes below position n.
OnePage(t) == \A p \in Pages : p # t.page => t.before[p] = t.after[p]
Legal(s, n) ==
  /\ s \in Seq(Changes)
  /\ \A i \in 1..Len(s) : s[i].id \in 1..n - 1 /\ OnePage(s[i])

\* Undo leads back from d, one change to the next, and redo on from d.
Linked(u, r, d) ==
  /\ \A i \in 1..Len(u) : u[i].after = IF i = Len(u) THEN d ELSE u[i + 1].before
  /\ \A i \in 1..Len(r) : r[i].before = IF i = Len(r) THEN d ELSE r[i + 1].after

PagedInv ==
  /\ InMemory(pages, onScreen, undo, redo, nextId)
  /\ pages[onScreen].run # NoRun => undo # <<>> /\ redo = <<>> /\ Last(undo).page = onScreen
  /\ Legal(undo, nextId) /\ Legal(redo, nextId) /\ Linked(undo, redo, document)
  /\ retained = Bytes(undo) + Bytes(redo)
  /\ retained <= MaxBytes \/ Len(undo) + Len(redo) = 1
  /\ {baseId, currentId, savedId} \subseteq 0..(nextId - 1) /\ nextId \in 1..MaxPosition

-----------------------------------------------------------------------------
(* One page. *)

LEMMA Loaded ==
  ASSUME NEW n \in Nat \ {0}
  PROVE  Sound(Load, n)
<1>1. Original \in PageTexts
  BY PagedHistoryAssumption
<1>2. Load \in PageStates
  <2>1. <<>> \in Seq(PageChanges)
    OBVIOUS
  <2> QED
    BY <1>1, <2>1 DEF PageStates, Load
<1>3. Len(<<>>) = 0
  BY EmptySeq
<1> QED
  BY <1>2, <1>3 DEF Sound, Load, First

LEMMA SoundLater ==
  ASSUME NEW n \in Nat, NEW page, Sound(page, n)
  PROVE  Sound(page, n + 1)
<1>1. page.next \in 1..n + 1
  BY DEF Sound
<1> QED
  BY <1>1 DEF Sound

\* The file can stand for a page at its first position.
LEMMA FirstIsOriginal ==
  ASSUME NEW n \in Nat, NEW page, Sound(page, n), page.current = 0
  PROVE  page.undo = <<>> /\ page.text = Original
<1>1. page.undo \in Seq(PageChanges) /\ page.next \in Nat
  BY DEF Sound, PageStates
<1>2. page.undo = <<>>
  <2> SUFFICES ASSUME page.undo # <<>>
               PROVE  FALSE
    OBVIOUS
  <2>1. Len(page.undo) \in Nat \ {0} /\ Last(page.undo) = page.undo[Len(page.undo)]
    BY <1>1, FrontAt
  <2>2. Len(page.undo) \in 1..Len(page.undo)
    BY <2>1
  <2>3. page.undo[Len(page.undo)].id \in 1..page.next - 1
    BY <2>2 DEF Sound
  <2>4. page.current = page.undo[Len(page.undo)].id
    BY <2>1 DEF Sound
  <2> QED
    BY <1>1, <2>3, <2>4
<1> QED
  BY <1>2 DEF Sound, First

LEMMA RunFinished ==
  ASSUME NEW n \in Nat, NEW page, Sound(page, n)
  PROVE  /\ Sound(FinishRun(page), n)
         /\ FinishRun(page).text = page.text /\ FinishRun(page).run = NoRun
         /\ FinishRun(page).undo = page.undo /\ FinishRun(page).redo = page.redo
         /\ FinishRun(page).current = page.current
<1> DEFINE q == FinishRun(page)
<1>1. page \in PageStates
  BY DEF Sound
<1>2. /\ q \in PageStates /\ q.text = page.text /\ q.run = NoRun /\ q.undo = page.undo
      /\ q.redo = page.redo /\ q.current = page.current /\ q.base = page.base
      /\ q.next = page.next
  BY <1>1 DEF PageStates, FinishRun
<1> HIDE DEF q
<1>3. Sound(q, n)
  BY <1>2 DEF Sound, First
<1> QED
  BY <1>2, <1>3 DEF q

LEMMA RedoCleared ==
  ASSUME NEW n \in Nat, NEW page, Sound(page, n)
  PROVE  /\ Sound(ClearRedo(page), n)
         /\ ClearRedo(page).text = page.text /\ ClearRedo(page).run = page.run
         /\ ClearRedo(page).undo = page.undo /\ ClearRedo(page).redo = <<>>
<1> DEFINE q == ClearRedo(page)
<1>1. page \in PageStates /\ <<>> \in Seq(PageChanges) /\ Len(<<>>) = 0
  BY DEF Sound
<1>2. /\ q \in PageStates /\ q.text = page.text /\ q.run = page.run /\ q.undo = page.undo
      /\ q.redo = <<>> /\ q.current = page.current /\ q.base = page.base
      /\ q.next = page.next
  BY <1>1 DEF PageStates, ClearRedo
<1> HIDE DEF q
<1>3. Sound(q, n)
  BY <1>1, <1>2 DEF Sound, First
<1> QED
  BY <1>2, <1>3 DEF q

\* An edit is the newest change of its page, and nothing is left to redo.
LEMMA EditRecorded ==
  ASSUME NEW n \in Nat, NEW page, Sound(page, n),
         NEW typed \in PageTexts, NEW bytes \in Nat, NEW run \in Runs \cup {NoRun}
  PROVE  LET q == RecordLocally(page, typed, bytes, run)
             x == [before |-> page.text, after |-> typed, bytes |-> bytes, id |-> page.next]
         IN  /\ Sound(q, n + 1)
             /\ q.undo = Append(page.undo, x) /\ q.redo = <<>>
             /\ q.text = typed /\ q.run = run /\ x \in PageChanges
<1> DEFINE q == RecordLocally(page, typed, bytes, run)
           x == [before |-> page.text, after |-> typed, bytes |-> bytes, id |-> page.next]
           u == page.undo
<1>1. page \in PageStates /\ page.next \in 1..n /\ u \in Seq(PageChanges)
  BY DEF Sound, PageStates
<1>2. x \in PageChanges /\ x.id = page.next /\ x.before = page.text
  BY <1>1 DEF PageStates, PageChanges
<1>3. /\ q.text = typed /\ q.redo = <<>> /\ q.run = run /\ q.undo = Append(u, x)
      /\ q.current = page.next /\ q.next = page.next + 1 /\ q.base = page.base
  BY <1>1 DEF PageStates, RecordLocally
<1>4. q \in PageStates
  <2>1. <<>> \in Seq(PageChanges) /\ page.next + 1 \in Nat /\ page.next \in Nat
    BY <1>1
  <2>2. Append(u, x) \in Seq(PageChanges)
    BY <1>1, <1>2, AppendAt
  <2> HIDE DEF x
  <2>3. q = [page EXCEPT !.text = typed, !.redo = <<>>, !.run = run, !.undo = Append(u, x),
                         !.current = page.next, !.next = page.next + 1]
    BY <1>1 DEF RecordLocally, PageStates, x
  <2> HIDE DEF q
  <2> QED
    BY <1>1, <2>1, <2>2, <2>3 DEF PageStates
<1> HIDE DEF x, q
<1>5. /\ Append(u, x) \in Seq(PageChanges) /\ Append(u, x) # <<>>
      /\ Len(u) \in Nat /\ Len(Append(u, x)) = Len(u) + 1
      /\ \A i \in 1..Len(u) : Append(u, x)[i] = u[i]
      /\ Append(u, x)[Len(u) + 1] = x
  BY <1>1, <1>2, AppendAt
<1>6. Last(q.undo) = x
  BY <1>3, <1>5 DEF Last
<1>7. \A i \in 1..Len(q.undo) : q.undo[i].id \in 1..q.next - 1
  <2> SUFFICES ASSUME NEW i \in 1..Len(u) + 1
               PROVE  Append(u, x)[i].id \in 1..page.next
    BY <1>1, <1>3, <1>5
  <2>1. CASE i \in 1..Len(u)
    BY <1>1, <1>5, <2>1 DEF Sound
  <2>2. CASE i = Len(u) + 1
    BY <1>1, <1>2, <1>5, <2>2
  <2> QED
    BY <1>5, <2>1, <2>2
<1>8. First(q) = First(page)
  <2>1. CASE u = <<>>
    <3>1. q.undo[1] = x
      BY <1>3, <1>5, <2>1, EmptySeq
    <3> QED
      BY <1>2, <1>3, <1>5, <2>1, <3>1 DEF First
  <2>2. CASE u # <<>>
    <3>1. 1 \in 1..Len(u)
      BY <1>1, <2>2, FrontAt
    <3> QED
      BY <1>3, <1>5, <2>2, <3>1 DEF First
  <2> QED
    BY <2>1, <2>2
<1>9. q.next \in 1..n + 1 /\ q.base < q.next
  BY <1>1, <1>3 DEF Sound, PageStates
<1>10. Sound(q, n + 1)
  <2>1. \A i \in 1..Len(q.redo) : q.redo[i].id \in 1..q.next - 1
    BY <1>3, EmptySeq
  <2>2. q.current = IF q.undo = <<>> THEN q.base ELSE Last(q.undo).id
    BY <1>2, <1>3, <1>5, <1>6
  <2>3. q.base = 0 => First(q) = Original
    BY <1>3, <1>8 DEF Sound
  <2> QED
    BY <1>4, <1>7, <1>9, <2>1, <2>2, <2>3 DEF Sound
<1> QED
  BY <1>2, <1>3, <1>10 DEF q, x

\* A scalar that extends the newest change moves it, and the page, to a new position.
Extends(q, page, typed, n) ==
  /\ Sound(q, n)
  /\ q.redo = page.redo /\ q.text = typed /\ q.run = page.run
  /\ \E x \in PageChanges : /\ q.undo = Append(Front(page.undo), x)
                            /\ x.before = Last(page.undo).before /\ x.after = typed
LEMMA EditExtended ==
  ASSUME NEW n \in Nat, NEW page, Sound(page, n), page.undo # <<>>, NEW typed \in PageTexts
  PROVE  Extends(Extended(page, typed), page, typed, n + 1)
<1> DEFINE q == Extended(page, typed)
           x == [Last(page.undo) EXCEPT !.after = typed, !.bytes = @ + 1, !.id = page.next]
           u == page.undo
           f == Front(u)
<1>1. page \in PageStates /\ page.next \in 1..n /\ u \in Seq(PageChanges)
  BY DEF Sound, PageStates
<1>2. /\ Len(u) \in Nat \ {0} /\ Last(u) = u[Len(u)] /\ Last(u) \in PageChanges
      /\ f \in Seq(PageChanges) /\ Len(f) = Len(u) - 1
      /\ \A i \in 1..Len(u) - 1 : f[i] = u[i]
  BY <1>1, FrontAt
<1>3. x \in PageChanges /\ x.id = page.next /\ x.before = Last(u).before /\ x.after = typed
  <2> DEFINE y == Last(u)
  <2>1. y \in PageChanges /\ page.next \in Nat
    BY <1>1, <1>2
  <2> HIDE DEF y
  <2>2. [y EXCEPT !.after = typed, !.bytes = @ + 1, !.id = page.next] \in PageChanges
    <3> DEFINE b == y.bytes + 1
               m == page.next
    <3>1. b \in Nat /\ m \in Nat
      BY <2>1 DEF PageChanges
    <3> HIDE DEF b, m
    <3>2. [y EXCEPT !.after = typed, !.bytes = b, !.id = m] \in PageChanges
      BY <2>1, <3>1 DEF PageChanges
    <3> QED
      BY <3>2 DEF b, m
  <2>3. x = [y EXCEPT !.after = typed, !.bytes = @ + 1, !.id = page.next]
    BY DEF y
  <2> QED
    BY <2>1, <2>2, <2>3 DEF PageChanges, y
<1>4. q = [page EXCEPT !.text = typed, !.undo = Append(f, x),
                       !.current = page.next, !.next = page.next + 1]
  BY Zenon DEF Extended
<1> HIDE DEF x, q, f
<1>5. /\ q \in PageStates
      /\ q.text = typed /\ q.redo = page.redo /\ q.run = page.run /\ q.undo = Append(f, x)
      /\ q.current = page.next /\ q.next = page.next + 1 /\ q.base = page.base
  <2>1. page.next + 1 \in Nat /\ page.next \in Nat
    BY <1>1
  <2>2. Append(f, x) \in Seq(PageChanges)
    BY <1>2, <1>3, AppendAt
  <2> QED
    BY <1>1, <1>4, <2>1, <2>2 DEF PageStates
<1>6. /\ Append(f, x) \in Seq(PageChanges) /\ Append(f, x) # <<>>
      /\ Len(f) \in Nat /\ Len(Append(f, x)) = Len(f) + 1
      /\ \A i \in 1..Len(f) : Append(f, x)[i] = f[i]
      /\ Append(f, x)[Len(f) + 1] = x
  BY <1>2, <1>3, AppendAt
<1>7. Last(q.undo) = x
  BY <1>5, <1>6 DEF Last
<1>8. \A i \in 1..Len(q.undo) : q.undo[i].id \in 1..q.next - 1
  <2> SUFFICES ASSUME NEW i \in 1..Len(f) + 1
               PROVE  Append(f, x)[i].id \in 1..page.next
    BY <1>1, <1>5, <1>6
  <2>1. CASE i \in 1..Len(f)
    <3>1. Append(f, x)[i] = f[i]
      BY <1>6, <2>1
    <3>2. i \in 1..Len(u) /\ f[i] = u[i]
      BY <1>2, <2>1
    <3>3. u[i].id \in 1..page.next - 1
      BY <3>2 DEF Sound
    <3> QED
      BY <1>1, <3>1, <3>2, <3>3
  <2>2. CASE i = Len(f) + 1
    BY <1>1, <1>3, <1>6, <2>2
  <2> QED
    BY <1>6, <2>1, <2>2
<1>9. First(q) = First(page)
  <2>1. First(page) = u[1].before
    BY DEF First
  <2>2. First(q) = Append(f, x)[1].before
    BY <1>5, <1>6 DEF First
  <2>3. CASE Len(f) = 0
    BY <1>2, <1>3, <1>6, <2>1, <2>2, <2>3
  <2>4. CASE Len(f) # 0
    <3>0. Len(f) \in Nat \ {0} /\ Len(f) = Len(u) - 1
      BY <1>2, <1>6, <2>4
    <3>1. 1 \in 1..Len(f) /\ 1 \in 1..Len(u) - 1
      <4>1. \A m \in Nat \ {0} : 1 \in 1..m
        OBVIOUS
      <4> QED
        BY <3>0, <4>1
    <3> QED
      BY <1>2, <1>6, <2>1, <2>2, <3>1
  <2> QED
    BY <2>3, <2>4
<1>10. q.next \in 1..n + 1 /\ q.base < q.next
  BY <1>1, <1>5 DEF Sound, PageStates
<1>11. Sound(q, n + 1)
  <2>1. \A i \in 1..Len(q.redo) : q.redo[i].id \in 1..q.next - 1
    BY <1>1, <1>5 DEF Sound
  <2>2. q.current = IF q.undo = <<>> THEN q.base ELSE Last(q.undo).id
    BY <1>3, <1>5, <1>6, <1>7
  <2>3. q.base = 0 => First(q) = Original
    BY <1>5, <1>9 DEF Sound
  <2> QED
    BY <1>5, <1>8, <1>10, <2>1, <2>2, <2>3 DEF Sound
<1> QED
  BY <1>3, <1>5, <1>11 DEF Extends, q, x, f

LEMMA ChangeUndone ==
  ASSUME NEW n \in Nat, NEW page, Sound(page, n), page.undo # <<>>
  PROVE  LET q == Undone(page)
         IN  /\ Sound(q, n) /\ q.text = Last(page.undo).before /\ q.run = NoRun
             /\ q.undo = Front(page.undo) /\ q.redo = Append(page.redo, Last(page.undo))
<1> DEFINE q == Undone(page)
           u == page.undo
           f == Front(u)
           t == Last(u)
           r == page.redo
<1>1. page \in PageStates /\ page.next \in 1..n /\ u \in Seq(PageChanges)
      /\ r \in Seq(PageChanges)
  BY DEF Sound, PageStates
<1>2. /\ Len(u) \in Nat \ {0} /\ t = u[Len(u)] /\ t \in PageChanges
      /\ f \in Seq(PageChanges) /\ Len(f) = Len(u) - 1
      /\ \A i \in 1..Len(u) - 1 : f[i] = u[i]
  BY <1>1, FrontAt
<1>3. /\ Append(r, t) \in Seq(PageChanges)
      /\ Len(r) \in Nat /\ Len(Append(r, t)) = Len(r) + 1
      /\ \A i \in 1..Len(r) : Append(r, t)[i] = r[i]
      /\ Append(r, t)[Len(r) + 1] = t
  BY <1>1, <1>2, AppendAt
<1>4. /\ q.text = t.before /\ q.redo = Append(r, t) /\ q.run = NoRun /\ q.undo = f
      /\ q.current = (IF f = <<>> THEN page.base ELSE Last(f).id)
      /\ q.next = page.next /\ q.base = page.base
  BY <1>1 DEF PageStates, Undone
<1>5. t.id \in 1..page.next - 1
  <2>1. Len(u) \in 1..Len(u)
    BY <1>2
  <2> QED
    BY <1>2, <2>1 DEF Sound
<1>6. f # <<>> => Len(f) \in Nat \ {0} /\ Last(f) = f[Len(f)] /\ Last(f) \in PageChanges
  BY <1>2, FrontAt
<1>7. q \in PageStates
  <2>1. t.before \in PageTexts
    BY <1>2 DEF PageChanges
  <2>2. (IF f = <<>> THEN page.base ELSE Last(f).id) \in Nat
    BY <1>1, <1>6 DEF PageStates, PageChanges
  <2> DEFINE c == IF f = <<>> THEN page.base ELSE Last(f).id
  <2>3. q = [page EXCEPT !.text = t.before, !.run = NoRun, !.undo = f, !.redo = Append(r, t),
                         !.current = c]
    BY <1>1 DEF Undone, PageStates
  <2> HIDE DEF t, f, q, c
  <2>4. c \in Nat
    BY <2>2 DEF c
  <2> QED
    BY <1>1, <1>2, <1>3, <2>1, <2>3, <2>4 DEF PageStates
<1> HIDE DEF t, f, q
<1>8. \A i \in 1..Len(f) : f[i].id \in 1..page.next - 1
  <2> SUFFICES ASSUME NEW i \in 1..Len(f)
               PROVE  f[i].id \in 1..page.next - 1
    OBVIOUS
  <2>1. i \in 1..Len(u) /\ f[i] = u[i]
    BY <1>2
  <2> QED
    BY <2>1 DEF Sound
<1>9. \A i \in 1..Len(Append(r, t)) : Append(r, t)[i].id \in 1..page.next - 1
  <2> SUFFICES ASSUME NEW i \in 1..Len(r) + 1
               PROVE  Append(r, t)[i].id \in 1..page.next - 1
    BY <1>3
  <2>1. CASE i \in 1..Len(r)
    BY <1>3, <2>1 DEF Sound
  <2>2. CASE i = Len(r) + 1
    BY <1>3, <1>5, <2>2
  <2> QED
    BY <1>3, <2>1, <2>2
<1>10. First(q) = First(page)
  <2>1. First(page) = u[1].before
    BY DEF First
  <2>2. CASE f = <<>>
    <3>1. t = u[1]
      BY <1>2, <2>2, EmptySeq
    <3> QED
      BY <1>4, <2>1, <2>2, <3>1 DEF First
  <2>3. CASE f # <<>>
    <3>1. 1 \in 1..Len(u) - 1
      BY <1>2, <1>6, <2>3
    <3> QED
      BY <1>2, <1>4, <2>1, <2>3, <3>1 DEF First
  <2> QED
    BY <2>2, <2>3
<1>11. Sound(q, n)
  <2>1. q.next \in 1..n /\ q.base < q.next
    BY <1>4 DEF Sound
  <2>2. q.base = 0 => First(q) = Original
    BY <1>4, <1>10 DEF Sound
  <2>3. q.current = IF q.undo = <<>> THEN q.base ELSE Last(q.undo).id
    BY <1>4
  <2> QED
    BY <1>4, <1>7, <1>8, <1>9, <2>1, <2>2, <2>3 DEF Sound
<1> QED
  BY <1>4, <1>11 DEF q, f, t

LEMMA ChangeRedone ==
  ASSUME NEW n \in Nat, NEW page, Sound(page, n), page.redo # <<>>,
         Last(page.redo).before = page.text
  PROVE  LET q == Redone(page)
         IN  /\ Sound(q, n) /\ q.text = Last(page.redo).after /\ q.run = NoRun
             /\ q.undo = Append(page.undo, Last(page.redo)) /\ q.redo = Front(page.redo)
<1> DEFINE q == Redone(page)
           u == page.undo
           r == page.redo
           f == Front(r)
           t == Last(r)
<1>1. page \in PageStates /\ page.next \in 1..n /\ u \in Seq(PageChanges)
      /\ r \in Seq(PageChanges)
  BY DEF Sound, PageStates
<1>2. /\ Len(r) \in Nat \ {0} /\ t = r[Len(r)] /\ t \in PageChanges
      /\ f \in Seq(PageChanges) /\ Len(f) = Len(r) - 1
      /\ \A i \in 1..Len(r) - 1 : f[i] = r[i]
  BY <1>1, FrontAt
<1>3. /\ Append(u, t) \in Seq(PageChanges) /\ Append(u, t) # <<>>
      /\ Len(u) \in Nat /\ Len(Append(u, t)) = Len(u) + 1
      /\ \A i \in 1..Len(u) : Append(u, t)[i] = u[i]
      /\ Append(u, t)[Len(u) + 1] = t
  <2>1. u \in Seq(PageChanges) /\ t \in PageChanges
    BY <1>1, <1>2
  <2> HIDE DEF t, f, u
  <2> QED
    BY <2>1, AppendAt
<1>4. /\ q.text = t.after /\ q.redo = f /\ q.run = NoRun /\ q.undo = Append(u, t)
      /\ q.current = t.id /\ q.next = page.next /\ q.base = page.base
  BY <1>1 DEF PageStates, Redone
<1>5. t.id \in 1..page.next - 1
  <2>1. Len(r) \in 1..Len(r)
    BY <1>2
  <2> QED
    BY <1>2, <2>1 DEF Sound
<1>6. q \in PageStates
  <2>1. t.after \in PageTexts /\ t.id \in Nat
    BY <1>2 DEF PageChanges
  <2>2. q = [page EXCEPT !.text = t.after, !.run = NoRun, !.redo = f, !.undo = Append(u, t),
                         !.current = t.id]
    BY <1>1 DEF Redone, PageStates
  <2> HIDE DEF t, f, q
  <2> QED
    BY <1>1, <1>2, <1>3, <2>1, <2>2 DEF PageStates
<1>0. t.before = page.text
  OBVIOUS
<1> HIDE DEF t, f, q
<1>7. \A i \in 1..Len(f) : f[i].id \in 1..page.next - 1
  <2> SUFFICES ASSUME NEW i \in 1..Len(f)
               PROVE  f[i].id \in 1..page.next - 1
    OBVIOUS
  <2>1. i \in 1..Len(r) /\ f[i] = r[i]
    BY <1>2
  <2> QED
    BY <2>1 DEF Sound
<1>8. \A i \in 1..Len(Append(u, t)) : Append(u, t)[i].id \in 1..page.next - 1
  <2> SUFFICES ASSUME NEW i \in 1..Len(u) + 1
               PROVE  Append(u, t)[i].id \in 1..page.next - 1
    BY <1>3
  <2>1. CASE i \in 1..Len(u)
    BY <1>3, <2>1 DEF Sound
  <2>2. CASE i = Len(u) + 1
    BY <1>3, <1>5, <2>2
  <2> QED
    BY <1>3, <2>1, <2>2
<1>9. First(q) = First(page)
  <2>1. First(q) = Append(u, t)[1].before
    BY <1>3, <1>4 DEF First
  <2>2. CASE u = <<>>
    <3>1. Append(u, t)[1] = t
      BY <1>3, <2>2, EmptySeq
    <3> QED
      BY <1>0, <2>1, <2>2, <3>1 DEF First
  <2>3. CASE u # <<>>
    <3>1. 1 \in 1..Len(u)
      BY <1>1, <2>3, FrontAt
    <3> QED
      BY <1>3, <2>1, <2>3, <3>1 DEF First
  <2> QED
    BY <2>2, <2>3
<1>10. Last(Append(u, t)) = t
  BY <1>3 DEF Last
<1>11. Sound(q, n)
  <2>1. q.next \in 1..n /\ q.base < q.next
    BY <1>4 DEF Sound
  <2>2. q.base = 0 => First(q) = Original
    BY <1>4, <1>9 DEF Sound
  <2>3. q.current = IF q.undo = <<>> THEN q.base ELSE Last(q.undo).id
    BY <1>3, <1>4, <1>10
  <2> QED
    BY <1>4, <1>6, <1>7, <1>8, <2>1, <2>2, <2>3 DEF Sound
<1> QED
  BY <1>4, <1>11 DEF q, f, t

\* A discard that spares the change of an open run drops exactly what it is
\* told to, and the page never again passes for what the file holds.
LEMMA OldestDiscarded ==
  ASSUME NEW n \in Nat, NEW page, Sound(page, n), NEW count \in 0..Len(page.undo),
         page.run # NoRun => count < Len(page.undo), NEW q, q = DiscardLocally(page, count)
  PROVE  /\ Sound(q, n) /\ q.undo = SubSeq(page.undo, count + 1, Len(page.undo))
         /\ q.text = page.text /\ q.run = page.run /\ q.redo = page.redo
<1> DEFINE u == page.undo
           s == SubSeq(u, count + 1, Len(u))
           most == Len(u) - (IF page.run = NoRun THEN 0 ELSE 1)
           k == IF count < most THEN count ELSE most
<1>1. page \in PageStates /\ page.next \in 1..n /\ u \in Seq(PageChanges) /\ Len(u) \in Nat
      /\ count \in Nat /\ count <= Len(u)
  BY DEF Sound, PageStates
<1>2. k = count
  <2>1. CASE page.run = NoRun
    BY <1>1, <2>1
  <2>2. CASE page.run # NoRun
    <3>1. count < Len(u)
      BY <2>2
    <3>2. most = Len(u) - 1
      BY <2>2
    <3> HIDE DEF most
    <3> QED
      BY <1>1, <3>1, <3>2
  <2> QED
    BY <2>1, <2>2
<1>3. /\ s \in Seq(PageChanges) /\ Len(s) = Len(u) - count
      /\ \A i \in 1..Len(u) - count : s[i] = u[count + i]
  BY <1>1, SuffixAt
<1>4. CASE count = 0
  <2>1. q = page
    <3>1. q = IF k <= 0 THEN page
              ELSE [page EXCEPT !.base = u[k].id, !.undo = SubSeq(u, k + 1, Len(u))]
      BY SMT DEF DiscardLocally
    <3> HIDE DEF k
    <3> QED
      BY <1>2, <1>4, <3>1
  <2>2. s = u
    BY <1>1, <1>4, SubSeqFull
  <2> QED
    BY <2>1, <2>2
<1>5. CASE count # 0
  <2>1. q = [page EXCEPT !.base = u[count].id, !.undo = s]
    <3>1. q = IF k <= 0 THEN page
              ELSE [page EXCEPT !.base = u[k].id, !.undo = SubSeq(u, k + 1, Len(u))]
      BY SMT DEF DiscardLocally
    <3> HIDE DEF k
    <3> QED
      BY <1>1, <1>2, <1>5, <3>1
  <2>2. u[count].id \in 1..page.next - 1
    BY <1>1, <1>5 DEF Sound
  <2> DEFINE b == u[count].id
  <2> HIDE DEF s, b
  <2>3. b \in 1..page.next - 1 /\ q = [page EXCEPT !.base = b, !.undo = s]
    BY <2>1, <2>2 DEF b
  <2>4. /\ q \in PageStates /\ q.base = b /\ q.undo = s /\ q.text = page.text
        /\ q.run = page.run /\ q.redo = page.redo /\ q.next = page.next
        /\ q.current = page.current
    <3>1. b \in Nat /\ s \in Seq(PageChanges)
      BY <1>1, <1>3, <2>3
    <3> QED
      BY <1>1, <2>3, <3>1 DEF PageStates
  <2>5. \A i \in 1..Len(s) : s[i].id \in 1..page.next - 1
    <3> SUFFICES ASSUME NEW i \in 1..Len(s)
                 PROVE  s[i].id \in 1..page.next - 1
      OBVIOUS
    <3>1. count + i \in 1..Len(u) /\ s[i] = u[count + i]
      BY <1>1, <1>3
    <3> QED
      BY <3>1 DEF Sound
  <2>6. q.current = IF q.undo = <<>> THEN q.base ELSE Last(q.undo).id
    <3>1. u # <<>> /\ Len(u) \in Nat \ {0}
      BY <1>1, <1>5, EmptySeq
    <3>2. page.current = u[Len(u)].id
      BY <3>1 DEF Sound, Last
    <3>3. CASE s = <<>>
      <4>1. count = Len(u)
        BY <1>1, <1>3, <3>3, EmptySeq
      <4> QED
        BY <2>4, <3>2, <3>3, <4>1 DEF b
    <3>4. CASE s # <<>>
      <4>1. Len(s) \in Nat \ {0} /\ Last(s) = s[Len(s)]
        BY <1>3, <3>4, FrontAt
      <4>2. s[Len(s)] = u[Len(u)]
        BY <1>1, <1>3, <4>1
      <4> QED
        BY <2>4, <3>2, <3>4, <4>1, <4>2
    <3> QED
      BY <3>3, <3>4
  <2>7. q.base # 0 /\ q.base < q.next /\ q.next \in 1..n
    BY <1>1, <2>3, <2>4
  <2>8. \A i \in 1..Len(q.redo) : q.redo[i].id \in 1..q.next - 1
    BY <2>4 DEF Sound
  <2>9. Sound(q, n)
    BY <2>4, <2>5, <2>6, <2>7, <2>8 DEF Sound
  <2> QED
    BY <2>4, <2>9 DEF s
<1> QED
  BY <1>4, <1>5

-----------------------------------------------------------------------------
(* What a page keeps of a list. *)

LEMMA MatchEmpty ==
  ASSUME NEW S, NEW O, NEW s \in Seq(S), NEW o \in Seq(O), NEW p, Matches(s, o, p)
  PROVE  s = <<>> <=> o = <<>>
  BY EmptySeq DEF Matches

LEMMA NothingMatches ==
  ASSUME NEW O, NEW o \in Seq(O), NEW p, Matches(<<>>, o, p)
  PROVE  o = <<>>
  BY EmptySeq DEF Matches

LEMMA EmptyMatches ==
  ASSUME NEW p
  PROVE  Matches(<<>>, <<>>, p)
  BY EmptySeq DEF Matches

LEMMA MatchAppend ==
  ASSUME NEW S, NEW O, NEW s \in Seq(S), NEW o \in Seq(O), NEW p, Matches(s, o, p),
         NEW x \in S, NEW t \in O,
         x.before = t.before[p], x.after = t.after[p], x.bytes + Overhead = t.bytes
  PROVE  Matches(Append(s, x), Append(o, t), p)
<1> DEFINE a == Append(s, x)
           b == Append(o, t)
           n == Len(o)
<1>1. n \in Nat /\ Len(s) = n
  BY DEF Matches
<1>2. Len(a) = n + 1 /\ a[n + 1] = x /\ \A i \in 1..n : a[i] = s[i]
  BY <1>1, AppendAt
<1>3. Len(b) = n + 1 /\ b[n + 1] = t /\ \A i \in 1..n : b[i] = o[i]
  BY <1>1, AppendAt
<1> HIDE DEF a, b
<1>4. ASSUME NEW i \in 1..n + 1
      PROVE  /\ a[i].before = b[i].before[p] /\ a[i].after = b[i].after[p]
             /\ a[i].bytes + Overhead = b[i].bytes
  <2>1. CASE i \in 1..n
    BY <1>2, <1>3, <2>1 DEF Matches
  <2>2. CASE i = n + 1
    BY <1>2, <1>3, <2>2
  <2> QED
    BY <1>1, <2>1, <2>2
<1>5. Matches(a, b, p)
  BY <1>2, <1>3, <1>4 DEF Matches
<1> QED
  BY <1>5 DEF a, b

LEMMA MatchSuffix ==
  ASSUME NEW S, NEW O, NEW s \in Seq(S), NEW o \in Seq(O), NEW p, Matches(s, o, p),
         NEW k \in 0..Len(o)
  PROVE  Matches(SubSeq(s, k + 1, Len(s)), SubSeq(o, k + 1, Len(o)), p)
<1> DEFINE a == SubSeq(s, k + 1, Len(s))
           b == SubSeq(o, k + 1, Len(o))
           n == Len(o)
<1>1. n \in Nat /\ Len(s) = n /\ k \in 0..n
  BY DEF Matches
<1>2. Len(a) = n - k /\ \A i \in 1..n - k : a[i] = s[k + i]
  BY <1>1, SuffixAt
<1>3. Len(b) = n - k /\ \A i \in 1..n - k : b[i] = o[k + i]
  BY <1>1, SuffixAt
<1> HIDE DEF a, b
<1>4. ASSUME NEW i \in 1..n - k
      PROVE  /\ a[i].before = b[i].before[p] /\ a[i].after = b[i].after[p]
             /\ a[i].bytes + Overhead = b[i].bytes
  <2>1. k + i \in 1..n
    BY <1>1
  <2> QED
    BY <1>2, <1>3, <2>1 DEF Matches
<1>5. Matches(a, b, p)
  BY <1>2, <1>3, <1>4 DEF Matches
<1> QED
  BY <1>5 DEF a, b

NewestMatch(s, o, p) ==
  /\ s # <<>> /\ Matches(Front(s), Front(o), p)
  /\ Last(s).before = Last(o).before[p] /\ Last(s).after = Last(o).after[p]
  /\ Last(s).bytes + Overhead = Last(o).bytes

LEMMA MatchNewest ==
  ASSUME NEW S, NEW O, NEW s \in Seq(S), NEW o \in Seq(O), NEW p, Matches(s, o, p), o # <<>>
  PROVE  NewestMatch(s, o, p)
<1> DEFINE a == Front(s)
           b == Front(o)
           n == Len(o)
<1>1. s # <<>>
  BY MatchEmpty
<1>2. /\ n \in Nat \ {0} /\ Last(o) = o[n] /\ Last(o) \in O
      /\ b \in Seq(O) /\ Len(b) = n - 1 /\ \A i \in 1..n - 1 : b[i] = o[i]
  BY FrontAt
<1>3. Len(s) = n
  BY DEF Matches
<1>4. /\ Last(s) = s[n] /\ Last(s) \in S
      /\ a \in Seq(S) /\ Len(a) = n - 1 /\ \A i \in 1..n - 1 : a[i] = s[i]
  BY <1>1, <1>3, FrontAt
<1>5. n \in 1..n /\ \A i \in 1..n - 1 : i \in 1..n
  BY <1>2
<1> HIDE DEF a, b
<1>6. Matches(a, b, p)
  BY <1>2, <1>4, <1>5 DEF Matches
<1>7. /\ Last(s).before = Last(o).before[p] /\ Last(s).after = Last(o).after[p]
      /\ Last(s).bytes + Overhead = Last(o).bytes
  BY <1>2, <1>4, <1>5 DEF Matches
<1> QED
  BY <1>1, <1>6, <1>7 DEF a, b, NewestMatch

\* The newest change of all pages is the newest of its own page.
LEMMA OwnNewest ==
  ASSUME NEW S, NEW s \in Seq(S), s # <<>>, NEW p
  PROVE  /\ Own(s, p) \in Seq(S) /\ Own(Front(s), p) \in Seq(S)
         /\ Last(s).page # p => Own(Front(s), p) = Own(s, p)
         /\ Last(s).page = p => /\ Own(s, p) # <<>> /\ Last(Own(s, p)) = Last(s)
                                /\ Front(Own(s, p)) = Own(Front(s), p)
<1> DEFINE f == Front(s)
           t == Last(s)
<1>1. f \in Seq(S) /\ t \in S /\ s = Append(f, t)
  BY FrontAt
<1> HIDE DEF f, t
<1>2. /\ Own(f, p) \in Seq(S)
      /\ Own(Append(f, t), p) = IF t.page = p THEN Append(Own(f, p), t) ELSE Own(f, p)
  BY <1>1, OwnAppend
<1>3. Own(s, p) \in Seq(S)
  BY OwnIsSeq
<1>4. ASSUME t.page = p
      PROVE  Own(s, p) # <<>> /\ Last(Own(s, p)) = t /\ Front(Own(s, p)) = Own(f, p)
  <2> DEFINE o == Own(f, p)
             a == Append(o, t)
  <2>1. Own(s, p) = a
    BY <1>1, <1>2, <1>4
  <2>2. o \in Seq(S)
    BY <1>2
  <2> HIDE DEF o
  <2>3. a # <<>> /\ Last(a) = t /\ Front(a) = o
    <3>1. /\ a \in Seq(S) /\ a # <<>> /\ Len(o) \in Nat /\ Len(a) = Len(o) + 1
          /\ \A i \in 1..Len(o) : a[i] = o[i]
          /\ a[Len(o) + 1] = t
      BY <1>1, <2>2, AppendAt
    <3> HIDE DEF a
    <3>2. /\ Last(a) = a[Len(a)] /\ Front(a) \in Seq(S) /\ Len(Front(a)) = Len(a) - 1
          /\ \A i \in 1..Len(a) - 1 : Front(a)[i] = a[i]
      BY <3>1, FrontAt
    <3>3. Len(Front(a)) = Len(o) /\ \A i \in 1..Len(o) : o[i] = Front(a)[i]
      BY <3>1, <3>2
    <3>4. Front(a) = o
      BY <2>2, <3>2, <3>3, SeqEqual
    <3> QED
      BY <3>1, <3>2, <3>4
  <2> QED
    BY <2>1, <2>3 DEF o
<1> QED
  BY <1>1, <1>2, <1>3, <1>4 DEF f, t

-----------------------------------------------------------------------------
(* The pages in memory. *)

\* What park_active and activate_page leave in memory.
LEMMA Activated ==
  ASSUME NEW mem, NEW from \in DOMAIN mem, NEW to, to # from,
         IsMap(mem),
         NEW page, page = FinishRun(mem[from]), NEW a, a = Activate(mem, from, to)
  PROVE  /\ IsMap(a)
         /\ \A p : p \in DOMAIN a <=>
                     p = to \/ (p \in DOMAIN mem /\ (p # from \/ NeedsRetention(page)))
         /\ \A p \in DOMAIN a : /\ p \notin DOMAIN mem => a[p] = Load
                                /\ p \in DOMAIN mem /\ p # from => a[p] = mem[p]
                                /\ p = from => a[p] = page
<1> DEFINE P == Park(mem, from)
           D == IF NeedsRetention(page) THEN DOMAIN mem ELSE DOMAIN mem \ {from}
<1>1. a = [p \in DOMAIN P \cup {to} |-> IF p \in DOMAIN mem THEN P[p] ELSE Load]
  BY Zenon DEF Activate
<1>2. DOMAIN P = D /\ \A p \in D : P[p] = IF p = from THEN page ELSE mem[p]
  <2>1. CASE NeedsRetention(page)
    <3>1. P = [mem EXCEPT ![from] = page]
      BY <2>1, Zenon DEF Park
    <3> HIDE DEF P
    <3> QED
      BY <2>1, <3>1
  <2>2. CASE ~NeedsRetention(page)
    <3>1. P = [p \in DOMAIN mem \ {from} |-> mem[p]]
      BY <2>2, Zenon DEF Park, Restrict
    <3> HIDE DEF P
    <3> QED
      BY <2>2, <3>1
  <2> QED
    BY <2>1, <2>2
<1> HIDE DEF P, D
<1>3. D \subseteq DOMAIN mem /\ DOMAIN mem \ {from} \subseteq D
  BY DEF D
<1>4. IsMap(a) /\ DOMAIN a = D \cup {to}
  BY <1>1, <1>2 DEF IsMap
<1>5. ASSUME NEW p \in DOMAIN a
      PROVE  /\ p \notin DOMAIN mem => a[p] = Load
             /\ p \in DOMAIN mem /\ p # from => a[p] = mem[p]
             /\ p = from => a[p] = page
  <2>1. a[p] = IF p \in DOMAIN mem THEN P[p] ELSE Load
    BY <1>1, <1>2, <1>4
  <2>2. CASE p \in DOMAIN mem
    <3>1. p \in D
      BY <1>3, <1>4, <2>2
    <3> QED
      BY <1>2, <2>1, <2>2, <3>1
  <2>3. CASE p \notin DOMAIN mem
    BY <2>1, <2>3
  <2> QED
    BY <2>2, <2>3
<1> QED
  BY <1>4, <1>5 DEF D

LEMMA ActivateKeeps ==
  ASSUME NEW n \in Nat \ {0}, NEW mem, NEW from, NEW to \in Pages, to # from,
         NEW u \in Seq(Changes), NEW r \in Seq(Changes), InMemory(mem, from, u, r, n)
  PROVE  LET a == Activate(mem, from, to)
         IN  InMemory(a, to, u, r, n) /\ a[to].run = NoRun /\ Whole(a) = Whole(mem)
<1> DEFINE page == FinishRun(mem[from])
           a == Activate(mem, from, to)
<1>1. /\ DOMAIN mem \subseteq Pages /\ from \in DOMAIN mem
      /\ IsMap(mem)
  BY DEF InMemory
<1>2. /\ IsMap(a)
      /\ \A p : p \in DOMAIN a <=>
                  p = to \/ (p \in DOMAIN mem /\ (p # from \/ NeedsRetention(page)))
      /\ \A p \in DOMAIN a : /\ p \notin DOMAIN mem => a[p] = Load
                             /\ p \in DOMAIN mem /\ p # from => a[p] = mem[p]
                             /\ p = from => a[p] = page
  <2>1. page = FinishRun(mem[from]) /\ a = Activate(mem, from, to)
    OBVIOUS
  <2> HIDE DEF page, a
  <2> QED
    BY <1>1, <2>1, Activated
<1>3. /\ Sound(page, n) /\ page.text = mem[from].text /\ page.run = NoRun
      /\ page.undo = mem[from].undo /\ page.redo = mem[from].redo
  <2>1. Sound(mem[from], n)
    BY DEF InMemory
  <2> QED
    BY <2>1, RunFinished
<1> HIDE DEF page, a
<1>4. \A p \in Pages : Own(u, p) \in Seq(Changes) /\ Own(r, p) \in Seq(Changes)
  BY OwnIsSeq
<1>5. ASSUME NEW p \in DOMAIN a
      PROVE  /\ Sound(a[p], n)
             /\ Matches(a[p].undo, Own(u, p), p) /\ Matches(a[p].redo, Own(r, p), p)
             /\ a[p].run = NoRun /\ a[p].text = Text(mem, p)
  <2>1. CASE p \notin DOMAIN mem
    <3>1. p = to /\ a[p] = Load
      BY <1>2, <2>1
    <3>2. Own(u, p) = <<>> /\ Own(r, p) = <<>>
      BY <2>1, <3>1 DEF InMemory
    <3>3. Sound(Load, n)
      BY Loaded
    <3>4. Matches(<<>>, <<>>, p)
      BY EmptyMatches
    <3>5. Load.undo = <<>> /\ Load.redo = <<>> /\ Load.run = NoRun /\ Load.text = Original
      BY DEF Load
    <3> QED
      BY <2>1, <3>1, <3>2, <3>3, <3>4, <3>5 DEF Text
  <2>2. CASE p = from
    <3>1. a[p] = page
      BY <1>1, <1>2, <2>2
    <3> QED
      BY <1>1, <1>3, <2>2, <3>1 DEF InMemory, Text
  <2>3. CASE p \in DOMAIN mem /\ p # from
    <3>1. a[p] = mem[p]
      BY <1>2, <2>3
    <3> QED
      BY <2>3, <3>1 DEF InMemory, Text
  <2> QED
    BY <2>1, <2>2, <2>3
<1>6. ASSUME NEW p \in Pages \ DOMAIN a
      PROVE  Own(u, p) = <<>> /\ Own(r, p) = <<>> /\ Text(mem, p) = Original
  <2>1. CASE p \notin DOMAIN mem
    BY <2>1 DEF InMemory, Text
  <2>2. CASE p \in DOMAIN mem
    <3>1. p = from /\ ~NeedsRetention(page)
      BY <1>2, <2>2
    <3>2. page.undo = <<>> /\ page.redo = <<>> /\ page.current = 0
      BY <3>1 DEF NeedsRetention
    <3>3. page.text = Original
      BY <1>3, <3>2, FirstIsOriginal
    <3>4. Matches(<<>>, Own(u, p), p) /\ Matches(<<>>, Own(r, p), p)
      BY <1>3, <2>2, <3>1, <3>2 DEF InMemory
    <3>5. Own(u, p) = <<>> /\ Own(r, p) = <<>>
      BY <1>4, <3>4, NothingMatches
    <3> QED
      BY <1>3, <2>2, <3>1, <3>3, <3>5 DEF Text
  <2> QED
    BY <2>1, <2>2
<1>7. to \in DOMAIN a /\ DOMAIN a \subseteq Pages
  BY <1>1, <1>2
<1>8. InMemory(a, to, u, r, n)
  BY <1>2, <1>5, <1>6, <1>7 DEF InMemory
<1>9. Whole(a) = Whole(mem)
  <2>1. \A p \in Pages : Text(a, p) = Text(mem, p)
    BY <1>5, <1>6 DEF Text
  <2> QED
    BY <2>1 DEF Whole
<1> QED
  BY <1>5, <1>7, <1>8, <1>9 DEF a

\* Pages that hold the changes of u, and nothing to redo but what redone holds.
Known(mem, at, u, redone, n) ==
  /\ DOMAIN mem \subseteq Pages /\ IsMap(mem) /\ at \in DOMAIN mem
  /\ \A p \in DOMAIN mem :
       /\ Sound(mem[p], n) /\ Matches(mem[p].undo, Own(u, p), p)
       /\ mem[p].redo = <<>> \/ \E i \in DOMAIN redone : redone[i].page = p
       /\ p # at => mem[p].run = NoRun
  /\ \A p \in Pages \ DOMAIN mem : Own(u, p) = <<>>

\* Pages that hold the changes of rest, with the same document in them.
Kept(a, mem, at, rest, n) ==
  /\ InMemory(a, at, rest, <<>>, n)
  /\ a[at].run = mem[at].run /\ Whole(a) = Whole(mem)

\* Changes dropped from the front of the global history are dropped from the
\* front of the histories of their pages; a page that is dropped with them
\* holds what the file says.
LEMMA ChangesApplied ==
  ASSUME NEW n \in Nat \ {0}, NEW mem, NEW at, NEW redone,
         NEW pruned, pruned \in Seq(Changes), NEW rest, rest \in Seq(Changes), rest # <<>>,
         Last(rest).page = at, NEW u, u = pruned \o rest,
         Known(mem, at, u, redone, n), NEW a, a = ApplyChange(mem, at, redone, pruned)
  PROVE  Kept(a, mem, at, rest, n)
<1> USE DEF Known
<1> DEFINE count(p) == Len(Own(pruned, p))
           cleared(p) == IF \E i \in DOMAIN redone : redone[i].page = p
                         THEN ClearRedo(mem[p]) ELSE mem[p]
           touched == [p \in DOMAIN mem |-> DiscardLocally(cleared(p), count(p))]
           D == {p \in DOMAIN mem : p = at \/ NeedsRetention(touched[p])}
<1>1. a = [p \in D |-> touched[p]]
  BY Zenon DEF ApplyChange, Restrict
<1>2. ASSUME NEW p \in Pages
      PROVE  /\ Own(u, p) \in Seq(Changes) /\ Own(rest, p) \in Seq(Changes)
             /\ count(p) \in 0..Len(Own(u, p))
             /\ Own(rest, p) = SubSeq(Own(u, p), count(p) + 1, Len(Own(u, p)))
  <2> DEFINE x == Own(pruned, p)
             y == Own(rest, p)
             o == Own(u, p)
             m == Len(x)
  <2>1. x \in Seq(Changes) /\ y \in Seq(Changes) /\ o = x \o y
    <3>1. \A w \in Seq(Changes) : Own(w, p) \in Seq(Changes)
      BY OwnIsSeq
    <3>2. Own(pruned \o rest, p) = Own(pruned, p) \o Own(rest, p)
      BY OwnConcat
    <3> QED
      BY <3>1, <3>2
  <2> HIDE DEF x, y, o
  <2>2. /\ o \in Seq(Changes) /\ Len(o) = Len(x) + Len(y)
        /\ Len(x) \in Nat /\ Len(y) \in Nat
        /\ \A i \in 1..Len(y) : o[Len(x) + i] = y[i]
    BY <2>1, ConcatProperties
  <2>3. m \in 0..Len(o) /\ Len(o) - m = Len(y) /\ \A i \in 1..Len(y) : o[m + i] = y[i]
    BY <2>2
  <2> HIDE DEF m
  <2>4. SubSeq(o, m + 1, Len(o)) = y
    <3> DEFINE v == SubSeq(o, m + 1, Len(o))
    <3>1. v \in Seq(Changes) /\ Len(v) = Len(o) - m /\ \A i \in 1..Len(o) - m : v[i] = o[m + i]
      BY <2>2, <2>3, SuffixAt
    <3> HIDE DEF v
    <3>2. v = y
      BY <2>1, <2>3, <3>1, SeqEqual
    <3> QED
      BY <3>2 DEF v
  <2> QED
    BY <2>1, <2>2, <2>3, <2>4 DEF x, y, o, m
<1>3. at \in Pages /\ Own(rest, at) # <<>>
  <2>1. Len(rest) \in Nat \ {0} /\ Last(rest) = rest[Len(rest)]
    BY FrontAt
  <2>2. Len(rest) \in 1..Len(rest) /\ rest[Len(rest)].page = at
    BY <2>1
  <2>3. Own(rest, at) # <<>>
    BY <2>2, OwnNone
  <2> QED
    BY <2>3
<1>4. ASSUME NEW p \in DOMAIN mem
      PROVE  /\ Sound(touched[p], n) /\ Matches(touched[p].undo, Own(rest, p), p)
             /\ touched[p].redo = <<>> /\ touched[p].run = mem[p].run
             /\ touched[p].text = mem[p].text
  <2> DEFINE q == cleared(p)
             o == Own(u, p)
             c == count(p)
  <2>1. /\ Sound(q, n) /\ q.undo = mem[p].undo /\ q.run = mem[p].run
        /\ q.text = mem[p].text /\ q.redo = <<>>
    <3>1. CASE \E i \in DOMAIN redone : redone[i].page = p
      <4>1. q = ClearRedo(mem[p])
        BY <3>1, Zenon
      <4> HIDE DEF q
      <4> QED
        BY <4>1, RedoCleared
    <3>2. CASE ~\E i \in DOMAIN redone : redone[i].page = p
      <4>1. q = mem[p]
        BY <3>2, Zenon
      <4>2. mem[p].redo = <<>>
        BY <3>2, Zenon
      <4> HIDE DEF q
      <4> QED
        BY <4>1, <4>2
    <3> QED
      BY <3>1, <3>2
  <2>2. p \in Pages
    OBVIOUS
  <2>3. o \in Seq(Changes) /\ c \in 0..Len(o) /\ Own(rest, p) = SubSeq(o, c + 1, Len(o))
        /\ Own(rest, p) \in Seq(Changes)
    BY <1>2, <2>2
  <2>4. touched[p] = DiscardLocally(q, c)
    BY Zenon
  <2> HIDE DEF q, o, c, touched
  <2>5. q.undo \in Seq(PageChanges) /\ Matches(q.undo, o, p) /\ Len(q.undo) = Len(o)
    <3>1. q.undo \in Seq(PageChanges)
      BY <2>1 DEF Sound, PageStates
    <3>2. Matches(q.undo, o, p)
      BY <2>1 DEF o
    <3> QED
      BY <3>1, <3>2 DEF Matches
  <2>6. q.run # NoRun => c < Len(q.undo)
    <3> SUFFICES ASSUME q.run # NoRun
                 PROVE  c < Len(o)
      BY <2>5
    <3>1. p = at
      BY <2>1
    <3>2. SubSeq(o, c + 1, Len(o)) # <<>>
      BY <1>3, <2>3, <3>1
    <3>3. Len(SubSeq(o, c + 1, Len(o))) = Len(o) - c
      BY <2>3, SuffixAt
    <3>4. Len(o) - c # 0
      BY <2>3, <3>2, <3>3, EmptySeq
    <3> QED
      BY <2>3, <3>4
  <2>7. /\ Sound(touched[p], n)
        /\ touched[p].undo = SubSeq(q.undo, c + 1, Len(q.undo))
        /\ touched[p].text = q.text /\ touched[p].run = q.run /\ touched[p].redo = q.redo
    <3>1. c \in 0..Len(q.undo)
      BY <2>3, <2>5
    <3>2. n \in Nat
      OBVIOUS
    <3> QED
      <4>1. Sound(touched[p], n)
        BY <2>1, <2>4, <2>6, <3>1, <3>2, OldestDiscarded
      <4>2. touched[p].undo = SubSeq(q.undo, c + 1, Len(q.undo))
        BY <2>1, <2>4, <2>6, <3>1, <3>2, OldestDiscarded
      <4>3. touched[p].text = q.text
        BY <2>1, <2>4, <2>6, <3>1, <3>2, OldestDiscarded
      <4>4. touched[p].run = q.run /\ touched[p].redo = q.redo
        BY <2>1, <2>4, <2>6, <3>1, <3>2, OldestDiscarded
      <4> QED
        BY <4>1, <4>2, <4>3, <4>4
  <2>8. Matches(SubSeq(q.undo, c + 1, Len(q.undo)), SubSeq(o, c + 1, Len(o)), p)
    BY <2>3, <2>5, MatchSuffix
  <2> QED
    BY <2>1, <2>3, <2>7, <2>8
<1>5. DOMAIN a = D /\ (\A p \in D : a[p] = touched[p]) /\ IsMap(a)
  <2> HIDE DEF D, touched
  <2> QED
    BY <1>1 DEF IsMap
<1>6. ASSUME NEW p \in Pages \ D
      PROVE  Own(rest, p) = <<>> /\ Text(mem, p) = Original
  <2>1. CASE p \notin DOMAIN mem
    <3> DEFINE o == Own(u, p)
               c == count(p)
    <3>1. o = <<>>
      BY <2>1
    <3>2. c \in 0..Len(o) /\ Own(rest, p) = SubSeq(o, c + 1, Len(o))
      BY <1>2
    <3> HIDE DEF o, c
    <3>3. c = 0 /\ Len(o) = 0
      BY <3>1, <3>2, EmptySeq
    <3>4. SubSeq(o, 1, 0) = <<>>
      BY EmptySeq
    <3> QED
      BY <2>1, <3>2, <3>3, <3>4 DEF Text
  <2>2. CASE p \in DOMAIN mem
    <3>1. ~NeedsRetention(touched[p])
      BY <2>2
    <3>2. Sound(touched[p], n) /\ Matches(touched[p].undo, Own(rest, p), p)
          /\ touched[p].text = mem[p].text
      BY <1>4, <2>2
    <3>3. Own(rest, p) \in Seq(Changes)
      BY <1>2
    <3> HIDE DEF touched
    <3>4. touched[p].undo = <<>> /\ touched[p].current = 0
      BY <3>1 DEF NeedsRetention
    <3>5. touched[p].text = Original
      BY <3>2, <3>4, FirstIsOriginal
    <3>6. Own(rest, p) = <<>>
      <4>1. Matches(<<>>, Own(rest, p), p)
        BY <3>2, <3>4
      <4> QED
        BY <3>3, <4>1, NothingMatches
    <3> QED
      BY <2>2, <3>2, <3>5, <3>6 DEF Text
  <2> QED
    BY <2>1, <2>2
<1>7. D \subseteq DOMAIN mem /\ at \in D
  BY <1>3
<1> HIDE DEF D, touched
<1>8. InMemory(a, at, rest, <<>>, n)
  <2>1. \A p \in Pages : Own(<<>>, p) = <<>> /\ Matches(<<>>, <<>>, p)
    BY OwnEmpty, EmptyMatches
  <2>2. \A p \in DOMAIN a :
          /\ Sound(a[p], n)
          /\ Matches(a[p].undo, Own(rest, p), p) /\ Matches(a[p].redo, Own(<<>>, p), p)
          /\ p # at => a[p].run = NoRun
    BY <1>4, <1>5, <1>7, <2>1
  <2> QED
    BY <1>5, <1>6, <1>7, <2>1, <2>2 DEF InMemory
<1>9. Whole(a) = Whole(mem)
  <2>1. \A p \in Pages : Text(a, p) = Text(mem, p)
    BY <1>4, <1>5, <1>6, <1>7 DEF Text
  <2> QED
    BY <2>1 DEF Whole
<1>10. a[at].run = mem[at].run
  BY <1>4, <1>5, <1>7
<1> QED
  BY <1>8, <1>9, <1>10 DEF Kept

-----------------------------------------------------------------------------
(* The global history. *)

LEMMA LegalLater ==
  ASSUME NEW n \in Nat, NEW s, Legal(s, n)
  PROVE  Legal(s, n + 1)
<1>1. ASSUME NEW i \in 1..Len(s)
      PROVE  s[i].id \in 1..(n + 1) - 1
  <2>1. s[i].id \in 1..n - 1
    BY DEF Legal
  <2> QED
    BY <2>1
<1> QED
  BY <1>1 DEF Legal

LEMMA LegalAppend ==
  ASSUME NEW n \in Nat, NEW s, Legal(s, n), NEW t \in Changes, t.id \in 1..n - 1, OnePage(t)
  PROVE  Legal(Append(s, t), n)
<1> DEFINE a == Append(s, t)
<1>1. s \in Seq(Changes)
  BY DEF Legal
<1>2. /\ a \in Seq(Changes) /\ Len(s) \in Nat /\ Len(a) = Len(s) + 1
      /\ \A i \in 1..Len(s) : a[i] = s[i]
      /\ a[Len(s) + 1] = t
  BY <1>1, AppendAt
<1> HIDE DEF a
<1>3. ASSUME NEW i \in 1..Len(a)
      PROVE  a[i].id \in 1..n - 1 /\ OnePage(a[i])
  <2>1. CASE i \in 1..Len(s)
    BY <1>2, <2>1 DEF Legal
  <2>2. CASE i = Len(s) + 1
    BY <1>2, <2>2
  <2> QED
    BY <1>2, <2>1, <2>2
<1>4. Legal(a, n)
  BY <1>2, <1>3 DEF Legal
<1> QED
  BY <1>4 DEF a

LEMMA LegalSuffix ==
  ASSUME NEW n \in Nat, NEW s, Legal(s, n), NEW k \in 0..Len(s)
  PROVE  Legal(SubSeq(s, k + 1, Len(s)), n)
<1> DEFINE a == SubSeq(s, k + 1, Len(s))
<1>1. s \in Seq(Changes) /\ Len(s) \in Nat
  BY DEF Legal
<1>2. /\ a \in Seq(Changes) /\ Len(a) = Len(s) - k
      /\ \A i \in 1..Len(s) - k : a[i] = s[k + i]
  BY <1>1, SuffixAt
<1> HIDE DEF a
<1>3. ASSUME NEW i \in 1..Len(a)
      PROVE  a[i].id \in 1..n - 1 /\ OnePage(a[i])
  <2>1. k + i \in 1..Len(s) /\ a[i] = s[k + i]
    BY <1>1, <1>2
  <2> QED
    BY <2>1 DEF Legal
<1>4. Legal(a, n)
  BY <1>2, <1>3 DEF Legal
<1> QED
  BY <1>4 DEF a

LEMMA LegalNewest ==
  ASSUME NEW n \in Nat, NEW s, Legal(s, n), s # <<>>
  PROVE  /\ Legal(Front(s), n) /\ Last(s) \in Changes
         /\ Last(s).id \in 1..n - 1 /\ OnePage(Last(s))
<1> DEFINE f == Front(s)
           t == Last(s)
<1>1. s \in Seq(Changes)
  BY DEF Legal
<1>2. /\ Len(s) \in Nat \ {0} /\ t = s[Len(s)] /\ t \in Changes
      /\ f \in Seq(Changes) /\ Len(f) = Len(s) - 1
      /\ \A i \in 1..Len(s) - 1 : f[i] = s[i]
  BY <1>1, FrontAt
<1> HIDE DEF f, t
<1>3. ASSUME NEW i \in 1..Len(f)
      PROVE  f[i].id \in 1..n - 1 /\ OnePage(f[i])
  <2>1. i \in 1..Len(s) /\ f[i] = s[i]
    BY <1>2
  <2> QED
    BY <2>1 DEF Legal
<1>4. Legal(f, n)
  BY <1>2, <1>3 DEF Legal
<1>5. Len(s) \in 1..Len(s)
  BY <1>2
<1>6. t.id \in 1..n - 1 /\ OnePage(t)
  BY <1>2, <1>5 DEF Legal
<1> QED
  BY <1>2, <1>4, <1>6 DEF f, t

\* Taking back the newest change, or making it again, moves along the links.
LEMMA LinkUndone ==
  ASSUME NEW u \in Seq(Changes), NEW r \in Seq(Changes), NEW d, Linked(u, r, d), u # <<>>
  PROVE  /\ Last(u).after = d
         /\ Linked(Front(u), Append(r, Last(u)), Last(u).before)
<1> DEFINE f == Front(u)
           t == Last(u)
           a == Append(r, t)
<1>1. /\ Len(u) \in Nat \ {0} /\ t = u[Len(u)] /\ t \in Changes
      /\ f \in Seq(Changes) /\ Len(f) = Len(u) - 1
      /\ \A i \in 1..Len(u) - 1 : f[i] = u[i]
  BY FrontAt
<1> HIDE DEF f, t
<1>2. /\ Len(r) \in Nat /\ Len(a) = Len(r) + 1
      /\ \A i \in 1..Len(r) : a[i] = r[i]
      /\ a[Len(r) + 1] = t
  BY <1>1, AppendAt
<1> HIDE DEF a
<1>3. t.after = d
  <2>1. Len(u) \in 1..Len(u)
    BY <1>1
  <2> QED
    BY <1>1, <2>1 DEF Linked
<1>4. ASSUME NEW i \in 1..Len(f)
      PROVE  f[i].after = IF i = Len(f) THEN t.before ELSE f[i + 1].before
  <2>1. i \in 1..Len(u) /\ i # Len(u) /\ f[i] = u[i]
    BY <1>1
  <2>2. f[i].after = u[i + 1].before
    BY <2>1 DEF Linked
  <2>3. CASE i = Len(f)
    BY <1>1, <2>2, <2>3
  <2>4. CASE i # Len(f)
    <3>1. f[i + 1] = u[i + 1]
      BY <1>1, <2>4
    <3> QED
      BY <2>2, <2>4, <3>1
  <2> QED
    BY <2>3, <2>4
<1>5. ASSUME NEW i \in 1..Len(a)
      PROVE  a[i].before = IF i = Len(a) THEN t.before ELSE a[i + 1].after
  <2>1. CASE i = Len(a)
    BY <1>2, <2>1
  <2>2. CASE i = Len(r) /\ i # Len(a)
    <3>1. a[i] = r[i] /\ r[i].before = d /\ a[i + 1] = t
      BY <1>2, <2>2 DEF Linked
    <3> QED
      BY <1>3, <2>2, <3>1
  <2>3. CASE i # Len(r) /\ i # Len(a)
    <3>1. i \in 1..Len(r) /\ i + 1 \in 1..Len(r)
      BY <1>2, <2>3
    <3>2. r[i].before = r[i + 1].after
      BY <2>3, <3>1 DEF Linked
    <3>3. a[i] = r[i] /\ a[i + 1] = r[i + 1]
      BY <1>2, <3>1
    <3> QED
      BY <2>3, <3>2, <3>3
  <2> QED
    BY <2>1, <2>2, <2>3
<1>6. Linked(f, a, t.before)
  BY <1>4, <1>5 DEF Linked
<1> QED
  BY <1>3, <1>6 DEF f, t, a

LEMMA LinkRedone ==
  ASSUME NEW u \in Seq(Changes), NEW r \in Seq(Changes), NEW d, Linked(u, r, d), r # <<>>
  PROVE  /\ Last(r).before = d
         /\ Linked(Append(u, Last(r)), Front(r), Last(r).after)
<1> DEFINE f == Front(r)
           t == Last(r)
           a == Append(u, t)
<1>1. /\ Len(r) \in Nat \ {0} /\ t = r[Len(r)] /\ t \in Changes
      /\ f \in Seq(Changes) /\ Len(f) = Len(r) - 1
      /\ \A i \in 1..Len(r) - 1 : f[i] = r[i]
  BY FrontAt
<1> HIDE DEF f, t
<1>2. /\ Len(u) \in Nat /\ Len(a) = Len(u) + 1
      /\ \A i \in 1..Len(u) : a[i] = u[i]
      /\ a[Len(u) + 1] = t
  BY <1>1, AppendAt
<1> HIDE DEF a
<1>3. t.before = d
  <2>1. Len(r) \in 1..Len(r)
    BY <1>1
  <2> QED
    BY <1>1, <2>1 DEF Linked
<1>4. ASSUME NEW i \in 1..Len(f)
      PROVE  f[i].before = IF i = Len(f) THEN t.after ELSE f[i + 1].after
  <2>1. i \in 1..Len(r) /\ i # Len(r) /\ f[i] = r[i]
    BY <1>1
  <2>2. f[i].before = r[i + 1].after
    BY <2>1 DEF Linked
  <2>3. CASE i = Len(f)
    BY <1>1, <2>2, <2>3
  <2>4. CASE i # Len(f)
    <3>1. f[i + 1] = r[i + 1]
      BY <1>1, <2>4
    <3> QED
      BY <2>2, <2>4, <3>1
  <2> QED
    BY <2>3, <2>4
<1>5. ASSUME NEW i \in 1..Len(a)
      PROVE  a[i].after = IF i = Len(a) THEN t.after ELSE a[i + 1].before
  <2>1. CASE i = Len(a)
    BY <1>2, <2>1
  <2>2. CASE i = Len(u) /\ i # Len(a)
    <3>1. a[i] = u[i] /\ u[i].after = d /\ a[i + 1] = t
      BY <1>2, <2>2 DEF Linked
    <3> QED
      BY <1>3, <2>2, <3>1
  <2>3. CASE i # Len(u) /\ i # Len(a)
    <3>1. i \in 1..Len(u) /\ i + 1 \in 1..Len(u)
      BY <1>2, <2>3
    <3>2. u[i].after = u[i + 1].before
      BY <2>3, <3>1 DEF Linked
    <3>3. a[i] = u[i] /\ a[i + 1] = u[i + 1]
      BY <1>2, <3>1
    <3> QED
      BY <2>3, <3>2, <3>3
  <2> QED
    BY <2>1, <2>2, <2>3
<1>6. Linked(a, f, t.after)
  BY <1>4, <1>5 DEF Linked
<1> QED
  BY <1>3, <1>6 DEF f, t, a

\* A new newest change, once it is linked to what is older, ends the redo branch.
LEMMA LinkAppended ==
  ASSUME NEW u \in Seq(Changes), NEW r \in Seq(Changes), NEW t \in Changes,
         Linked(u, r, t.before)
  PROVE  Linked(Append(u, t), <<>>, t.after)
<1> DEFINE a == Append(u, t)
<1>1. /\ a \in Seq(Changes) /\ Len(u) \in Nat /\ Len(a) = Len(u) + 1
      /\ \A i \in 1..Len(u) : a[i] = u[i]
      /\ a[Len(u) + 1] = t
  BY AppendAt
<1> HIDE DEF a
<1>2. ASSUME NEW j \in 1..Len(a)
      PROVE  a[j].after = IF j = Len(a) THEN t.after ELSE a[j + 1].before
  <2>1. CASE j = Len(a)
    BY <1>1, <2>1
  <2>2. CASE j = Len(u) /\ j # Len(a)
    <3>1. a[j] = u[j] /\ u[j].after = t.before /\ a[j + 1] = t
      BY <1>1, <2>2 DEF Linked
    <3> QED
      BY <2>2, <3>1
  <2>3. CASE j # Len(u) /\ j # Len(a)
    <3>1. j \in 1..Len(u) /\ j + 1 \in 1..Len(u)
      BY <1>1, <2>3
    <3>2. u[j].after = u[j + 1].before
      BY <2>3, <3>1 DEF Linked
    <3>3. a[j] = u[j] /\ a[j + 1] = u[j + 1]
      BY <1>1, <3>1
    <3> QED
      BY <2>3, <3>2, <3>3
  <2> QED
    BY <2>1, <2>2, <2>3
<1>3. Linked(a, <<>>, t.after)
  <2>1. Len(<<>>) = 0
    BY EmptySeq
  <2> QED
    BY <1>2, <2>1 DEF Linked
<1> QED
  BY <1>3 DEF a

LEMMA LinkSuffix ==
  ASSUME NEW u \in Seq(Changes), NEW d, Linked(u, <<>>, d), NEW k \in 0..Len(u)
  PROVE  Linked(SubSeq(u, k + 1, Len(u)), <<>>, d)
<1> DEFINE s == SubSeq(u, k + 1, Len(u))
           m == Len(u) - k
<1>1. Len(s) = m /\ \A i \in 1..m : s[i] = u[k + i]
  BY SuffixAt
<1>2. m \in Nat /\ k \in Nat /\ Len(u) = k + m
  <2>1. Len(u) \in Nat
    OBVIOUS
  <2> QED
    BY <2>1
<1> HIDE DEF s, m
<1>3. ASSUME NEW i \in 1..Len(s)
      PROVE  s[i].after = IF i = Len(s) THEN d ELSE s[i + 1].before
  <2>1. k + i \in 1..Len(u) /\ s[i] = u[k + i] /\ (i = Len(s) <=> k + i = Len(u))
    BY <1>1, <1>2
  <2>2. i # Len(s) => s[i + 1] = u[(k + i) + 1]
    <3>1. i # m => i + 1 \in 1..m /\ k + (i + 1) = (k + i) + 1
      BY <1>1, <1>2
    <3> QED
      BY <1>1, <3>1
  <2>3. u[k + i].after = IF k + i = Len(u) THEN d ELSE u[(k + i) + 1].before
    BY <2>1 DEF Linked
  <2> QED
    BY <2>1, <2>2, <2>3
<1>4. Linked(s, <<>>, d)
  <2>1. Len(<<>>) = 0
    BY EmptySeq
  <2> QED
    BY <1>3, <2>1 DEF Linked
<1> QED
  BY <1>4 DEF s

LEMMA MinIsMember ==
  ASSUME NEW S \in SUBSET Nat, S # {}
  PROVE  Min(S) \in S
<1>1. PICK x \in S : \A y \in S : ~(<<y, x>> \in OpToRel(<, Nat))
  BY NatLessThanWellFounded, WFMin
<1>2. \A y \in S : x <= y
  <2> SUFFICES ASSUME NEW y \in S, ~(x <= y)
               PROVE  FALSE
    OBVIOUS
  <2>1. x \in Nat /\ y \in Nat /\ y < x
    OBVIOUS
  <2>2. <<y, x>> \in OpToRel(<, Nat)
    BY <2>1, Zenon DEF OpToRel
  <2> QED
    BY <1>1, <2>2
<1> QED
  BY <1>1, <1>2 DEF Min

\* A prune spares the newest change, meets the limit on transactions, and
\* meets the budget unless nothing but the newest change is left.
LEMMA EnoughPruned ==
  ASSUME NEW u \in Seq(Changes), u # <<>>, NEW total \in Int, NEW k, k = PruneCount(u, total)
  PROVE  /\ k \in 0..Len(u) - 1 /\ Len(u) - k <= MaxTransactions
         /\ total - Bytes(SubSeq(u, 1, k)) <= MaxBytes \/ k = Len(u) - 1
<1> DEFINE n == Len(u)
           Enough(j) == n - j <= MaxTransactions /\ total - Bytes(SubSeq(u, 1, j)) <= MaxBytes
           S == {j \in 0..(n - 1) : Enough(j)} \cup {n - 1}
<1>1. n \in Nat \ {0} /\ MaxTransactions \in Nat \ {0}
  BY FrontAt, PagedHistoryAssumption
<1>2. k = Min(S)
  BY Zenon DEF PruneCount
<1>3. S \in SUBSET Nat /\ S # {}
  <2> HIDE DEF n, Enough
  <2> QED
    BY <1>1
<1>4. k \in S
  <2> HIDE DEF S
  <2> QED
    BY <1>2, <1>3, MinIsMember
<1>5. k \in 0..(n - 1) /\ (Enough(k) \/ k = n - 1)
  <2> HIDE DEF n, Enough
  <2> QED
    BY <1>1, <1>4
<1>6. n - k <= MaxTransactions
  <2> HIDE DEF n
  <2> QED
    BY <1>1, <1>5
<1> QED
  BY <1>5, <1>6

\* The pages and the list that are left when the first k changes of u go.
Commits(a, mem, at, u, rest, k, n) ==
  /\ Kept(a, mem, at, rest, n)
  /\ rest # <<>> /\ Last(rest) = Last(u)
  /\ Legal(rest, n) /\ Linked(rest, <<>>, Whole(mem))
  /\ Bytes(u) - Bytes(SubSeq(u, 1, k)) = Bytes(rest)
  /\ Bytes(rest) <= MaxBytes \/ Len(rest) = 1

\* The global history u with a new newest change, once it is pruned, and the
\* pages with it.
LEMMA Committed ==
  ASSUME NEW n \in Nat \ {0}, NEW mem, NEW at, NEW redone,
         NEW u, Legal(u, n), u # <<>>, Linked(u, <<>>, Whole(mem)), Last(u).page = at,
         Known(mem, at, u, redone, n),
         NEW k \in 0..Len(u) - 1, k = PruneCount(u, Bytes(u)),
         NEW rest, rest = SubSeq(u, k + 1, Len(u)),
         NEW a, a = ApplyChange(mem, at, redone, SubSeq(u, 1, k))
  PROVE  Commits(a, mem, at, u, rest, k, n)
<1>1. u \in Seq(Changes)
  BY DEF Legal
<1>2. Len(u) \in Nat \ {0} /\ Last(u) = u[Len(u)]
  BY <1>1, FrontAt
<1>3. Bytes(u) \in Nat /\ Bytes(u) \in Int
  <2>1. Bytes(u) \in Nat
    BY <1>1, BytesIsNat
  <2> QED
    BY <2>1
<1>4. /\ k \in 0..Len(u) - 1 /\ Len(u) - k <= MaxTransactions
      /\ Bytes(u) - Bytes(SubSeq(u, 1, k)) <= MaxBytes \/ k = Len(u) - 1
  BY <1>1, <1>3, EnoughPruned
<1>5. k \in 0..Len(u)
  BY <1>2, <1>4
<1>6. /\ rest \in Seq(Changes) /\ Len(rest) = Len(u) - k
      /\ \A i \in 1..Len(u) - k : rest[i] = u[k + i]
  BY <1>1, <1>5, SuffixAt
<1>7. rest # <<>> /\ Last(rest) = Last(u)
  <2> DEFINE m == Len(u)
  <2>1. m \in Nat \ {0} /\ k \in 0..m - 1 /\ Len(rest) = m - k
    BY <1>2, <1>4, <1>6
  <2> HIDE DEF m
  <2>2. m - k \in 1..m - k /\ k + (m - k) = m /\ m - k # 0
    <3>1. \A x \in Nat \ {0} : \A y \in 0..x - 1 :
            x - y \in 1..x - y /\ y + (x - y) = x /\ x - y # 0
      OBVIOUS
    <3> QED
      BY <2>1, <3>1
  <2>3. \A i \in 1..m - k : rest[i] = u[k + i]
    BY <1>6 DEF m
  <2>4. rest[m - k] = u[m]
    BY <2>2, <2>3
  <2>5. rest # <<>>
    BY <2>1, <2>2, EmptySeq
  <2> QED
    BY <1>2, <2>1, <2>4, <2>5 DEF Last, m
<1>8. Kept(a, mem, at, rest, n)
  <2> DEFINE pruned == SubSeq(u, 1, k)
             w == rest
             b == a
  <2>1. /\ pruned \in Seq(Changes) /\ w \in Seq(Changes) /\ w # <<>>
        /\ u = pruned \o w /\ Last(w).page = at
        /\ b = ApplyChange(mem, at, redone, pruned)
    BY <1>1, <1>5, <1>6, <1>7, PrefixAt, SplitIsAll
  <2> HIDE DEF pruned, w, b
  <2>2. Kept(b, mem, at, w, n)
    BY <2>1, ChangesApplied
  <2> QED
    BY <2>2 DEF w, b
<1>9. Legal(rest, n) /\ Linked(rest, <<>>, Whole(mem))
  BY <1>1, <1>5, LegalSuffix, LinkSuffix
<1>10. Bytes(u) - Bytes(SubSeq(u, 1, k)) = Bytes(rest)
  <2>1. Bytes(u) = Bytes(SubSeq(u, 1, k)) + Bytes(rest)
    BY <1>1, <1>5, BytesSplit
  <2>2. SubSeq(u, 1, k) \in Seq(Changes)
    BY <1>1, <1>5, PrefixAt
  <2>3. Bytes(SubSeq(u, 1, k)) \in Nat /\ Bytes(rest) \in Nat
    BY <1>6, <2>2, BytesIsNat
  <2> QED
    BY <2>1, <2>3
<1>11. Bytes(rest) <= MaxBytes \/ Len(rest) = 1
  <2>1. CASE k = Len(u) - 1
    BY <1>2, <1>6, <2>1
  <2>2. CASE k # Len(u) - 1
    BY <1>4, <1>10, <2>2
  <2> QED
    BY <2>1, <2>2
<1> QED
  BY <1>7, <1>8, <1>9, <1>10, <1>11 DEF Commits

LEMMA WholeIsDocument ==
  ASSUME NEW n, NEW mem, NEW at, NEW u, NEW r, InMemory(mem, at, u, r, n)
  PROVE  /\ Whole(mem) \in [Pages -> PageTexts]
         /\ \A p \in DOMAIN mem : Whole(mem)[p] = mem[p].text
<1>1. DOMAIN mem \subseteq Pages
  BY DEF InMemory
<1>2. ASSUME NEW p \in Pages
      PROVE  Text(mem, p) \in PageTexts
  <2>1. CASE p \in DOMAIN mem
    BY <2>1 DEF InMemory, Sound, PageStates, Text
  <2>2. CASE p \notin DOMAIN mem
    BY <2>2, PagedHistoryAssumption DEF Text
  <2> QED
    BY <2>1, <2>2
<1>3. Whole(mem) \in [Pages -> PageTexts]
  BY <1>2 DEF Whole
<1>4. \A p \in DOMAIN mem : Whole(mem)[p] = mem[p].text
  BY <1>1 DEF Whole, Text
<1> QED
  BY <1>3, <1>4

\* An edit of page `at` changes the document at that page only.
Edited(after, mem, at, page) ==
  /\ DOMAIN after = DOMAIN mem /\ IsMap(after)
  /\ after[at] = page /\ \A p \in DOMAIN mem : p # at => after[p] = mem[p]
  /\ Whole(after)[at] = page.text
  /\ \A p \in Pages : p # at => Whole(after)[p] = Whole(mem)[p]

LEMMA WholeEdited ==
  ASSUME NEW mem, DOMAIN mem \subseteq Pages, NEW at \in DOMAIN mem, NEW page,
         NEW after, after = [mem EXCEPT ![at] = page]
  PROVE  Edited(after, mem, at, page)
<1>1. /\ DOMAIN after = DOMAIN mem /\ after[at] = page
      /\ \A p \in DOMAIN mem : p # at => after[p] = mem[p]
  OBVIOUS
<1>2. IsMap(after)
  BY DEF IsMap
<1>3. Text(after, at) = page.text
  BY <1>1 DEF Text
<1>4. \A p \in Pages : p # at => Text(after, p) = Text(mem, p)
  BY <1>1 DEF Text
<1> QED
  BY <1>1, <1>2, <1>3, <1>4 DEF Whole, Edited

\* A page has something to redo only if the global history has.
LEMMA RedoIsHeld ==
  ASSUME NEW n, NEW mem, NEW at, NEW u, NEW r, r \in Seq(Changes), InMemory(mem, at, u, r, n),
         NEW p \in DOMAIN mem
  PROVE  mem[p].redo = <<>> \/ \E i \in DOMAIN r : r[i].page = p
<1> SUFFICES ASSUME \A i \in DOMAIN r : r[i].page # p
             PROVE  mem[p].redo = <<>>
  OBVIOUS
<1>1. Own(r, p) = <<>>
  <2>1. DOMAIN r = 1..Len(r)
    OBVIOUS
  <2> QED
    BY <2>1, OwnNone
<1>2. mem[p].redo \in Seq(PageChanges) /\ Matches(mem[p].redo, <<>>, p)
  BY <1>1 DEF InMemory, Sound, PageStates
<1> QED
  BY <1>2, EmptySeq DEF Matches

LEMMA RecordIsKnown ==
  ASSUME NEW n, n \in Nat \ {0}, NEW mem, NEW at, NEW u, NEW r,
         u \in Seq(Changes), r \in Seq(Changes), InMemory(mem, at, u, r, n),
         NEW typed \in PageTexts, NEW bytes \in Nat, NEW run \in Runs \cup {NoRun},
         NEW page, page = RecordLocally(mem[at], typed, bytes, run),
         NEW after, after = [mem EXCEPT ![at] = page],
         NEW t, t \in Changes, t.page = at, t.before = Whole(mem), t.after = Whole(after),
         t.bytes = bytes + Overhead
  PROVE  Known(after, at, Append(u, t), r, n + 1)
<1> DEFINE a == Append(u, t)
           q == mem[at]
           x == [before |-> q.text, after |-> typed, bytes |-> bytes, id |-> q.next]
<1>1. DOMAIN mem \subseteq Pages /\ at \in DOMAIN mem /\ Sound(q, n)
  BY DEF InMemory
<1>2. /\ DOMAIN after = DOMAIN mem /\ IsMap(after)
      /\ after[at] = page /\ \A p \in DOMAIN mem : p # at => after[p] = mem[p]
      /\ Whole(after)[at] = page.text
  <2>1. Edited(after, mem, at, page)
    BY <1>1, WholeEdited
  <2> QED
    BY <2>1 DEF Edited
<1>3. /\ Sound(page, n + 1) /\ page.undo = Append(q.undo, x) /\ page.redo = <<>>
      /\ page.text = typed /\ page.run = run /\ x \in PageChanges
  <2>1. n \in Nat
    OBVIOUS
  <2> HIDE DEF q
  <2>2. page = RecordLocally(q, typed, bytes, run)
    BY DEF q
  <2> QED
    BY <1>1, <2>1, <2>2, EditRecorded
<1>4. x.before = t.before[at] /\ x.after = t.after[at] /\ x.bytes + Overhead = t.bytes
  <2>1. Whole(mem)[at] = mem[at].text
    BY <1>1, WholeIsDocument
  <2> QED
    BY <1>2, <1>3, <2>1
<1>5. \A p \in Pages : /\ Own(u, p) \in Seq(Changes)
                       /\ Own(a, p) = IF p = at THEN Append(Own(u, p), t) ELSE Own(u, p)
  <2> SUFFICES ASSUME NEW p \in Pages
               PROVE  /\ Own(u, p) \in Seq(Changes)
                      /\ Own(a, p) = IF p = at THEN Append(Own(u, p), t) ELSE Own(u, p)
    OBVIOUS
  <2>1. /\ Own(u, p) \in Seq(Changes)
        /\ Own(Append(u, t), p) = IF t.page = p THEN Append(Own(u, p), t) ELSE Own(u, p)
    BY OwnAppend
  <2> QED
    BY <2>1
<1> HIDE DEF x, a, q
<1>6. Matches(page.undo, Own(a, at), at)
  <2>1. q.undo \in Seq(PageChanges)
    BY <1>1 DEF Sound, PageStates
  <2>2. Matches(q.undo, Own(u, at), at)
    BY <1>1 DEF InMemory, q
  <2>3. at \in Pages /\ Own(u, at) \in Seq(Changes) /\ Own(a, at) = Append(Own(u, at), t)
    BY <1>1, <1>5
  <2> DEFINE s == q.undo
             o == Own(u, at)
  <2> HIDE DEF s, o
  <2>4. s \in Seq(PageChanges) /\ o \in Seq(Changes) /\ Matches(s, o, at)
    BY <2>1, <2>2, <2>3 DEF s, o
  <2>5. Matches(Append(s, x), Append(o, t), at)
    BY <1>3, <1>4, <2>4, MatchAppend
  <2> QED
    BY <1>3, <2>3, <2>5 DEF s, o
<1>7. ASSUME NEW p \in DOMAIN after
      PROVE  /\ Sound(after[p], n + 1) /\ Matches(after[p].undo, Own(a, p), p)
             /\ after[p].redo = <<>> \/ \E i \in DOMAIN r : r[i].page = p
             /\ p # at => after[p].run = NoRun
  <2>1. CASE p = at
    BY <1>2, <1>3, <1>6, <2>1
  <2>2. CASE p # at
    <3>1. p \in DOMAIN mem /\ p \in Pages /\ after[p] = mem[p] /\ Own(a, p) = Own(u, p)
      BY <1>1, <1>2, <1>5, <2>2
    <3>2. Sound(mem[p], n) /\ Matches(mem[p].undo, Own(u, p), p) /\ mem[p].run = NoRun
      BY <2>2, <3>1 DEF InMemory
    <3>3. Sound(mem[p], n + 1)
      <4>1. n \in Nat
        OBVIOUS
      <4> QED
        BY <3>2, <4>1, SoundLater
    <3>4. mem[p].redo = <<>> \/ \E i \in DOMAIN r : r[i].page = p
      BY <3>1, RedoIsHeld
    <3> QED
      BY <3>1, <3>2, <3>3, <3>4
  <2> QED
    BY <2>1, <2>2
<1>8. ASSUME NEW p \in Pages \ DOMAIN after
      PROVE  Own(a, p) = <<>>
  <2>1. p \in Pages \ DOMAIN mem /\ p # at
    BY <1>1, <1>2
  <2> QED
    BY <1>5, <2>1 DEF InMemory
<1>9. Known(after, at, a, r, n + 1)
  BY <1>1, <1>2, <1>7, <1>8 DEF Known
<1> QED
  BY <1>9 DEF a

ExtensionKnown(after, mem, at, older, t, page, n) ==
  /\ Known(after, at, Append(older, t), <<>>, n + 1)
  /\ Len(page.undo) = Len(mem[at].undo) /\ page.run = mem[at].run

LEMMA ExtendIsKnown ==
  ASSUME NEW n, n \in Nat \ {0}, NEW mem, NEW at, NEW u,
         u \in Seq(Changes), u # <<>>, Last(u).page = at, InMemory(mem, at, u, <<>>, n),
         NEW typed \in PageTexts, NEW page, page = Extended(mem[at], typed),
         NEW after, after = [mem EXCEPT ![at] = page],
         NEW t, t \in Changes, t.page = at, t.before = Last(u).before, t.after = Whole(after),
         t.bytes = Last(page.undo).bytes + Overhead
  PROVE  ExtensionKnown(after, mem, at, Front(u), t, page, n)
<1> DEFINE f == Front(u)
           a == Append(f, t)
           q == mem[at]
<1>1. DOMAIN mem \subseteq Pages /\ at \in DOMAIN mem /\ Sound(q, n)
      /\ Matches(q.undo, Own(u, at), at)
  BY DEF InMemory
<1>2. /\ DOMAIN after = DOMAIN mem /\ IsMap(after)
      /\ after[at] = page /\ \A p \in DOMAIN mem : p # at => after[p] = mem[p]
      /\ Whole(after)[at] = page.text
  <2>1. Edited(after, mem, at, page)
    BY <1>1, WholeEdited
  <2> QED
    BY <2>1 DEF Edited
<1>3. f \in Seq(Changes) /\ <<>> \in Seq(Changes)
  BY FrontAt
<1>4. /\ Own(u, at) \in Seq(Changes) /\ Own(u, at) # <<>> /\ Last(Own(u, at)) = Last(u)
      /\ Front(Own(u, at)) = Own(f, at)
  BY OwnNewest
<1> HIDE DEF f, a, q
<1>5. q.undo \in Seq(PageChanges)
  BY <1>1 DEF Sound, PageStates
<1>6. /\ q.undo # <<>> /\ Last(q.undo) \in PageChanges /\ Front(q.undo) \in Seq(PageChanges)
      /\ Matches(Front(q.undo), Own(f, at), at) /\ Last(q.undo).before = Last(u).before[at]
      /\ Len(Front(q.undo)) = Len(q.undo) - 1
  <2> DEFINE s == q.undo
             o == Own(u, at)
  <2> HIDE DEF s, o
  <2>1. s \in Seq(PageChanges) /\ o \in Seq(Changes) /\ o # <<>> /\ Matches(s, o, at)
    BY <1>1, <1>4, <1>5 DEF s, o
  <2>2. /\ s # <<>> /\ Last(s) \in PageChanges /\ Front(s) \in Seq(PageChanges)
        /\ Matches(Front(s), Front(o), at) /\ Last(s).before = Last(o).before[at]
    <3>1. NewestMatch(s, o, at)
      BY <2>1, MatchNewest
    <3>2. Last(s) \in PageChanges /\ Front(s) \in Seq(PageChanges)
      BY <2>1, <3>1, FrontAt DEF NewestMatch
    <3> QED
      BY <3>1, <3>2 DEF NewestMatch
  <2>3. Len(Front(s)) = Len(s) - 1
    BY <2>1, <2>2, FrontAt
  <2> QED
    BY <1>4, <2>2, <2>3 DEF s, o
<1>0. Extends(page, q, typed, n + 1)
  <2>1. n \in Nat
    OBVIOUS
  <2>2. page = Extended(q, typed)
    BY DEF q
  <2> QED
    BY <1>1, <1>6, <2>1, <2>2, EditExtended
<1>7. PICK x \in PageChanges : /\ Sound(page, n + 1) /\ page.redo = q.redo
                               /\ page.text = typed /\ page.run = q.run
                               /\ page.undo = Append(Front(q.undo), x)
                               /\ x.before = Last(q.undo).before /\ x.after = typed
  BY <1>0 DEF Extends
<1>8. Last(page.undo) = x /\ Len(page.undo) = Len(q.undo)
  <2> DEFINE s == Front(q.undo)
  <2>1. s \in Seq(PageChanges) /\ x \in PageChanges /\ page.undo = Append(s, x)
        /\ Len(s) = Len(q.undo) - 1 /\ Len(q.undo) \in Nat
    BY <1>5, <1>6, <1>7
  <2> HIDE DEF s
  <2>2. /\ Len(s) \in Nat /\ Len(Append(s, x)) = Len(s) + 1 /\ Append(s, x)[Len(s) + 1] = x
    BY <2>1, AppendAt
  <2> QED
    BY <2>1, <2>2 DEF Last
<1>9. \A p \in Pages : /\ Own(f, p) \in Seq(Changes)
                       /\ p # at => Own(f, p) = Own(u, p)
                       /\ Own(a, p) = IF p = at THEN Append(Own(f, p), t) ELSE Own(f, p)
  <2> SUFFICES ASSUME NEW p \in Pages
               PROVE  /\ Own(f, p) \in Seq(Changes)
                      /\ p # at => Own(f, p) = Own(u, p)
                      /\ Own(a, p) = IF p = at THEN Append(Own(f, p), t) ELSE Own(f, p)
    OBVIOUS
  <2>1. /\ Own(f, p) \in Seq(Changes)
        /\ Own(Append(f, t), p) = IF t.page = p THEN Append(Own(f, p), t) ELSE Own(f, p)
    BY <1>3, OwnAppend
  <2>2. p # at => Own(f, p) = Own(u, p)
    BY OwnNewest DEF f
  <2> QED
    BY <2>1, <2>2 DEF a
<1>10. Matches(page.undo, Own(a, at), at)
  <2>1. x.before = t.before[at] /\ x.after = t.after[at] /\ x.bytes + Overhead = t.bytes
    BY <1>2, <1>6, <1>7, <1>8
  <2>2. at \in Pages /\ Own(f, at) \in Seq(Changes) /\ Own(a, at) = Append(Own(f, at), t)
    BY <1>1, <1>9
  <2> DEFINE s == Front(q.undo)
             o == Own(f, at)
  <2> HIDE DEF s, o
  <2>3. s \in Seq(PageChanges) /\ o \in Seq(Changes) /\ Matches(s, o, at)
    BY <1>6, <2>2 DEF s, o
  <2>4. Matches(Append(s, x), Append(o, t), at)
    BY <1>7, <2>1, <2>3, MatchAppend
  <2> QED
    BY <1>7, <2>2, <2>4 DEF s, o
<1>11. \A p \in DOMAIN mem : mem[p].redo = <<>>
  <2> SUFFICES ASSUME NEW p \in DOMAIN mem
               PROVE  mem[p].redo = <<>>
    OBVIOUS
  <2>1. DOMAIN <<>> = {}
    OBVIOUS
  <2> QED
    BY <1>3, <2>1, RedoIsHeld
<1>12. ASSUME NEW p \in DOMAIN after
       PROVE  /\ Sound(after[p], n + 1) /\ Matches(after[p].undo, Own(a, p), p)
              /\ after[p].redo = <<>>
              /\ p # at => after[p].run = NoRun
  <2>1. CASE p = at
    BY <1>1, <1>2, <1>7, <1>10, <1>11, <2>1 DEF q
  <2>2. CASE p # at
    <3>1. p \in DOMAIN mem /\ p \in Pages /\ after[p] = mem[p] /\ Own(a, p) = Own(u, p)
      BY <1>1, <1>2, <1>9, <2>2
    <3>2. Sound(mem[p], n) /\ Matches(mem[p].undo, Own(u, p), p) /\ mem[p].run = NoRun
      BY <2>2, <3>1 DEF InMemory
    <3>3. Sound(mem[p], n + 1)
      <4>1. n \in Nat
        OBVIOUS
      <4> QED
        BY <3>2, <4>1, SoundLater
    <3> QED
      BY <1>11, <3>1, <3>2, <3>3
  <2> QED
    BY <2>1, <2>2
<1>13. ASSUME NEW p \in Pages \ DOMAIN after
       PROVE  Own(a, p) = <<>>
  <2>1. p \in Pages \ DOMAIN mem /\ p # at
    BY <1>1, <1>2
  <2> QED
    BY <1>9, <2>1 DEF InMemory
<1>14. Known(after, at, a, <<>>, n + 1)
  BY <1>1, <1>2, <1>12, <1>13 DEF Known
<1> QED
  BY <1>7, <1>8, <1>14 DEF ExtensionKnown, a, f, q

Moved(after, at, u, r, n, d) ==
  InMemory(after, at, u, r, n) /\ after[at].run = NoRun /\ Whole(after) = d

\* The page undoes the very change the global history takes back.
LEMMA UndoMoves ==
  ASSUME NEW n, n \in Nat \ {0}, NEW mem, NEW at, NEW u, NEW r,
         u \in Seq(Changes), r \in Seq(Changes), InMemory(mem, at, u, r, n),
         u # <<>>, NEW t, t = Last(u), t.page = at, OnePage(t), t.after = Whole(mem),
         NEW after, after = [mem EXCEPT ![at] = Undone(mem[at])]
  PROVE  Moved(after, at, Front(u), Append(r, t), n, t.before)
<1> DEFINE f == Front(u)
           b == Append(r, t)
           q == mem[at]
           page == Undone(q)
<1>1. DOMAIN mem \subseteq Pages /\ at \in DOMAIN mem /\ Sound(q, n)
      /\ Matches(q.undo, Own(u, at), at) /\ Matches(q.redo, Own(r, at), at)
  BY DEF InMemory
<1>2. f \in Seq(Changes) /\ t \in Changes
  BY FrontAt
<1>3. /\ Own(u, at) \in Seq(Changes) /\ Own(u, at) # <<>> /\ Last(Own(u, at)) = t
      /\ Front(Own(u, at)) = Own(f, at)
  BY OwnNewest
<1>4. after = [mem EXCEPT ![at] = page]
  OBVIOUS
<1> HIDE DEF f, b, q, page
<1>5. q.undo \in Seq(PageChanges) /\ q.redo \in Seq(PageChanges)
  BY <1>1 DEF Sound, PageStates
<1>6. NewestMatch(q.undo, Own(u, at), at)
  <2> DEFINE s == q.undo
             o == Own(u, at)
  <2> HIDE DEF s, o
  <2>1. s \in Seq(PageChanges) /\ o \in Seq(Changes) /\ o # <<>> /\ Matches(s, o, at)
    BY <1>1, <1>3, <1>5 DEF s, o
  <2>2. NewestMatch(s, o, at)
    BY <2>1, MatchNewest
  <2> QED
    BY <2>2 DEF s, o
<1>7. /\ Sound(page, n) /\ page.text = Last(q.undo).before /\ page.run = NoRun
      /\ page.undo = Front(q.undo) /\ page.redo = Append(q.redo, Last(q.undo))
  <2>1. n \in Nat /\ q.undo # <<>>
    BY <1>6 DEF NewestMatch
  <2> QED
    BY <1>1, <2>1, ChangeUndone DEF page
<1>8. Edited(after, mem, at, page)
  BY <1>1, <1>4, WholeEdited
<1>9. page.text = t.before[at] /\ Matches(page.undo, Own(f, at), at)
  BY <1>3, <1>6, <1>7 DEF NewestMatch
<1>10. \A p \in Pages :
         /\ p # at => Own(f, p) = Own(u, p)
         /\ Own(r, p) \in Seq(Changes)
         /\ Own(b, p) = IF p = at THEN Append(Own(r, p), t) ELSE Own(r, p)
  <2> SUFFICES ASSUME NEW p \in Pages
               PROVE  /\ p # at => Own(f, p) = Own(u, p)
                      /\ Own(r, p) \in Seq(Changes)
                      /\ Own(b, p) = IF p = at THEN Append(Own(r, p), t) ELSE Own(r, p)
    OBVIOUS
  <2>1. /\ Own(r, p) \in Seq(Changes)
        /\ Own(Append(r, t), p) = IF t.page = p THEN Append(Own(r, p), t) ELSE Own(r, p)
    BY <1>2, OwnAppend
  <2>2. p # at => Own(f, p) = Own(u, p)
    BY OwnNewest DEF f
  <2> QED
    BY <2>1, <2>2 DEF b
<1>11. Matches(page.redo, Own(b, at), at)
  <2>1. at \in Pages /\ Own(r, at) \in Seq(Changes) /\ Own(b, at) = Append(Own(r, at), t)
    BY <1>1, <1>10
  <2>2. Last(q.undo) \in PageChanges
    BY <1>5, <1>6, FrontAt DEF NewestMatch
  <2> DEFINE s == q.redo
             o == Own(r, at)
             x == Last(q.undo)
  <2>3. x.before = t.before[at] /\ x.after = t.after[at] /\ x.bytes + Overhead = t.bytes
    BY <1>3, <1>6 DEF NewestMatch
  <2> HIDE DEF s, o, x
  <2>4. s \in Seq(PageChanges) /\ o \in Seq(Changes) /\ Matches(s, o, at) /\ x \in PageChanges
    BY <1>1, <1>5, <2>1, <2>2 DEF s, o, x
  <2>5. Matches(Append(s, x), Append(o, t), at)
    BY <1>2, <2>3, <2>4, MatchAppend
  <2> QED
    BY <1>7, <2>1, <2>5 DEF s, o, x
<1>12. ASSUME NEW p \in DOMAIN after
       PROVE  /\ Sound(after[p], n)
              /\ Matches(after[p].undo, Own(f, p), p) /\ Matches(after[p].redo, Own(b, p), p)
              /\ p # at => after[p].run = NoRun
  <2>1. CASE p = at
    BY <1>7, <1>8, <1>9, <1>11, <2>1 DEF Edited
  <2>2. CASE p # at
    <3>1. p \in DOMAIN mem /\ p \in Pages /\ after[p] = mem[p]
      BY <1>1, <1>8, <2>2 DEF Edited
    <3>2. Own(f, p) = Own(u, p) /\ Own(b, p) = Own(r, p)
      BY <1>10, <2>2, <3>1
    <3> QED
      BY <2>2, <3>1, <3>2 DEF InMemory
  <2> QED
    BY <2>1, <2>2
<1>13. ASSUME NEW p \in Pages \ DOMAIN after
       PROVE  Own(f, p) = <<>> /\ Own(b, p) = <<>>
  <2>1. p \in Pages \ DOMAIN mem /\ p # at
    BY <1>1, <1>8 DEF Edited
  <2>2. Own(f, p) = Own(u, p) /\ Own(b, p) = Own(r, p)
    BY <1>10, <2>1
  <2> QED
    BY <2>1, <2>2 DEF InMemory
<1>14. InMemory(after, at, f, b, n)
  BY <1>1, <1>8, <1>12, <1>13 DEF InMemory, Edited
<1>15. Whole(after) = t.before
  <2>1. Whole(after) \in [Pages -> PageTexts] /\ t.before \in [Pages -> PageTexts]
    BY <1>2, <1>14, WholeIsDocument DEF Changes
  <2>2. ASSUME NEW p \in Pages, p # at
        PROVE  Whole(after)[p] = t.before[p]
    <3>1. t.before[p] = t.after[p]
      BY <2>2 DEF OnePage
    <3>2. Whole(after)[p] = Whole(mem)[p]
      BY <1>8, <2>2 DEF Edited
    <3>3. Whole(mem)[p] = t.after[p]
      OBVIOUS
    <3> QED
      BY <3>1, <3>2, <3>3
  <2>3. at \in Pages /\ Whole(after)[at] = t.before[at]
    BY <1>1, <1>8, <1>9 DEF Edited
  <2> DEFINE d == Whole(after)
             e == t.before
  <2>4. /\ d \in [Pages -> PageTexts] /\ e \in [Pages -> PageTexts]
        /\ \A p \in Pages : d[p] = e[p]
    BY <2>1, <2>2, <2>3
  <2> HIDE DEF d, e
  <2>5. d = e
    BY <2>4
  <2> QED
    BY <2>5 DEF d, e
<1>16. after[at].run = NoRun
  BY <1>7, <1>8 DEF Edited
<1> QED
  BY <1>14, <1>15, <1>16 DEF Moved, f, b

\* The page redoes the very change the global history makes again.
LEMMA RedoMoves ==
  ASSUME NEW n, n \in Nat \ {0}, NEW mem, NEW at, NEW u, NEW r,
         u \in Seq(Changes), r \in Seq(Changes), InMemory(mem, at, u, r, n),
         r # <<>>, NEW t, t = Last(r), t.page = at, OnePage(t), t.before = Whole(mem),
         NEW after, after = [mem EXCEPT ![at] = Redone(mem[at])]
  PROVE  Moved(after, at, Append(u, t), Front(r), n, t.after)
<1> DEFINE f == Front(r)
           b == Append(u, t)
           q == mem[at]
           page == Redone(q)
<1>1. DOMAIN mem \subseteq Pages /\ at \in DOMAIN mem /\ Sound(q, n)
      /\ Matches(q.undo, Own(u, at), at) /\ Matches(q.redo, Own(r, at), at)
  BY DEF InMemory
<1>2. f \in Seq(Changes) /\ t \in Changes
  BY FrontAt
<1>3. /\ Own(r, at) \in Seq(Changes) /\ Own(r, at) # <<>> /\ Last(Own(r, at)) = t
      /\ Front(Own(r, at)) = Own(f, at)
  BY OwnNewest
<1>4. after = [mem EXCEPT ![at] = page]
  OBVIOUS
<1>0. Whole(mem)[at] = q.text
  BY <1>1, WholeIsDocument
<1> HIDE DEF f, b, q, page
<1>5. q.undo \in Seq(PageChanges) /\ q.redo \in Seq(PageChanges)
  BY <1>1 DEF Sound, PageStates
<1>6. NewestMatch(q.redo, Own(r, at), at)
  <2> DEFINE s == q.redo
             o == Own(r, at)
  <2> HIDE DEF s, o
  <2>1. s \in Seq(PageChanges) /\ o \in Seq(Changes) /\ o # <<>> /\ Matches(s, o, at)
    BY <1>1, <1>3, <1>5 DEF s, o
  <2>2. NewestMatch(s, o, at)
    BY <2>1, MatchNewest
  <2> QED
    BY <2>2 DEF s, o
<1>7. /\ Sound(page, n) /\ page.text = Last(q.redo).after /\ page.run = NoRun
      /\ page.undo = Append(q.undo, Last(q.redo)) /\ page.redo = Front(q.redo)
  <2>1. n \in Nat /\ q.redo # <<>> /\ Last(q.redo).before = q.text
    BY <1>0, <1>3, <1>6 DEF NewestMatch
  <2> QED
    BY <1>1, <2>1, ChangeRedone DEF page
<1>8. Edited(after, mem, at, page)
  BY <1>1, <1>4, WholeEdited
<1>9. page.text = t.after[at] /\ Matches(page.redo, Own(f, at), at)
  BY <1>3, <1>6, <1>7 DEF NewestMatch
<1>10. \A p \in Pages :
         /\ p # at => Own(f, p) = Own(r, p)
         /\ Own(u, p) \in Seq(Changes)
         /\ Own(b, p) = IF p = at THEN Append(Own(u, p), t) ELSE Own(u, p)
  <2> SUFFICES ASSUME NEW p \in Pages
               PROVE  /\ p # at => Own(f, p) = Own(r, p)
                      /\ Own(u, p) \in Seq(Changes)
                      /\ Own(b, p) = IF p = at THEN Append(Own(u, p), t) ELSE Own(u, p)
    OBVIOUS
  <2>1. /\ Own(u, p) \in Seq(Changes)
        /\ Own(Append(u, t), p) = IF t.page = p THEN Append(Own(u, p), t) ELSE Own(u, p)
    BY <1>2, OwnAppend
  <2>2. p # at => Own(f, p) = Own(r, p)
    BY OwnNewest DEF f
  <2> QED
    BY <2>1, <2>2 DEF b
<1>11. Matches(page.undo, Own(b, at), at)
  <2>1. at \in Pages /\ Own(u, at) \in Seq(Changes) /\ Own(b, at) = Append(Own(u, at), t)
    BY <1>1, <1>10
  <2>2. Last(q.redo) \in PageChanges
    BY <1>5, <1>6, FrontAt DEF NewestMatch
  <2> DEFINE s == q.undo
             o == Own(u, at)
             x == Last(q.redo)
  <2>3. x.before = t.before[at] /\ x.after = t.after[at] /\ x.bytes + Overhead = t.bytes
    BY <1>3, <1>6 DEF NewestMatch
  <2> HIDE DEF s, o, x
  <2>4. s \in Seq(PageChanges) /\ o \in Seq(Changes) /\ Matches(s, o, at) /\ x \in PageChanges
    BY <1>1, <1>5, <2>1, <2>2 DEF s, o, x
  <2>5. Matches(Append(s, x), Append(o, t), at)
    BY <1>2, <2>3, <2>4, MatchAppend
  <2> QED
    BY <1>7, <2>1, <2>5 DEF s, o, x
<1>12. ASSUME NEW p \in DOMAIN after
       PROVE  /\ Sound(after[p], n)
              /\ Matches(after[p].undo, Own(b, p), p) /\ Matches(after[p].redo, Own(f, p), p)
              /\ p # at => after[p].run = NoRun
  <2>1. CASE p = at
    BY <1>7, <1>8, <1>9, <1>11, <2>1 DEF Edited
  <2>2. CASE p # at
    <3>1. p \in DOMAIN mem /\ p \in Pages /\ after[p] = mem[p]
      BY <1>1, <1>8, <2>2 DEF Edited
    <3>2. Own(f, p) = Own(r, p) /\ Own(b, p) = Own(u, p)
      BY <1>10, <2>2, <3>1
    <3> QED
      BY <2>2, <3>1, <3>2 DEF InMemory
  <2> QED
    BY <2>1, <2>2
<1>13. ASSUME NEW p \in Pages \ DOMAIN after
       PROVE  Own(b, p) = <<>> /\ Own(f, p) = <<>>
  <2>1. p \in Pages \ DOMAIN mem /\ p # at
    BY <1>1, <1>8 DEF Edited
  <2>2. Own(f, p) = Own(r, p) /\ Own(b, p) = Own(u, p)
    BY <1>10, <2>1
  <2> QED
    BY <2>1, <2>2 DEF InMemory
<1>14. InMemory(after, at, b, f, n)
  BY <1>1, <1>8, <1>12, <1>13 DEF InMemory, Edited
<1>15. Whole(after) = t.after
  <2>1. Whole(after) \in [Pages -> PageTexts] /\ t.after \in [Pages -> PageTexts]
    BY <1>2, <1>14, WholeIsDocument DEF Changes
  <2>2. ASSUME NEW p \in Pages, p # at
        PROVE  Whole(after)[p] = t.after[p]
    <3>1. t.before[p] = t.after[p]
      BY <2>2 DEF OnePage
    <3>2. Whole(after)[p] = Whole(mem)[p]
      BY <1>8, <2>2 DEF Edited
    <3>3. Whole(mem)[p] = t.before[p]
      OBVIOUS
    <3> QED
      BY <3>1, <3>2, <3>3
  <2>3. at \in Pages /\ Whole(after)[at] = t.after[at]
    BY <1>1, <1>8, <1>9 DEF Edited
  <2> DEFINE d == Whole(after)
             e == t.after
  <2>4. /\ d \in [Pages -> PageTexts] /\ e \in [Pages -> PageTexts]
        /\ \A p \in Pages : d[p] = e[p]
    BY <2>1, <2>2, <2>3
  <2> HIDE DEF d, e
  <2>5. d = e
    BY <2>4
  <2> QED
    BY <2>5 DEF d, e
<1>16. after[at].run = NoRun
  BY <1>7, <1>8 DEF Edited
<1> QED
  BY <1>14, <1>15, <1>16 DEF Moved, f, b

-----------------------------------------------------------------------------
(* Steps. *)

\* The history becomes u without as many of its oldest changes as a prune takes.
Prunes(u) ==
  \E k \in 0..Len(u) - 1 :
     /\ Len(u) - k <= MaxTransactions
     /\ undo' = SubSeq(u, k + 1, Len(u))
     /\ baseId' = IF k = 0 THEN baseId ELSE u[k].id

\* A step after which t is the newest change.
Takes(mem, at, older, t) ==
  /\ PagedInv' /\ Prunes(Append(older, t)) /\ redo' = <<>>
  /\ onScreen' = at /\ pages'[at].run = mem[at].run
  /\ document' = t.after /\ currentId' = nextId /\ nextId' = nextId + 1

LEMMA CommitKeeps ==
  ASSUME PagedInv, NEW mem, NEW at, NEW older, NEW t, NEW redone, NEW r, NEW total,
         Legal(older, nextId), t \in Changes, t.id = nextId, t.page = at, OnePage(t),
         r \in Seq(Changes), Linked(older, r, t.before), t.after = Whole(mem),
         Known(mem, at, Append(older, t), redone, nextId + 1),
         total = Bytes(Append(older, t)), CommitChange(mem, at, older, t, redone, total),
         redo' = <<>>, savedId' = savedId, nextId < MaxPosition
  PROVE  Takes(mem, at, older, t)
<1> DEFINE u == Append(older, t)
           k == PruneCount(u, total)
           n == nextId + 1
           rest == SubSeq(u, k + 1, Len(u))
           a == ApplyChange(mem, at, redone, SubSeq(u, 1, k))
<1>1. nextId \in Nat \ {0} /\ nextId \in 1..MaxPosition /\ MaxPosition \in Nat
  BY PagedHistoryAssumption DEF PagedInv
<1>2. older \in Seq(Changes)
  BY DEF Legal
<1>3. /\ u \in Seq(Changes) /\ u # <<>> /\ Len(older) \in Nat /\ Len(u) = Len(older) + 1
      /\ (\A i \in 1..Len(older) : u[i] = older[i]) /\ u[Len(older) + 1] = t
  BY <1>2, AppendAt
<1>4. Last(u) = t
  BY <1>3 DEF Last
<1>5. Legal(u, n)
  <2>1. Legal(older, n) /\ n \in Nat /\ t.id \in 1..n - 1
    BY <1>1, LegalLater
  <2> HIDE DEF n
  <2> QED
    BY <2>1, LegalAppend
<1>6. Linked(u, <<>>, Whole(mem))
  BY <1>2, LinkAppended
<1>7. total \in Int
  <2>1. Bytes(u) \in Nat
    BY <1>3, BytesIsNat
  <2> QED
    BY <2>1
<1>8. /\ undo' = rest /\ baseId' = (IF k = 0 THEN baseId ELSE u[k].id)
      /\ currentId' = nextId /\ nextId' = n
      /\ retained' = total - Bytes(SubSeq(u, 1, k)) /\ onScreen' = at /\ pages' = a
  BY DEF CommitChange
<1> HIDE DEF u
<1>9. k \in 0..Len(u) - 1 /\ Len(u) - k <= MaxTransactions
  <2>1. k = PruneCount(u, total)
    OBVIOUS
  <2> HIDE DEF k
  <2> QED
    BY <1>3, <1>7, <2>1, EnoughPruned
<1>10. /\ Kept(a, mem, at, rest, n)
       /\ rest # <<>> /\ Last(rest) = t
       /\ Legal(rest, n) /\ Linked(rest, <<>>, Whole(mem))
       /\ total - Bytes(SubSeq(u, 1, k)) = Bytes(rest)
       /\ Bytes(rest) <= MaxBytes \/ Len(rest) = 1
  <2>1. k = PruneCount(u, Bytes(u)) /\ Last(u).page = at /\ total = Bytes(u)
    BY <1>4 DEF u
  <2>2. rest = SubSeq(u, k + 1, Len(u)) /\ a = ApplyChange(mem, at, redone, SubSeq(u, 1, k))
    OBVIOUS
  <2>3. n \in Nat \ {0} /\ Known(mem, at, u, redone, n)
    BY <1>1 DEF u
  <2> HIDE DEF rest, a, k, n
  <2>4. Commits(a, mem, at, u, rest, k, n)
    BY <1>3, <1>5, <1>6, <1>9, <2>1, <2>2, <2>3, Committed
  <2> QED
    BY <1>4, <2>1, <2>4 DEF Commits
<1>11. Prunes(u)
  <2> HIDE DEF k, u
  <2> QED
    BY <1>8, <1>9 DEF Prunes
<1> HIDE DEF rest, a, k
<1>12. InMemory(a, at, rest, <<>>, n) /\ a[at].run = mem[at].run /\ Whole(a) = Whole(mem)
  BY <1>10 DEF Kept
<1>13. document' = Whole(mem)
  BY <1>8, <1>12 DEF document
<1>14. PagedInv'
  <2>1. InMemory(pages, onScreen, undo, redo, nextId)'
    BY <1>8, <1>12
  <2>2. (pages[onScreen].run # NoRun
           => undo # <<>> /\ redo = <<>> /\ Last(undo).page = onScreen)'
    BY <1>8, <1>10
  <2>3. (Legal(undo, nextId) /\ Legal(redo, nextId) /\ Linked(undo, redo, document))'
    <3>1. Legal(<<>>, n)
      <4>1. <<>> \in Seq(Changes) /\ Len(<<>>) = 0
        BY EmptySeq
      <4> QED
        BY <4>1 DEF Legal
    <3> QED
      BY <1>8, <1>10, <1>13, <3>1
  <2>4. (retained = Bytes(undo) + Bytes(redo))'
    <3>1. Bytes(rest) \in Nat
      BY <1>10, BytesIsNat DEF Legal
    <3> QED
      BY <1>8, <1>10, <3>1, BytesEmpty
  <2>5. (retained <= MaxBytes \/ Len(undo) + Len(redo) = 1)'
    <3>1. Len(<<>>) = 0
      BY EmptySeq
    <3> QED
      BY <1>8, <1>10, <3>1
  <2>6. ({baseId, currentId, savedId} \subseteq 0..(nextId - 1) /\ nextId \in 1..MaxPosition)'
    <3>1. baseId \in 0..nextId - 1 /\ savedId \in 0..nextId - 1
      BY DEF PagedInv
    <3>2. k # 0 => u[k].id \in 1..nextId - 1
      <4> SUFFICES ASSUME k # 0
                   PROVE  u[k].id \in 1..nextId - 1
        OBVIOUS
      <4>1. k \in 1..Len(older)
        BY <1>3, <1>9
      <4> QED
        BY <1>3, <4>1 DEF Legal
    <3>3. baseId' \in 0..nextId
      BY <1>1, <1>8, <3>1, <3>2
    <3> QED
      BY <1>1, <1>8, <3>1, <3>3
  <2> QED
    BY <2>1, <2>2, <2>3, <2>4, <2>5, <2>6 DEF PagedInv
<1> QED
  BY <1>8, <1>11, <1>12, <1>13, <1>14 DEF Takes, u

\* The newest change: a new one, or the one before it extended.
Pushes == \E t \in Changes : /\ t.id = nextId /\ t.before = document /\ t.after = document'
                             /\ Prunes(Append(undo, t))
ExtendsNewest == \E t \in Changes : /\ t.id = nextId /\ t.before = Last(undo).before
                                    /\ t.after = document' /\ undo # <<>>
                                    /\ Prunes(Append(Front(undo), t))

LEMMA MutateKeeps ==
  ASSUME PagedInv, NEW mem, NEW at, InMemory(mem, at, undo, redo, nextId),
         Whole(mem) = document,
         mem[at].run # NoRun => undo # <<>> /\ redo = <<>> /\ Last(undo).page = at,
         Mutate(mem, at)
  PROVE  /\ PagedInv' /\ redo' = <<>> /\ nextId < MaxPosition
         /\ currentId' = nextId /\ nextId' = nextId + 1 /\ History!RefreshDirty
         /\ \/ Pushes
            \/ ExtendsNewest /\ redo = <<>> /\ mem[at].run # NoRun
               /\ pages'[onScreen'].run = mem[at].run
<1> DEFINE q == mem[at]
           n == nextId
<1>1. /\ n \in Nat \ {0} /\ undo \in Seq(Changes) /\ redo \in Seq(Changes)
      /\ Legal(undo, n) /\ Linked(undo, redo, document)
      /\ retained = Bytes(undo) + Bytes(redo)
      /\ Bytes(undo) \in Nat /\ Bytes(redo) \in Nat
  BY BytesIsNat DEF PagedInv, Legal
<1>2. DOMAIN mem \subseteq Pages /\ at \in DOMAIN mem /\ Sound(q, n)
  BY DEF InMemory
<1>3. nextId < MaxPosition /\ History!RefreshDirty
  BY Zenon DEF Mutate
<1>4. savedId' = savedId
  BY <1>3 DEF History!RefreshDirty
<1>5. PICK page \in LocalEdits(mem[at]) :
        LET after == [mem EXCEPT ![at] = page]
            bytes == Last(page.undo).bytes + Overhead
            extends == Len(page.undo) = Len(mem[at].undo)
        IN  IF extends /\ undo # <<>>
            THEN /\ CommitChange(after, at, Front(undo),
                           [Last(undo) EXCEPT !.id = nextId, !.bytes = bytes,
                                              !.after = Whole(after)],
                           <<>>, retained - Last(undo).bytes + bytes)
                 /\ UNCHANGED redo
            ELSE /\ CommitChange(after, at, undo,
                           [page |-> at, id |-> nextId, bytes |-> bytes,
                            before |-> document, after |-> Whole(after)],
                           redo, retained - Bytes(redo) + bytes)
                 /\ redo' = <<>>
  BY Zenon DEF Mutate
<1> DEFINE after == [mem EXCEPT ![at] = page]
           bytes == Last(page.undo).bytes + Overhead
<1>6. Edited(after, mem, at, page)
  BY <1>2, WholeEdited
<1>7. Overhead \in Nat /\ Sizes \subseteq Nat
  BY PagedHistoryAssumption
<1>8. Whole(mem) \in [Pages -> PageTexts]
  BY WholeIsDocument
<1>9. ASSUME page.text \in PageTexts
      PROVE  Whole(after) \in [Pages -> PageTexts]
  <2>1. \A p \in Pages : Whole(after)[p] \in PageTexts
    <3> SUFFICES ASSUME NEW p \in Pages
                 PROVE  Whole(after)[p] \in PageTexts
      OBVIOUS
    <3>1. CASE p = at
      BY <1>6, <1>9, <3>1 DEF Edited
    <3>2. CASE p # at
      BY <1>6, <1>8, <3>2 DEF Edited
    <3> QED
      BY <3>1, <3>2
  <2> HIDE DEF after
  <2> QED
    BY <2>1 DEF Whole
<1>10. CASE page \in {RecordLocally(mem[at], typed, size, run) :
                       typed \in PageTexts \ {mem[at].text}, size \in Sizes,
                       run \in Runs \cup {NoRun}}
  <2>1. PICK typed \in PageTexts, size \in Sizes, run \in Runs \cup {NoRun} :
          page = RecordLocally(mem[at], typed, size, run)
    BY <1>10
  <2> DEFINE x == [before |-> q.text, after |-> typed, bytes |-> size, id |-> q.next]
             t == [page |-> at, id |-> nextId, bytes |-> bytes,
                   before |-> document, after |-> Whole(after)]
  <2>2. /\ page.undo = Append(q.undo, x) /\ page.text = typed /\ q.undo \in Seq(PageChanges)
        /\ x \in PageChanges
    <3>1. n \in Nat /\ size \in Nat
      BY <1>1, <1>7
    <3>2. q.undo \in Seq(PageChanges)
      BY <1>2 DEF Sound, PageStates
    <3>3. page = RecordLocally(q, typed, size, run)
      BY <2>1
    <3> HIDE DEF q, n
    <3> QED
      BY <1>2, <3>1, <3>2, <3>3, EditRecorded
  <2>3. Len(page.undo) # Len(q.undo) /\ bytes = size + Overhead
    <3> DEFINE s == q.undo
    <3> HIDE DEF s
    <3>1. s \in Seq(PageChanges) /\ x \in PageChanges /\ page.undo = Append(s, x)
      BY <2>2 DEF s
    <3>2. x.bytes = size
      OBVIOUS
    <3> HIDE DEF x
    <3>3. /\ Append(s, x) \in Seq(PageChanges) /\ Len(s) \in Nat
          /\ Len(Append(s, x)) = Len(s) + 1 /\ Append(s, x)[Len(s) + 1] = x
      BY <3>1, AppendAt
    <3>4. Last(page.undo) = x
      BY <3>1, <3>3 DEF Last
    <3>5. Len(page.undo) # Len(s)
      BY <3>1, <3>3
    <3> QED
      BY <3>2, <3>4, <3>5 DEF s
  <2>4. CommitChange(after, at, undo, t, redo, retained - Bytes(redo) + bytes) /\ redo' = <<>>
    BY <1>5, <2>3, Zenon
  <2>5. /\ t \in Changes /\ t.id = n /\ t.page = at /\ t.before = document
        /\ t.after = Whole(after) /\ t.bytes = bytes
    <3>1. Whole(after) \in [Pages -> PageTexts]
      BY <1>9, <2>2
    <3>2. bytes \in Nat /\ at \in Pages /\ n \in Nat
      BY <1>1, <1>2, <1>7, <2>3
    <3> HIDE DEF after, bytes
    <3> QED
      BY <1>8, <3>1, <3>2 DEF Changes
  <2> HIDE DEF t
  <2>6. OnePage(t)
    <3> SUFFICES ASSUME NEW p \in Pages, p # at
                 PROVE  t.before[p] = t.after[p]
      BY <2>5 DEF OnePage
    <3>1. Whole(after)[p] = Whole(mem)[p]
      BY <1>6 DEF Edited
    <3>2. t.before[p] = Whole(mem)[p] /\ t.after[p] = Whole(after)[p]
      BY <2>5
    <3> QED
      BY <3>1, <3>2
  <2>7. Known(after, at, Append(undo, t), redo, n + 1)
    <3>1. size \in Nat
      BY <1>7
    <3>2. after = [mem EXCEPT ![at] = page]
      OBVIOUS
    <3> HIDE DEF after, bytes
    <3> QED
      BY <1>1, <2>1, <2>3, <2>5, <3>1, <3>2, RecordIsKnown
  <2>8. retained - Bytes(redo) + bytes = Bytes(Append(undo, t))
    <3>1. Bytes(Append(undo, t)) = Bytes(undo) + t.bytes
      BY <1>1, <2>5, BytesAppend
    <3>2. bytes \in Nat
      BY <1>7, <2>3
    <3> HIDE DEF bytes
    <3> QED
      BY <1>1, <2>5, <3>1, <3>2
  <2>9. Takes(after, at, undo, t)
    <3> DEFINE total == retained - Bytes(redo) + bytes
    <3>1. total = Bytes(Append(undo, t)) /\ CommitChange(after, at, undo, t, redo, total)
      BY <2>4, <2>8
    <3> HIDE DEF total, after, bytes
    <3> QED
      BY <1>1, <1>3, <1>4, <2>4, <2>5, <2>6, <2>7, <3>1, CommitKeeps
  <2>10. Pushes
    BY <2>5, <2>9 DEF Pushes, Takes
  <2> QED
    BY <1>3, <2>9, <2>10 DEF Takes
<1>11. CASE mem[at].run # NoRun /\ page \in {Extended(mem[at], typed) : typed \in PageTexts}
  <2>1. PICK typed \in PageTexts : page = Extended(mem[at], typed)
    BY <1>11, Zenon
  <2> DEFINE l == Last(undo)
             f == Front(undo)
             t == [l EXCEPT !.id = nextId, !.bytes = bytes, !.after = Whole(after)]
  <2>2. undo # <<>> /\ redo = <<>> /\ l.page = at
    BY <1>11
  <2>3. /\ Legal(f, n) /\ l \in Changes /\ OnePage(l) /\ l.after = document
        /\ Linked(f, Append(redo, l), l.before) /\ Append(redo, l) \in Seq(Changes)
    <3>1. n \in Nat
      BY <1>1
    <3>2. Legal(f, n) /\ l \in Changes /\ OnePage(l)
      BY <1>1, <2>2, <3>1, LegalNewest
    <3>3. l.after = document /\ Linked(f, Append(redo, l), l.before)
      BY <1>1, <2>2, LinkUndone
    <3>4. Append(redo, l) \in Seq(Changes)
      BY <1>1, <3>2, AppendAt
    <3> QED
      BY <3>2, <3>3, <3>4
  <2> HIDE DEF l
  <2>4. /\ q.undo # <<>> /\ q.undo \in Seq(PageChanges) /\ page.text = typed
        /\ Last(page.undo).bytes \in Nat
    <3>1. q.undo # <<>> /\ q.undo \in Seq(PageChanges)
      <4>1. Own(undo, at) # <<>> /\ Own(undo, at) \in Seq(Changes)
        BY <1>1, <2>2, OwnNewest DEF l
      <4>2. q.undo \in Seq(PageChanges) /\ Matches(q.undo, Own(undo, at), at)
        BY <1>2 DEF InMemory, Sound, PageStates
      <4> QED
        BY <4>1, <4>2, EmptySeq DEF Matches
    <3>2. Extends(page, q, typed, n + 1)
      <4>1. n \in Nat /\ page = Extended(q, typed)
        BY <1>1, <2>1
      <4> HIDE DEF q, n
      <4> QED
        BY <1>2, <3>1, <4>1, EditExtended
    <3>3. PICK x \in PageChanges : page.undo = Append(Front(q.undo), x) /\ page.text = typed
      BY <3>2 DEF Extends
    <3>4. Last(page.undo) = x
      <4> DEFINE s == Front(q.undo)
      <4>1. s \in Seq(PageChanges) /\ page.undo = Append(s, x)
        BY <3>1, <3>3, FrontAt
      <4> HIDE DEF s
      <4>2. /\ Len(s) \in Nat /\ Len(Append(s, x)) = Len(s) + 1
            /\ Append(s, x)[Len(s) + 1] = x
        BY <4>1, AppendAt
      <4> QED
        BY <4>1, <4>2 DEF Last
    <3> QED
      BY <3>1, <3>3, <3>4 DEF PageChanges
  <2>5. bytes \in Nat /\ Whole(after) \in [Pages -> PageTexts]
    <3>1. Whole(after) \in [Pages -> PageTexts]
      BY <1>9, <2>4
    <3>2. bytes \in Nat
      BY <1>7, <2>4
    <3> QED
      BY <3>1, <3>2
  <2>6. /\ t \in Changes /\ t.id = n /\ t.page = at /\ t.before = l.before
        /\ t.after = Whole(after) /\ t.bytes = bytes
    <3>1. n \in Nat
      BY <1>1
    <3> HIDE DEF after, bytes
    <3> QED
      BY <2>2, <2>3, <2>5, <3>1 DEF Changes
  <2> HIDE DEF t
  <2>7. OnePage(t)
    <3> SUFFICES ASSUME NEW p \in Pages, p # at
                 PROVE  t.before[p] = t.after[p]
      BY <2>6 DEF OnePage
    <3>1. l.before[p] = l.after[p]
      BY <2>2, <2>3 DEF OnePage
    <3>2. Whole(after)[p] = Whole(mem)[p]
      BY <1>6 DEF Edited
    <3> QED
      BY <2>3, <2>6, <3>1, <3>2
  <2>8. /\ Known(after, at, Append(f, t), <<>>, n + 1)
        /\ Len(page.undo) = Len(q.undo) /\ page.run = q.run
    <3>1. after = [mem EXCEPT ![at] = page]
      OBVIOUS
    <3>2. InMemory(mem, at, undo, <<>>, n) /\ Last(undo).page = at
      BY <2>2 DEF l
    <3>3. t.bytes = Last(page.undo).bytes + Overhead /\ t.before = Last(undo).before
      BY <2>6 DEF l
    <3> HIDE DEF after, bytes, f
    <3>4. ExtensionKnown(after, mem, at, f, t, page, n)
      BY <1>1, <2>1, <2>2, <2>6, <3>1, <3>2, <3>3, ExtendIsKnown DEF f
    <3> QED
      BY <3>4 DEF ExtensionKnown
  <2>9. CommitChange(after, at, f, t, <<>>, retained - l.bytes + bytes) /\ redo' = redo
    BY <1>5, <2>2, <2>8, Zenon DEF l, t
  <2>10. retained - l.bytes + bytes = Bytes(Append(f, t))
    <3>1. Bytes(undo) = Bytes(f) + l.bytes
      BY <1>1, <2>2, BytesFront DEF l
    <3>2. f \in Seq(Changes)
      BY <2>3 DEF Legal
    <3>3. Bytes(Append(f, t)) = Bytes(f) + t.bytes /\ Bytes(f) \in Nat
      BY <2>6, <3>2, BytesAppend, BytesIsNat
    <3>4. l.bytes \in Nat
      BY <2>3 DEF Changes
    <3> HIDE DEF bytes, f
    <3> QED
      BY <1>1, <2>2, <2>5, <2>6, <3>1, <3>3, <3>4, BytesEmpty
  <2>11. Takes(after, at, f, t)
    <3> DEFINE total == retained - l.bytes + bytes
               r == Append(redo, l)
    <3>1. total = Bytes(Append(f, t)) /\ CommitChange(after, at, f, t, <<>>, total)
      BY <2>9, <2>10
    <3>2. r \in Seq(Changes) /\ Linked(f, r, t.before)
      BY <2>3, <2>6
    <3>3. redo' = <<>>
      BY <2>2, <2>9
    <3> HIDE DEF total, after, bytes, f, r
    <3> QED
      BY <1>1, <1>3, <1>4, <2>3, <2>6, <2>7, <2>8, <3>1, <3>2, <3>3, CommitKeeps
  <2>12. ExtendsNewest
    BY <2>2, <2>6, <2>11 DEF ExtendsNewest, Takes, l
  <2>13. after[at] = page
    BY <1>6 DEF Edited
  <2> QED
    BY <1>3, <1>11, <2>2, <2>8, <2>11, <2>12, <2>13 DEF Takes
<1>12. \/ page \in {RecordLocally(mem[at], typed, size, run) :
                     typed \in PageTexts \ {mem[at].text}, size \in Sizes,
                     run \in Runs \cup {NoRun}}
       \/ mem[at].run # NoRun /\ page \in {Extended(mem[at], typed) : typed \in PageTexts}
  BY DEF LocalEdits
<1> QED
  BY <1>10, <1>11, <1>12

LEMMA InitKeeps == PagesInit => PagedInv
<1> SUFFICES ASSUME PagesInit
             PROVE  PagedInv
  OBVIOUS
<1>1. /\ onScreen = 1 /\ pages = [p \in {1} |-> Load] /\ undo = <<>> /\ redo = <<>>
      /\ baseId = 0 /\ nextId = 1 /\ currentId = 0 /\ retained = 0 /\ savedId = 0
  BY DEF PagesInit
<1>2. 1 \in Pages
  BY PagedHistoryAssumption DEF Pages
<1>3. <<>> \in Seq(Changes) /\ Len(<<>>) = 0
  BY EmptySeq
<1>4. InMemory(pages, 1, <<>>, <<>>, 1)
  <2>1. \A p \in Pages : Own(<<>>, p) = <<>> /\ Matches(<<>>, <<>>, p)
    BY OwnEmpty, EmptyMatches
  <2>2. Sound(Load, 1)
    BY Loaded
  <2>3. Load.undo = <<>> /\ Load.redo = <<>>
    BY DEF Load
  <2>4. DOMAIN pages = {1} /\ pages[1] = Load /\ IsMap(pages)
    BY <1>1 DEF IsMap
  <2> QED
    BY <1>2, <2>1, <2>2, <2>3, <2>4 DEF InMemory
<1>5. pages[onScreen].run = NoRun
  BY <1>1 DEF Load
<1>6. Legal(<<>>, 1) /\ Linked(<<>>, <<>>, document)
  BY <1>3 DEF Legal, Linked
<1>7. retained = Bytes(undo) + Bytes(redo)
  BY <1>1, BytesEmpty
<1>8. retained <= MaxBytes /\ nextId \in 1..MaxPosition
  BY <1>1, PagedHistoryAssumption
<1> QED
  BY <1>1, <1>4, <1>5, <1>6, <1>7, <1>8 DEF PagedInv

\* What the activation of any page leaves as it is.
LEMMA PageActivated ==
  ASSUME PagedInv, NEW to \in Pages, NEW mem, mem = Activate(pages, onScreen, to)
  PROVE  /\ InMemory(mem, to, undo, redo, nextId) /\ Whole(mem) = document
         /\ to # onScreen => mem[to].run = NoRun
         /\ to = onScreen => mem = pages
<1>1. /\ InMemory(pages, onScreen, undo, redo, nextId) /\ nextId \in Nat \ {0}
      /\ undo \in Seq(Changes) /\ redo \in Seq(Changes)
  BY PagedHistoryAssumption DEF PagedInv, Legal
<1>2. CASE to = onScreen
  BY <1>1, <1>2 DEF Activate, document
<1>3. CASE to # onScreen
  <2>1. LET a == Activate(pages, onScreen, to)
        IN  /\ InMemory(a, to, undo, redo, nextId) /\ a[to].run = NoRun
            /\ Whole(a) = Whole(pages)
    BY <1>1, <1>3, ActivateKeeps
  <2> QED
    BY <1>3, <2>1 DEF document
<1> QED
  BY <1>2, <1>3

\* An edit, of the page on screen or of its neighbour.
EditKept(run) ==
  /\ PagedInv' /\ redo' = <<>> /\ nextId < MaxPosition
  /\ currentId' = nextId /\ nextId' = nextId + 1 /\ History!RefreshDirty
  /\ \/ Pushes
     \/ ExtendsNewest /\ redo = <<>> /\ run # NoRun /\ pages'[onScreen'].run = run

LEMMA EditKeeps ==
  ASSUME PagedInv, EditPage
  PROVE  EditKept(pages[onScreen].run)
<1> DEFINE mem == pages
           at == onScreen
<1>1. /\ InMemory(mem, at, undo, redo, nextId) /\ Whole(mem) = document
      /\ (mem[at].run # NoRun => undo # <<>> /\ redo = <<>> /\ Last(undo).page = at)
  BY DEF PagedInv, document
<1>2. Mutate(mem, at)
  BY DEF EditPage
<1> QED
  BY <1>1, <1>2, MutateKeeps DEF EditKept

LEMMA NeighbourKeeps ==
  ASSUME PagedInv, EditNeighbour
  PROVE  EditKept(NoRun)
<1>1. PICK to \in Pages \cap {onScreen - 1, onScreen + 1} :
        Mutate(Activate(pages, onScreen, to), to)
  BY Zenon DEF EditNeighbour
<1> DEFINE mem == Activate(pages, onScreen, to)
<1>2. to # onScreen /\ to \in Pages
  BY DEF PagedInv, InMemory, Pages
<1>3. InMemory(mem, to, undo, redo, nextId) /\ Whole(mem) = document /\ mem[to].run = NoRun
  <2>1. mem = Activate(pages, onScreen, to)
    OBVIOUS
  <2> HIDE DEF mem
  <2> QED
    BY <1>2, <2>1, PageActivated
<1>4. Mutate(mem, to)
  BY <1>1
<1> HIDE DEF mem
<1> QED
  BY <1>3, <1>4, MutateKeeps DEF EditKept

\* What keeps the invariant when the history stays as it is.
LEMMA PagesChange ==
  ASSUME PagedInv, UNCHANGED history, savedId' \in {savedId, currentId},
         InMemory(pages', onScreen', undo, redo, nextId), Whole(pages') = document,
         pages'[onScreen'].run = NoRun
  PROVE  PagedInv' /\ document' = document
<1>1. /\ undo' = undo /\ redo' = redo /\ baseId' = baseId /\ nextId' = nextId
      /\ currentId' = currentId /\ retained' = retained
  BY DEF history
<1>2. document' = document
  BY DEF document
<1> QED
  BY <1>1, <1>2 DEF PagedInv

LEMMA RunEnds ==
  ASSUME PagedInv, pages' = [pages EXCEPT ![onScreen] = FinishRun(@)], onScreen' = onScreen
  PROVE  /\ InMemory(pages', onScreen', undo, redo, nextId) /\ Whole(pages') = document
         /\ pages'[onScreen'].run = NoRun
<1> DEFINE q == pages[onScreen]
           page == FinishRun(q)
<1>1. InMemory(pages, onScreen, undo, redo, nextId) /\ nextId \in Nat
  BY PagedHistoryAssumption DEF PagedInv
<1>2. DOMAIN pages \subseteq Pages /\ onScreen \in DOMAIN pages /\ Sound(q, nextId)
  BY <1>1 DEF InMemory
<1>3. /\ Sound(page, nextId) /\ page.text = q.text /\ page.run = NoRun
      /\ page.undo = q.undo /\ page.redo = q.redo
  <2> HIDE DEF q
  <2> QED
    BY <1>1, <1>2, RunFinished
<1>4. pages' = [pages EXCEPT ![onScreen] = page]
  OBVIOUS
<1> HIDE DEF q, page
<1>5. Edited(pages', pages, onScreen, page)
  BY <1>2, <1>4, WholeEdited
<1>6. InMemory(pages', onScreen, undo, redo, nextId)
  BY <1>1, <1>3, <1>5 DEF InMemory, Edited, q
<1>7. Whole(pages') = document
  <2>1. \A p \in Pages : Whole(pages')[p] = Whole(pages)[p]
    <3>1. Whole(pages)[onScreen] = q.text
      BY <1>1, <1>2, WholeIsDocument DEF q
    <3> QED
      BY <1>3, <1>5, <3>1 DEF Edited
  <2>2. \A p \in Pages : Text(pages', p) = Text(pages, p)
    BY <2>1 DEF Whole
  <2> QED
    BY <2>2 DEF Whole, document
<1> QED
  BY <1>3, <1>5, <1>6, <1>7 DEF Edited

LEMMA EndRunKeeps ==
  ASSUME PagedInv, EndRun
  PROVE  PagedInv' /\ document' = document
<1>1. pages' = [pages EXCEPT ![onScreen] = FinishRun(@)] /\ onScreen' = onScreen
  BY DEF EndRun
<1>2. UNCHANGED history /\ savedId' = savedId
  BY DEF EndRun, fileState
<1> QED
  BY <1>1, <1>2, RunEnds, PagesChange

LEMMA ChangePageKeeps ==
  ASSUME PagedInv, ChangePage
  PROVE  /\ PagedInv' /\ document' = document
         /\ UNCHANGED <<history, fileState>> /\ pages'[onScreen'].run = NoRun
<1>1. PICK to \in Pages \ {onScreen} :
         /\ pages' = Activate(pages, onScreen, to)
         /\ onScreen' = to
         /\ UNCHANGED <<history, fileState>>
  BY Zenon DEF ChangePage
<1>2. /\ InMemory(pages', to, undo, redo, nextId) /\ Whole(pages') = document
      /\ pages'[to].run = NoRun
  BY <1>1, PageActivated
<1>3. UNCHANGED history /\ savedId' = savedId
  BY <1>1 DEF fileState
<1> QED
  BY <1>1, <1>2, <1>3, PagesChange

LEMMA SaveKeeps ==
  ASSUME PagedInv, SavePages
  PROVE  PagedInv' /\ document' = document /\ pages'[onScreen'].run = NoRun
<1>1. pages' = [pages EXCEPT ![onScreen] = FinishRun(@)] /\ onScreen' = onScreen
  BY DEF SavePages
<1>2. UNCHANGED history /\ savedId' = currentId
  BY DEF SavePages
<1> QED
  BY <1>1, <1>2, RunEnds, PagesChange

LEMMA UndoKeeps ==
  ASSUME PagedInv, Undo
  PROVE  /\ PagedInv' /\ document' = Last(undo).before /\ pages'[onScreen'].run = NoRun
<1> DEFINE t == Last(undo)
           mem == Activate(pages, onScreen, t.page)
           n == nextId
<1>1. /\ n \in Nat \ {0} /\ undo \in Seq(Changes) /\ redo \in Seq(Changes) /\ undo # <<>>
      /\ Legal(undo, n) /\ Legal(redo, n) /\ Linked(undo, redo, document)
  BY DEF PagedInv, Legal, Undo
<1>2. /\ onScreen' = t.page /\ pages' = [mem EXCEPT ![t.page] = Undone(mem[t.page])]
      /\ undo' = Front(undo) /\ redo' = Append(redo, t)
      /\ currentId' = (IF undo' = <<>> THEN baseId ELSE Last(undo').id)
      /\ baseId' = baseId /\ nextId' = nextId /\ retained' = retained
  BY DEF Undo
<1>3. savedId' = savedId
  BY DEF Undo, History!RefreshDirty
<1>4. /\ Legal(Front(undo), n) /\ t \in Changes /\ t.id \in 1..n - 1 /\ OnePage(t)
      /\ t.page \in Pages
  <2>1. n \in Nat
    BY <1>1
  <2> HIDE DEF n
  <2> QED
    BY <1>1, <2>1, LegalNewest DEF Changes
<1>5. t.after = document /\ Linked(Front(undo), Append(redo, t), t.before)
  BY <1>1, LinkUndone
<1>6. Moved(pages', t.page, Front(undo), Append(redo, t), n, t.before)
  <2>1. InMemory(mem, t.page, undo, redo, n) /\ Whole(mem) = document
    <3>1. mem = Activate(pages, onScreen, t.page)
      OBVIOUS
    <3> HIDE DEF mem, t
    <3> QED
      BY <1>4, <3>1, PageActivated
  <2>2. t = Last(undo)
    OBVIOUS
  <2> DEFINE at == t.page
  <2>3. t.page = at
    OBVIOUS
  <2>4. pages' = [mem EXCEPT ![at] = Undone(mem[at])]
    BY <1>2
  <2> HIDE DEF mem, t, n, at
  <2>5. Moved(pages', at, Front(undo), Append(redo, t), n, t.before)
    BY <1>1, <1>4, <1>5, <2>1, <2>2, <2>3, <2>4, UndoMoves
  <2> QED
    BY <2>3, <2>5
<1>7. Legal(Append(redo, t), n)
  <2>1. n \in Nat
    BY <1>1
  <2> HIDE DEF t, n
  <2> QED
    BY <1>1, <1>4, <2>1, LegalAppend
<1>8. Bytes(Front(undo)) + Bytes(Append(redo, t)) = Bytes(undo) + Bytes(redo)
  <2>1. Front(undo) \in Seq(Changes)
    BY <1>1, FrontAt
  <2>2. Bytes(undo) = Bytes(Front(undo)) + t.bytes
    BY <1>1, BytesFront
  <2> HIDE DEF t
  <2>3. Bytes(Append(redo, t)) = Bytes(redo) + t.bytes
    BY <1>1, <1>4, BytesAppend
  <2>4. Bytes(Front(undo)) \in Nat /\ Bytes(redo) \in Nat /\ t.bytes \in Nat
    BY <1>1, <1>4, <2>1, BytesIsNat DEF Changes
  <2> QED
    BY <2>2, <2>3, <2>4
<1>9. Len(Front(undo)) + Len(Append(redo, t)) = Len(undo) + Len(redo)
  <2>1. Len(undo) \in Nat \ {0} /\ Len(Front(undo)) = Len(undo) - 1
    BY <1>1, FrontAt
  <2> HIDE DEF t
  <2>2. Len(redo) \in Nat /\ Len(Append(redo, t)) = Len(redo) + 1
    BY <1>1, <1>4, AppendAt
  <2> QED
    BY <2>1, <2>2
<1>10. currentId' \in 0..nextId - 1
  <2>1. CASE undo' = <<>>
    BY <1>2, <2>1 DEF PagedInv
  <2>2. CASE undo' # <<>>
    <3>1. Legal(undo', n) /\ n \in Nat
      BY <1>1, <1>2, <1>4
    <3>2. Last(undo').id \in 1..n - 1
      <4> HIDE DEF n
      <4> QED
        BY <2>2, <3>1, LegalNewest
    <3> QED
      BY <1>1, <1>2, <2>2, <3>2
  <2> QED
    BY <2>1, <2>2
<1> HIDE DEF mem
<1>11. InMemory(pages', onScreen', undo', redo', nextId')
  BY <1>2, <1>6 DEF Moved
<1>12. document' = t.before /\ pages'[onScreen'].run = NoRun
  BY <1>2, <1>6 DEF Moved, document
<1>13. Legal(undo', nextId') /\ Legal(redo', nextId') /\ Linked(undo', redo', document')
  BY <1>2, <1>4, <1>5, <1>7, <1>12
<1>14. /\ retained' = Bytes(undo') + Bytes(redo')
       /\ retained' <= MaxBytes \/ Len(undo') + Len(redo') = 1
  BY <1>2, <1>8, <1>9 DEF PagedInv
<1>15. {baseId', currentId', savedId'} \subseteq 0..(nextId' - 1) /\ nextId' \in 1..MaxPosition
  BY <1>2, <1>3, <1>10 DEF PagedInv
<1> QED
  BY <1>11, <1>12, <1>13, <1>14, <1>15 DEF PagedInv

LEMMA RedoKeeps ==
  ASSUME PagedInv, Redo
  PROVE  /\ PagedInv' /\ document' = Last(redo).after /\ pages'[onScreen'].run = NoRun
<1> DEFINE t == Last(redo)
           mem == Activate(pages, onScreen, t.page)
           n == nextId
<1>1. /\ n \in Nat \ {0} /\ undo \in Seq(Changes) /\ redo \in Seq(Changes) /\ redo # <<>>
      /\ Legal(undo, n) /\ Legal(redo, n) /\ Linked(undo, redo, document)
  BY DEF PagedInv, Legal, Redo
<1>2. /\ onScreen' = t.page /\ pages' = [mem EXCEPT ![t.page] = Redone(mem[t.page])]
      /\ undo' = Append(undo, t) /\ redo' = Front(redo) /\ currentId' = t.id
      /\ baseId' = baseId /\ nextId' = nextId /\ retained' = retained
  BY DEF Redo
<1>3. savedId' = savedId
  BY DEF Redo, History!RefreshDirty
<1>4. /\ Legal(Front(redo), n) /\ t \in Changes /\ t.id \in 1..n - 1 /\ OnePage(t)
      /\ t.page \in Pages
  <2>1. n \in Nat
    BY <1>1
  <2> HIDE DEF n
  <2> QED
    BY <1>1, <2>1, LegalNewest DEF Changes
<1>5. t.before = document /\ Linked(Append(undo, t), Front(redo), t.after)
  BY <1>1, LinkRedone
<1>6. Moved(pages', t.page, Append(undo, t), Front(redo), n, t.after)
  <2>1. InMemory(mem, t.page, undo, redo, n) /\ Whole(mem) = document
    <3>1. mem = Activate(pages, onScreen, t.page)
      OBVIOUS
    <3> HIDE DEF mem, t
    <3> QED
      BY <1>4, <3>1, PageActivated
  <2>2. t = Last(redo)
    OBVIOUS
  <2> DEFINE at == t.page
  <2>3. t.page = at
    OBVIOUS
  <2>4. pages' = [mem EXCEPT ![at] = Redone(mem[at])]
    BY <1>2
  <2> HIDE DEF mem, t, n, at
  <2>5. Moved(pages', at, Append(undo, t), Front(redo), n, t.after)
    BY <1>1, <1>4, <1>5, <2>1, <2>2, <2>3, <2>4, RedoMoves
  <2> QED
    BY <2>3, <2>5
<1>7. Legal(Append(undo, t), n)
  <2>1. n \in Nat
    BY <1>1
  <2> HIDE DEF t, n
  <2> QED
    BY <1>1, <1>4, <2>1, LegalAppend
<1>8. Bytes(Append(undo, t)) + Bytes(Front(redo)) = Bytes(undo) + Bytes(redo)
  <2>1. Front(redo) \in Seq(Changes)
    BY <1>1, FrontAt
  <2>2. Bytes(redo) = Bytes(Front(redo)) + t.bytes
    BY <1>1, BytesFront
  <2> HIDE DEF t
  <2>3. Bytes(Append(undo, t)) = Bytes(undo) + t.bytes
    BY <1>1, <1>4, BytesAppend
  <2>4. Bytes(Front(redo)) \in Nat /\ Bytes(undo) \in Nat /\ t.bytes \in Nat
    BY <1>1, <1>4, <2>1, BytesIsNat DEF Changes
  <2> QED
    BY <2>2, <2>3, <2>4
<1>9. Len(Append(undo, t)) + Len(Front(redo)) = Len(undo) + Len(redo)
  <2>1. Len(redo) \in Nat \ {0} /\ Len(Front(redo)) = Len(redo) - 1
    BY <1>1, FrontAt
  <2> HIDE DEF t
  <2>2. Len(undo) \in Nat /\ Len(Append(undo, t)) = Len(undo) + 1
    BY <1>1, <1>4, AppendAt
  <2> QED
    BY <2>1, <2>2
<1>10. currentId' \in 0..nextId - 1
  BY <1>1, <1>2, <1>4
<1> HIDE DEF mem
<1>11. InMemory(pages', onScreen', undo', redo', nextId')
  BY <1>2, <1>6 DEF Moved
<1>12. document' = t.after /\ pages'[onScreen'].run = NoRun
  BY <1>2, <1>6 DEF Moved, document
<1>13. Legal(undo', nextId') /\ Legal(redo', nextId') /\ Linked(undo', redo', document')
  BY <1>2, <1>4, <1>5, <1>7, <1>12
<1>14. /\ retained' = Bytes(undo') + Bytes(redo')
       /\ retained' <= MaxBytes \/ Len(undo') + Len(redo') = 1
  BY <1>2, <1>8, <1>9 DEF PagedInv
<1>15. {baseId', currentId', savedId'} \subseteq 0..(nextId' - 1) /\ nextId' \in 1..MaxPosition
  BY <1>2, <1>3, <1>10 DEF PagedInv
<1> QED
  BY <1>11, <1>12, <1>13, <1>14, <1>15 DEF PagedInv

LEMMA StepKeeps == PagedInv /\ [PagesNext]_pagesVars => PagedInv'
<1> SUFFICES ASSUME PagedInv, [PagesNext]_pagesVars
             PROVE  PagedInv'
  OBVIOUS
<1>1. CASE EditPage
  BY <1>1, EditKeeps DEF EditKept
<1>2. CASE EditNeighbour
  BY <1>2, NeighbourKeeps DEF EditKept
<1>3. CASE EndRun
  BY <1>3, EndRunKeeps
<1>4. CASE ChangePage
  BY <1>4, ChangePageKeeps
<1>5. CASE Undo
  BY <1>5, UndoKeeps
<1>6. CASE Redo
  BY <1>6, RedoKeeps
<1>7. CASE SavePages
  BY <1>7, SaveKeeps
<1>8. CASE UNCHANGED pagesVars
  <2>1. /\ onScreen' = onScreen /\ pages' = pages /\ undo' = undo /\ redo' = redo
        /\ baseId' = baseId /\ nextId' = nextId /\ currentId' = currentId
        /\ retained' = retained /\ savedId' = savedId
    BY <1>8 DEF pagesVars, history, fileState
  <2>2. document' = document
    BY <2>1 DEF document
  <2> QED
    BY <2>1, <2>2 DEF PagedInv
<1> QED
  BY <1>1, <1>2, <1>3, <1>4, <1>5, <1>6, <1>7, <1>8 DEF PagesNext

-----------------------------------------------------------------------------
(* Theorems. *)

\* In every reachable state the pages in memory hold what the global history
\* says of them, and every other page is as the file has it.
THEOREM PagesCorrect == PagesSpec => []PagedInv
<1>1. PagesInit => PagedInv
  BY InitKeeps
<1>2. PagedInv /\ [PagesNext]_pagesVars => PagedInv'
  BY StepKeeps
<1> QED
  BY <1>1, <1>2, PTL DEF PagesSpec

\* What a page keeps of a list, as the property compares the two.
LEMMA MatchIsLocal ==
  ASSUME NEW p, NEW list, list \in Seq(Changes), NEW s, s \in Seq(PageChanges),
         Matches(s, Own(list, p), p)
  PROVE  Held(s) = Local(list, p)
<1> DEFINE own == Own(list, p)
<1>1. own \in Seq(Changes)
  BY OwnIsSeq
<1>2. Matches(s, own, p)
  OBVIOUS
<1>3. Local(list, p) = [i \in DOMAIN own |-> <<own[i].before[p], own[i].after[p], own[i].bytes>>]
  BY Zenon DEF Local
<1>4. Held(s) = [i \in DOMAIN s |-> <<s[i].before, s[i].after, s[i].bytes + Overhead>>]
  BY Zenon DEF Held
<1> HIDE DEF own
<1>5. DOMAIN s = 1..Len(own) /\ DOMAIN own = 1..Len(own)
  BY <1>1, <1>2 DEF Matches
<1>6. \A i \in 1..Len(own) : <<s[i].before, s[i].after, s[i].bytes + Overhead>>
                              = <<own[i].before[p], own[i].after[p], own[i].bytes>>
  BY <1>2 DEF Matches
<1> QED
  BY <1>3, <1>4, <1>5, <1>6

LEMMA PagedTypes == PagedInv => PagesTypeOK
<1> SUFFICES ASSUME PagedInv
             PROVE  PagesTypeOK
  OBVIOUS
<1>1. /\ InMemory(pages, onScreen, undo, redo, nextId)
      /\ nextId \in 1..MaxPosition /\ MaxPosition \in Nat
      /\ {baseId, currentId, savedId} \subseteq 0..(nextId - 1)
  BY PagedHistoryAssumption DEF PagedInv
<1>2. onScreen \in DOMAIN pages /\ DOMAIN pages \subseteq Pages
  BY <1>1 DEF InMemory
<1>3. ASSUME NEW p \in DOMAIN pages
      PROVE  /\ pages[p].text \in PageTexts /\ pages[p].run \in Runs \cup {NoRun}
             /\ \A i \in DOMAIN pages[p].undo : pages[p].undo[i] \in PageChange
             /\ \A i \in DOMAIN pages[p].redo : pages[p].redo[i] \in PageChange
             /\ p # onScreen => pages[p].run = NoRun
  <2> DEFINE q == pages[p]
  <2>1. Sound(q, nextId) /\ (p # onScreen => q.run = NoRun)
    BY <1>1 DEF InMemory
  <2> HIDE DEF q
  <2>2. /\ q.text \in PageTexts /\ q.run \in Runs \cup {NoRun}
        /\ q.undo \in Seq(PageChanges) /\ q.redo \in Seq(PageChanges)
        /\ q.next \in 1..nextId
    BY <2>1 DEF Sound, PageStates
  <2>3. \A m \in 1..q.next - 1 : m \in 1..MaxPosition
    BY <1>1, <2>2
  <2>4. \A x \in PageChanges : x.id \in 1..MaxPosition => x \in PageChange
    BY DEF PageChanges, PageChange
  <2>5. \A i \in DOMAIN q.undo : q.undo[i] \in PageChange
    <3> SUFFICES ASSUME NEW i \in DOMAIN q.undo
                 PROVE  q.undo[i] \in PageChange
      OBVIOUS
    <3>1. i \in 1..Len(q.undo) /\ q.undo[i] \in PageChanges
      BY <2>2
    <3> QED
      BY <2>1, <2>3, <2>4, <3>1 DEF Sound
  <2>6. \A i \in DOMAIN q.redo : q.redo[i] \in PageChange
    <3> SUFFICES ASSUME NEW i \in DOMAIN q.redo
                 PROVE  q.redo[i] \in PageChange
      OBVIOUS
    <3>1. i \in 1..Len(q.redo) /\ q.redo[i] \in PageChanges
      BY <2>2
    <3> QED
      BY <2>1, <2>3, <2>4, <3>1 DEF Sound
  <2> QED
    BY <2>1, <2>2, <2>5, <2>6 DEF q
<1> QED
  BY <1>1, <1>2, <1>3 DEF PagesTypeOK

LEMMA PagedLocal == PagedInv => LocalFollowsGlobal
<1> SUFFICES ASSUME PagedInv, NEW p \in DOMAIN pages
             PROVE  /\ Held(pages[p].undo) = Local(undo, p)
                    /\ Held(pages[p].redo) = Local(redo, p)
  BY DEF LocalFollowsGlobal
<1> DEFINE s == pages[p].undo
           r == pages[p].redo
<1>1. undo \in Seq(Changes) /\ redo \in Seq(Changes)
  BY DEF PagedInv, Legal
<1>2. /\ s \in Seq(PageChanges) /\ r \in Seq(PageChanges)
      /\ Matches(s, Own(undo, p), p) /\ Matches(r, Own(redo, p), p)
  BY DEF PagedInv, InMemory, Sound, PageStates
<1> HIDE DEF s, r
<1>3. Held(s) = Local(undo, p) /\ Held(r) = Local(redo, p)
  BY <1>1, <1>2, MatchIsLocal
<1> QED
  BY <1>3 DEF s, r

LEMMA PagedExpectations == PagedInv => ExpectationsHold
<1> SUFFICES ASSUME PagedInv
             PROVE  ExpectationsHold
  OBVIOUS
<1>1. ASSUME NEW s \in {undo, redo}, NEW i \in DOMAIN s
      PROVE  s[i].page \in DOMAIN pages
  <2>1. s \in Seq(Changes)
    BY DEF PagedInv, Legal
  <2> DEFINE p == s[i].page
  <2>2. i \in 1..Len(s) /\ p \in Pages
    <3>1. i \in 1..Len(s)
      BY <2>1
    <3>2. s[i] \in Changes
      BY <2>1, <3>1
    <3> QED
      BY <3>1, <3>2 DEF Changes
  <2>3. Own(s, p) # <<>>
    BY <2>1, <2>2, OwnNone
  <2> QED
    BY <2>2, <2>3 DEF PagedInv, InMemory
<1> QED
  BY <1>1 DEF ExpectationsHold, PagedInv

\* HistoriesInStep: the two levels of history never fall out of step.
THEOREM PageHistoriesFollow == PagesSpec => []HistoriesInStep
<1>1. PagedInv => HistoriesInStep
  BY PagedTypes, PagedLocal, PagedExpectations DEF PagedInv, EstimateExact, HistoriesInStep
<1> QED
  BY <1>1, PagesCorrect, PTL

LEMMA PagedStream == PagedInv => StreamIsDocument
<1> SUFFICES ASSUME PagedInv
             PROVE  streamed = document
  BY DEF StreamIsDocument
<1>1. nextId \in Nat
  BY PagedHistoryAssumption DEF PagedInv
<1>2. ASSUME NEW p \in DOMAIN pages, pages[p].current = 0
      PROVE  pages[p].text = Original
  <2> DEFINE q == pages[p]
  <2>1. Sound(q, nextId) /\ q.current = 0
    BY <1>2 DEF PagedInv, InMemory
  <2> HIDE DEF q
  <2>2. q.text = Original
    BY <1>1, <2>1, FirstIsOriginal
  <2> QED
    BY <2>2 DEF q
<1>3. \A p \in Pages : (IF p \in DOMAIN pages /\ pages[p].current # 0
                        THEN pages[p].text ELSE Original) = Text(pages, p)
  BY <1>2 DEF Text
<1> QED
  BY <1>3 DEF streamed, document, Whole

\* StreamIsDocument: a save writes the document as edited, although it copies
\* from the file every page that stands at its first position.
THEOREM SavesWhatWasEdited == PagesSpec => []StreamIsDocument
<1> QED
  BY PagedStream, PagesCorrect, PTL

-----------------------------------------------------------------------------
(* The abstract history. *)

\* A transaction, and a list of them, as UndoHistory knows them.
Bare(t)  == [id |-> t.id, before |-> t.before, after |-> t.after]
Strip(s) == [i \in DOMAIN s |-> [id |-> s[i].id, before |-> s[i].before, after |-> s[i].after]]
Bares == [id : Nat, before : [Pages -> PageTexts], after : [Pages -> PageTexts]]

LEMMA Stripped ==
  ASSUME NEW s, s \in Seq(Changes)
  PROVE  /\ Strip(s) \in Seq(Bares) /\ Len(Strip(s)) = Len(s) /\ Len(s) \in Nat
         /\ \A i \in 1..Len(s) : Strip(s)[i] = Bare(s[i])
<1> DEFINE n == Len(s)
<1>1. n \in Nat /\ DOMAIN s = 1..n
  OBVIOUS
<1>2. ASSUME NEW i \in 1..n
      PROVE  /\ [id |-> s[i].id, before |-> s[i].before, after |-> s[i].after] \in Bares
             /\ [id |-> s[i].id, before |-> s[i].before, after |-> s[i].after] = Bare(s[i])
  <2>1. s[i] \in Changes
    BY <1>1, ElementOfSeq
  <2> QED
    BY <2>1 DEF Changes, Bares, Bare
<1>3. Strip(s) = [i \in 1..n |-> [id |-> s[i].id, before |-> s[i].before, after |-> s[i].after]]
  BY <1>1, Zenon DEF Strip
<1> HIDE DEF n
<1>4. Strip(s) \in Seq(Bares)
  BY <1>1, <1>2, <1>3
<1>5. Len(Strip(s)) = n /\ \A i \in 1..n : Strip(s)[i] = Bare(s[i])
  BY <1>1, <1>2, <1>3, <1>4
<1> QED
  BY <1>1, <1>4, <1>5 DEF n

LEMMA StripEmpty ==
  ASSUME NEW s, s \in Seq(Changes)
  PROVE  Strip(s) = <<>> <=> s = <<>>
<1>1. Strip(s) \in Seq(Bares) /\ Len(Strip(s)) = Len(s)
  BY Stripped
<1> QED
  BY <1>1, EmptySeq

LEMMA StripAppend ==
  ASSUME NEW s, s \in Seq(Changes), NEW t \in Changes
  PROVE  Strip(Append(s, t)) = Append(Strip(s), Bare(t)) /\ Bare(t) \in Bares
<1> DEFINE a == Append(s, t)
           x == Strip(a)
           y == Append(Strip(s), Bare(t))
<1>1. /\ a \in Seq(Changes) /\ Len(s) \in Nat /\ Len(a) = Len(s) + 1
      /\ \A i \in 1..Len(s) : a[i] = s[i]
      /\ a[Len(s) + 1] = t
  BY AppendAt
<1>2. Bare(t) \in Bares
  BY DEF Bare, Bares, Changes
<1>3. /\ Strip(s) \in Seq(Bares) /\ Len(Strip(s)) = Len(s)
      /\ \A i \in 1..Len(s) : Strip(s)[i] = Bare(s[i])
  BY Stripped
<1> HIDE DEF a
<1>4. x \in Seq(Bares) /\ Len(x) = Len(a) /\ \A i \in 1..Len(a) : x[i] = Bare(a[i])
  BY <1>1, Stripped
<1>5. /\ y \in Seq(Bares) /\ Len(y) = Len(s) + 1
      /\ \A i \in 1..Len(s) : y[i] = Strip(s)[i]
      /\ y[Len(s) + 1] = Bare(t)
  BY <1>2, <1>3, AppendAt
<1> HIDE DEF x, y
<1>6. ASSUME NEW i \in 1..Len(a)
      PROVE  x[i] = y[i]
  <2>1. x[i] = Bare(a[i])
    BY <1>4
  <2>2. CASE i \in 1..Len(s)
    <3>1. a[i] = s[i] /\ y[i] = Strip(s)[i] /\ Strip(s)[i] = Bare(s[i])
      BY <1>1, <1>3, <1>5, <2>2
    <3> QED
      BY <2>1, <3>1
  <2>3. CASE i = Len(s) + 1
    <3>1. a[i] = t /\ y[i] = Bare(t)
      BY <1>1, <1>5, <2>3
    <3> QED
      BY <2>1, <3>1
  <2> QED
    BY <1>1, <2>2, <2>3
<1>7. x = y
  <2>1. Len(x) = Len(y) /\ \A i \in 1..Len(x) : x[i] = y[i]
    BY <1>1, <1>4, <1>5, <1>6
  <2> QED
    BY <1>4, <1>5, <2>1, SeqEqual
<1> QED
  BY <1>2, <1>7 DEF x, y, a

LEMMA StripSuffix ==
  ASSUME NEW s, s \in Seq(Changes), NEW k \in 0..Len(s)
  PROVE  Strip(SubSeq(s, k + 1, Len(s))) = SubSeq(Strip(s), k + 1, Len(Strip(s)))
<1> DEFINE a == SubSeq(s, k + 1, Len(s))
           b == Strip(s)
           x == Strip(a)
           y == SubSeq(b, k + 1, Len(b))
           m == Len(s) - k
<1>1. /\ a \in Seq(Changes) /\ Len(a) = m
      /\ \A i \in 1..m : a[i] = s[k + i]
  BY SuffixAt
<1>2. /\ b \in Seq(Bares) /\ Len(b) = Len(s) /\ Len(s) \in Nat
      /\ \A i \in 1..Len(s) : b[i] = Bare(s[i])
  BY Stripped
<1>3. m \in Nat /\ k \in 0..Len(b) /\ \A i \in 1..m : k + i \in 1..Len(s)
  BY <1>2
<1> HIDE DEF a, b
<1>4. x \in Seq(Bares) /\ Len(x) = m /\ \A i \in 1..m : x[i] = Bare(a[i])
  BY <1>1, Stripped
<1>5. /\ y \in Seq(Bares) /\ Len(y) = m
      /\ \A i \in 1..m : y[i] = b[k + i]
  <2>1. Len(b) - k = m
    BY <1>2
  <2> HIDE DEF m
  <2> QED
    BY <1>2, <1>3, <2>1, SuffixAt
<1> HIDE DEF x, y, m
<1>6. \A i \in 1..m : x[i] = y[i]
  BY <1>1, <1>2, <1>3, <1>4, <1>5
<1>7. x = y
  BY <1>4, <1>5, <1>6, SeqEqual
<1> QED
  BY <1>7 DEF x, y, a, b

\* Taking the newest transaction off is the same before and after.
StrippedNewest(s) ==
  /\ Strip(s) # <<>>
  /\ Strip(s)[Len(Strip(s))] = Bare(Last(s))
  /\ Strip(Front(s)) = SubSeq(Strip(s), 1, Len(Strip(s)) - 1)

LEMMA StripNewest ==
  ASSUME NEW s, s \in Seq(Changes), s # <<>>
  PROVE  StrippedNewest(s)
<1> DEFINE f == Front(s)
           b == Strip(s)
           x == Strip(f)
           m == Len(s) - 1
           y == SubSeq(b, 1, m)
<1>1. /\ Len(s) \in Nat \ {0} /\ Last(s) = s[Len(s)]
      /\ f \in Seq(Changes) /\ Len(f) = m
      /\ \A i \in 1..m : f[i] = s[i]
  BY FrontAt
<1>2. /\ b \in Seq(Bares) /\ Len(b) = Len(s)
      /\ \A i \in 1..Len(s) : b[i] = Bare(s[i])
  BY Stripped
<1>3. m \in 0..Len(b) /\ Len(s) \in 1..Len(s) /\ \A i \in 1..m : i \in 1..Len(s)
  BY <1>1, <1>2
<1>4. b # <<>>
  BY <1>1, <1>2
<1> HIDE DEF f, b
<1>5. x \in Seq(Bares) /\ Len(x) = m /\ \A i \in 1..m : x[i] = Bare(f[i])
  BY <1>1, Stripped
<1>6. /\ y \in Seq(Bares) /\ Len(y) = m
      /\ \A i \in 1..m : y[i] = b[i]
  <2> HIDE DEF m
  <2> QED
    BY <1>2, <1>3, PrefixAt
<1>7. \A i \in 1..m : x[i] = y[i]
  BY <1>1, <1>2, <1>3, <1>5, <1>6
<1>8. Len(b) - 1 = m /\ b[Len(b)] = Bare(Last(s))
  BY <1>1, <1>2, <1>3
<1> HIDE DEF x, y, m
<1>9. x = y
  BY <1>5, <1>6, <1>7, SeqEqual
<1> QED
  BY <1>4, <1>8, <1>9 DEF StrippedNewest, x, y, b, f

\* A prune, as the abstract history sees it.
Drops(b) ==
  \E k \in 0..Len(b) - 1 :
     /\ Len(b) - k <= MaxTransactions
     /\ Strip(undo') = SubSeq(b, k + 1, Len(b))
     /\ baseId' = IF k = 0 THEN baseId ELSE b[k].id

LEMMA PruneMapped ==
  ASSUME NEW u, u \in Seq(Changes), Prunes(u)
  PROVE  Drops(Strip(u))
<1> DEFINE b == Strip(u)
<1>1. PICK k \in 0..Len(u) - 1 :
         /\ Len(u) - k <= MaxTransactions
         /\ undo' = SubSeq(u, k + 1, Len(u))
         /\ baseId' = IF k = 0 THEN baseId ELSE u[k].id
  BY DEF Prunes
<1>2. /\ Len(b) = Len(u) /\ Len(u) \in Nat
      /\ \A i \in 1..Len(u) : b[i] = Bare(u[i])
  BY Stripped
<1>3. k \in 0..Len(u) /\ (k # 0 => k \in 1..Len(u))
  BY <1>2
<1>4. Strip(undo') = SubSeq(b, k + 1, Len(b))
  BY <1>1, <1>3, StripSuffix
<1>5. baseId' = IF k = 0 THEN baseId ELSE b[k].id
  <2>1. CASE k = 0
    BY <1>1, <2>1
  <2>2. CASE k # 0
    <3>1. b[k] = Bare(u[k])
      BY <1>2, <1>3, <2>2
    <3>2. b[k].id = u[k].id
      BY <3>1 DEF Bare
    <3> HIDE DEF b
    <3> QED
      BY <1>1, <2>2, <3>2
  <2> QED
    BY <2>1, <2>2
<1> HIDE DEF b
<1>6. Drops(b)
  BY <1>1, <1>2, <1>4, <1>5 DEF Drops
<1> QED
  BY <1>6 DEF b

\* An edit of any page is an edit of the document.
LEMMA EditMapped ==
  ASSUME PagedInv, NEW run, EditKept(run), run # NoRun => run = pages[onScreen].run
  PROVE  History!Next
<1> DEFINE r == pages'[onScreen'].run
           b == Strip(undo)
<1>1. /\ undo \in Seq(Changes) /\ nextId < MaxPosition /\ redo' = <<>>
      /\ currentId' = nextId /\ nextId' = nextId + 1 /\ History!RefreshDirty
  BY DEF PagedInv, Legal, EditKept
<1>2. document' \in [Pages -> PageTexts]
  BY WholeIsDocument DEF EditKept, PagedInv, document
<1>3. r = NoRun \/ r \in Runs
  BY DEF EditKept, PagedInv, InMemory, Sound, PageStates
<1>4. Strip(redo') = <<>>
  <2>1. <<>> \in Seq(Changes)
    OBVIOUS
  <2> QED
    BY <1>1, <2>1, StripEmpty
<1>5. CASE Pushes
  <2>1. PICK t \in Changes : /\ t.id = nextId /\ t.before = document /\ t.after = document'
                             /\ Prunes(Append(undo, t))
    BY <1>5 DEF Pushes
  <2> DEFINE x == [id |-> nextId, before |-> document, after |-> document']
  <2>2. x = Bare(t)
    BY <2>1 DEF Bare
  <2>3. Drops(Append(b, x))
    <3> DEFINE u == Append(undo, t)
    <3>1. u \in Seq(Changes) /\ Prunes(u)
      BY <1>1, <2>1, AppendAt
    <3>2. Strip(u) = Append(b, x)
      BY <1>1, <2>2, StripAppend
    <3> HIDE DEF u, b, x
    <3> QED
      BY <3>1, <3>2, PruneMapped
  <2> HIDE DEF r
  <2>4. CASE r = NoRun
    <3>1. r = History!NoRun
      BY <2>4 DEF NoRun, History!NoRun
    <3>2. History!Record
      BY <1>1, <1>2, <1>4, <2>3, <3>1, Zenon
         DEF History!Record, History!Push, History!Prune, History!DropCounts, Drops, Strip, r
    <3> QED
      BY <3>2, Zenon DEF History!Next
  <2>5. CASE r \in Runs
    <3>1. PICK q \in History!Runs : q = r
      BY <2>5 DEF Runs, History!Runs
    <3>2. History!RecordRun(q)
      BY <1>1, <1>2, <1>4, <2>3, <3>1, Zenon
         DEF History!RecordRun, History!Push, History!Prune, History!DropCounts, Drops, Strip, r
    <3> QED
      BY <3>2, Zenon DEF History!Next
  <2> QED
    BY <1>3, <2>4, <2>5 DEF r
<1>6. CASE ExtendsNewest /\ redo = <<>> /\ run # NoRun /\ pages'[onScreen'].run = run
  <2> DEFINE f == Front(undo)
             x == [id |-> nextId, before |-> b[Len(b)].before, after |-> document']
  <2>1. PICK t \in Changes : /\ t.id = nextId /\ t.before = Last(undo).before
                             /\ t.after = document' /\ undo # <<>>
                             /\ Prunes(Append(f, t))
    BY <1>6 DEF ExtendsNewest
  <2>2. /\ b # <<>> /\ b[Len(b)] = Bare(Last(undo))
        /\ Strip(f) = SubSeq(b, 1, Len(b) - 1)
    BY <1>1, <2>1, StripNewest DEF StrippedNewest
  <2>3. x = Bare(t)
    <3>1. b[Len(b)].before = t.before
      BY <2>1, <2>2 DEF Bare
    <3> HIDE DEF b
    <3> QED
      BY <2>1, <3>1 DEF Bare
  <2>4. f \in Seq(Changes)
    BY <1>1, <2>1, FrontAt
  <2>5. Drops(Append(SubSeq(b, 1, Len(b) - 1), x))
    <3> DEFINE u == Append(f, t)
               a == SubSeq(b, 1, Len(b) - 1)
    <3>1. u \in Seq(Changes) /\ Prunes(u)
      BY <2>1, <2>4, AppendAt
    <3>2. Strip(u) = Append(a, x)
      BY <2>2, <2>3, <2>4, StripAppend
    <3> HIDE DEF u, a, x
    <3>3. Drops(Append(a, x))
      BY <3>1, <3>2, PruneMapped
    <3> QED
      BY <3>3 DEF a
  <2>6. Strip(redo') = Strip(redo) /\ r = run /\ pages[onScreen].run = run
    BY <1>1, <1>6
  <2>7. run \in History!Runs
    BY <1>3, <1>6 DEF Runs, History!Runs
  <2> HIDE DEF r, b, f
  <2>8. History!ExtendRun(run)
    BY <1>1, <1>2, <2>2, <2>5, <2>6, Zenon
       DEF History!ExtendRun, History!Prune, History!DropCounts, History!Newest,
           History!AllButNewest, Drops, Strip, r, b
  <2> QED
    BY <2>7, <2>8, Zenon DEF History!Next
<1> QED
  BY <1>5, <1>6 DEF EditKept

LEMMA InitMapped == PagesInit => History!Init
<1> SUFFICES ASSUME PagesInit
             PROVE  History!Init
  OBVIOUS
<1>1. PagedInv
  BY InitKeeps
<1>2. document \in [Pages -> PageTexts]
  BY <1>1, WholeIsDocument DEF PagedInv, document
<1>3. /\ undo = <<>> /\ redo = <<>> /\ baseId = 0 /\ nextId = 1 /\ currentId = 0
      /\ savedId = 0 /\ unavailable = FALSE /\ modified = FALSE /\ savedDoc = document
  BY Zenon DEF PagesInit
<1>4. pages[onScreen].run = History!NoRun
  BY DEF PagesInit, Load, NoRun, History!NoRun
<1>5. Strip(undo) = <<>> /\ Strip(redo) = <<>>
  <2>1. <<>> \in Seq(Changes)
    OBVIOUS
  <2> QED
    BY <1>3, <2>1, StripEmpty
<1>6. unavailable \in BOOLEAN /\ modified = unavailable
  BY <1>3, Zenon
<1> QED
  BY <1>2, <1>3, <1>4, <1>5, <1>6, Zenon DEF History!Init, Strip

\* What the abstract history has besides the document and the run.
LEMMA HistoryUnchanged ==
  ASSUME UNCHANGED history
  PROVE  /\ Strip(undo') = Strip(undo) /\ Strip(redo') = Strip(redo)
         /\ baseId' = baseId /\ nextId' = nextId /\ currentId' = currentId
  BY DEF history

LEMMA RunOverMapped ==
  ASSUME document' = document, pages'[onScreen'].run = NoRun,
         UNCHANGED <<history, fileState>>
  PROVE  History!FinishRun \/ UNCHANGED History!vars
<1>1. /\ Strip(undo') = Strip(undo) /\ Strip(redo') = Strip(redo)
      /\ baseId' = baseId /\ nextId' = nextId /\ currentId' = currentId
  BY HistoryUnchanged
<1>2. savedId' = savedId /\ unavailable' = unavailable /\ modified' = modified
      /\ savedDoc' = savedDoc
  BY Zenon DEF fileState
<1>3. CASE pages[onScreen].run = NoRun
  <2>1. pages'[onScreen'].run = pages[onScreen].run
    BY <1>3
  <2> QED
    BY <1>1, <1>2, <2>1, Zenon DEF History!vars, History!history, History!file, Strip
<1>4. CASE pages[onScreen].run # NoRun
  <2>1. pages[onScreen].run # History!NoRun /\ pages'[onScreen'].run = History!NoRun
    BY <1>4 DEF NoRun, History!NoRun
  <2> QED
    BY <1>1, <1>2, <2>1, Zenon DEF History!FinishRun, History!file, Strip
<1> QED
  BY <1>3, <1>4

LEMMA UndoMapped ==
  ASSUME PagedInv, Undo
  PROVE  History!Undo
<1> DEFINE b == Strip(undo)
           t == Last(undo)
           u == Strip(undo')
<1>1. undo \in Seq(Changes) /\ redo \in Seq(Changes) /\ undo # <<>>
  BY DEF PagedInv, Legal, Undo
<1>2. /\ undo' = Front(undo) /\ redo' = Append(redo, t)
      /\ currentId' = (IF undo' = <<>> THEN baseId ELSE Last(undo').id)
      /\ baseId' = baseId /\ nextId' = nextId
  BY DEF Undo
<1>3. document' = t.before /\ pages'[onScreen'].run = NoRun
  BY UndoKeeps
<1>4. /\ b # <<>> /\ b[Len(b)] = Bare(t) /\ u = SubSeq(b, 1, Len(b) - 1)
  BY <1>1, <1>2, StripNewest DEF StrippedNewest
<1>5. t \in Changes /\ undo' \in Seq(Changes)
  BY <1>1, <1>2, FrontAt
<1>6. Strip(redo') = Append(Strip(redo), b[Len(b)])
  BY <1>1, <1>2, <1>4, <1>5, StripAppend
<1>7. document' = b[Len(b)].before
  BY <1>3, <1>4 DEF Bare
<1>8. currentId' = IF u = <<>> THEN baseId ELSE u[Len(u)].id
  <2>1. CASE undo' = <<>>
    BY <1>2, <1>5, <2>1, StripEmpty
  <2>2. CASE undo' # <<>>
    <3>1. u # <<>> /\ u[Len(u)] = Bare(Last(undo'))
      BY <1>5, <2>2, StripNewest DEF StrippedNewest
    <3>2. u[Len(u)].id = Last(undo').id
      BY <3>1 DEF Bare
    <3> HIDE DEF u
    <3> QED
      BY <1>2, <2>2, <3>1, <3>2
  <2> QED
    BY <2>1, <2>2
<1>9. pages'[onScreen'].run = History!NoRun
  BY <1>3 DEF NoRun, History!NoRun
<1>10. History!RefreshDirty
  BY Zenon DEF Undo
<1> HIDE DEF b, u
<1> QED
  BY <1>2, <1>4, <1>6, <1>7, <1>8, <1>9, <1>10, Zenon
     DEF History!Undo, History!Newest, History!AllButNewest, Strip, b, u

LEMMA RedoMapped ==
  ASSUME PagedInv, Redo
  PROVE  History!Redo
<1> DEFINE b == Strip(redo)
           t == Last(redo)
<1>1. undo \in Seq(Changes) /\ redo \in Seq(Changes) /\ redo # <<>>
  BY DEF PagedInv, Legal, Redo
<1>2. /\ undo' = Append(undo, t) /\ redo' = Front(redo) /\ currentId' = t.id
      /\ baseId' = baseId /\ nextId' = nextId
  BY DEF Redo
<1>3. document' = t.after /\ pages'[onScreen'].run = NoRun
  BY RedoKeeps
<1>4. /\ b # <<>> /\ b[Len(b)] = Bare(t) /\ Strip(redo') = SubSeq(b, 1, Len(b) - 1)
  BY <1>1, <1>2, StripNewest DEF StrippedNewest
<1>5. t \in Changes
  BY <1>1, FrontAt
<1>6. Strip(undo') = Append(Strip(undo), b[Len(b)])
  BY <1>1, <1>2, <1>4, <1>5, StripAppend
<1>7. document' = b[Len(b)].after /\ currentId' = b[Len(b)].id
  BY <1>2, <1>3, <1>4 DEF Bare
<1>8. pages'[onScreen'].run = History!NoRun
  BY <1>3 DEF NoRun, History!NoRun
<1>9. History!RefreshDirty
  BY Zenon DEF Redo
<1> HIDE DEF b
<1> QED
  BY <1>2, <1>4, <1>6, <1>7, <1>8, <1>9, Zenon
     DEF History!Redo, History!Newest, History!AllButNewest, Strip, b

\* What a save writes is what the document was.
LEMMA SaveMapped ==
  ASSUME PagedInv, SavePages
  PROVE  History!Save
<1>1. /\ savedId' = currentId /\ unavailable' = FALSE /\ modified' = FALSE
      /\ savedDoc' = streamed
  BY Zenon DEF SavePages
<1>2. document' = document /\ pages'[onScreen'].run = NoRun
  BY SaveKeeps
<1>3. savedDoc' = document
  BY <1>1, PagedStream DEF StreamIsDocument
<1>4. /\ Strip(undo') = Strip(undo) /\ Strip(redo') = Strip(redo)
      /\ baseId' = baseId /\ nextId' = nextId /\ currentId' = currentId
  <2>1. UNCHANGED history
    BY DEF SavePages
  <2> QED
    BY <2>1, HistoryUnchanged
<1>5. pages'[onScreen'].run = History!NoRun
  BY <1>2 DEF NoRun, History!NoRun
<1> QED
  BY <1>1, <1>2, <1>3, <1>4, <1>5, Zenon DEF History!Save, Strip

LEMMA StepMapped ==
  ASSUME PagedInv, [PagesNext]_pagesVars
  PROVE  [History!Next]_(History!vars)
<1>1. CASE EditPage
  BY <1>1, EditKeeps, EditMapped
<1>2. CASE EditNeighbour
  BY <1>2, NeighbourKeeps, EditMapped
<1>3. CASE EndRun
  <2>1. document' = document /\ UNCHANGED <<history, fileState>>
    BY <1>3, EndRunKeeps DEF EndRun
  <2>2. pages'[onScreen'].run = NoRun
    BY <1>3, RunEnds DEF EndRun
  <2>3. History!FinishRun \/ UNCHANGED History!vars
    BY <2>1, <2>2, RunOverMapped
  <2> QED
    BY <2>3, Zenon DEF History!Next
<1>4. CASE ChangePage
  <2>1. History!FinishRun \/ UNCHANGED History!vars
    BY <1>4, ChangePageKeeps, RunOverMapped
  <2> QED
    BY <2>1, Zenon DEF History!Next
<1>5. CASE Undo
  BY <1>5, UndoMapped, Zenon DEF History!Next
<1>6. CASE Redo
  BY <1>6, RedoMapped, Zenon DEF History!Next
<1>7. CASE SavePages
  BY <1>7, SaveMapped, Zenon DEF History!Next
<1>8. CASE UNCHANGED pagesVars
  <2>1. /\ onScreen' = onScreen /\ pages' = pages /\ UNCHANGED history /\ savedId' = savedId
        /\ unavailable' = unavailable /\ modified' = modified /\ savedDoc' = savedDoc
    BY <1>8, Zenon DEF pagesVars, fileState
  <2>2. document' = document
    BY <2>1 DEF document
  <2>3. /\ Strip(undo') = Strip(undo) /\ Strip(redo') = Strip(redo)
        /\ baseId' = baseId /\ nextId' = nextId /\ currentId' = currentId
    BY <2>1, HistoryUnchanged
  <2>4. UNCHANGED History!vars
    BY <2>1, <2>2, <2>3, Zenon DEF History!vars, History!history, History!file, Strip
  <2> QED
    BY <2>4
<1> QED
  BY <1>1, <1>2, <1>3, <1>4, <1>5, <1>6, <1>7, <1>8 DEF PagesNext

\* ImplementsHistory: the pages together behave as one document with one
\* history.  Leaving a page, dropping it and reading it again is a stutter or
\* the end of a run, and an edit of any page is an edit of the document.
THEOREM PagesAreOneDocument == PagesSpec => ImplementsHistory
<1>1. PagesInit => History!Init
  BY InitMapped
<1>2. PagedInv /\ [PagesNext]_pagesVars => [History!Next]_(History!vars)
  BY StepMapped
<1> QED
  BY <1>1, <1>2, PagesCorrect, PTL DEF PagesSpec, ImplementsHistory, History!Spec
=============================================================================
