----------------------------- MODULE MCDocuments -----------------------------
(***************************************************************************)
(* What one document goes through: its history in memory (UndoHistory),    *)
(* its recovery sidecar (Catnap), a reviewed replacement in it             *)
(* (ReplaceReview), the indexes of its lines (LineIndex) and of its cells  *)
(* (CellIndex), and what of it is on the screen (View).  They share no     *)
(* state; `part` says which one takes the steps.                           *)
(***************************************************************************)
EXTENDS UndoHistory, Catnap, ReplaceReview, LineIndex, CellIndex, View

VARIABLE part

-----------------------------------------------------------------------------
(* Texts.  "L", "C" are the two bytes of one character for Literal. *)

MCReviewTexts == { <<"a", "a", "a", "a", "a">>, <<"a", "b", "a", "b", "a">>,
                   <<"L", "C", "L", "C", "a", "L", "C">> }
MCFinds == { <<"a">>, <<"a", "a">>, <<"a", "b", "a">>, <<"L", "C">> }
MCWiths == { <<>>, <<"a">>, <<"a", "a", "a">>, <<"b", "a">> }

\* Every file of at most four characters and five bytes, and three longer ones.
Characters == {<<"a">>, <<"n">>, <<"r">>, <<"L", "C">>}
ShortFiles ==
  LET UpTo[k \in 0..4] ==
        IF k = 0 THEN {<<>>}
        ELSE UpTo[k - 1] \cup {c \o rest : c \in Characters, rest \in UpTo[k - 1]}
  IN  {f \in UpTo[4] : Len(f) <= 5}
MCScannedPages ==
  (ShortFiles \X {2}) \cup
  { <<f, 3>> : f \in { <<"L", "C", "a", "r", "n", "a", "L", "C", "a", "n", "a">>,
                       <<"a", "n", "a", "L", "C", "n", "L", "C", "L", "C", "a", "r", "n", "n">>,
                       <<"L", "C", "a", "n", "r", "n">> } }
MCReads      == {1, 3, 20}
MCInserted   == { <<"a">>, <<"n", "a", "n">> }
MCAdded      == { <<"a">>, <<"L", "C">>, <<"a", "a", "n", "a">>, <<"a", "L", "C">> }
MCPriorities == <<2, 1>>

MCOriginals  == { <<"a", "L", "C">> }
MCTypedInto  == { <<"a">> }
MCPastedInto == { <<"L", "C">> }

MCCellFiles   == { <<"x", "t", "W", "x", "n", "R", "R">>, <<"R", "R", "R", "R", "R">>,
                   <<"x", "r", "n", "r", "c">>, <<"t", "c", "s", "W", "x">> }
MCCellInserts == { <<"c">>, <<"R">>, <<"n">>, <<"t", "x", "x", "x">> }

MCTexts    == { << <<"x", "W">>, <<"x">> >>, << <<>> >> }
MCHelpText == << <<"x", "x">> >>
NoScreen   == [width |-> 3, height |-> 0, numbers |-> FALSE]
MCSizes    == { NoScreen, [width |-> 3, height |-> 3, numbers |-> FALSE],
                [width |-> 5, height |-> 2, numbers |-> TRUE] }

\* Lines enough to scroll.
MCPlainLines == { << <<"x", "x", "x", "x">>, <<"x">>, <<"x">>, <<"x">> >> }
MCFiveWide   == { [width |-> 5, height |-> 3, numbers |-> FALSE] }

\* For the repair that does not end.
MCPlainFiles     == { <<"x", "x", "x", "x">> }
MCPrependInserts == { <<"p">> }

-----------------------------------------------------------------------------
(* The parts. *)

QuietHistory == doc = (CHOOSE c \in Content : TRUE) /\ ~unavailable
QuietNap     == source = NoSource
QuietReview  == content = CHOOSE t \in ReviewTexts : TRUE
QuietLines   == subject = "add"
QuietCells   == unread = CHOOSE f \in CellFiles : TRUE
QuietScreen  == sourceText = << <<>> >> /\ size = NoScreen /\ ~softWrap

SumInit ==
  /\ part \in {"history", "recovery", "review", "lines", "cells", "screen"}
  /\ Init /\ (part = "history" \/ QuietHistory)
  /\ NapInit /\ (part = "recovery" \/ QuietNap)
  /\ ReviewInit /\ (part = "review" \/ QuietReview)
  /\ IndexInit /\ (part = "lines" \/ QuietLines)
  /\ CellsInit /\ (part = "cells" \/ QuietCells)
  /\ ViewInit /\ (part = "screen" \/ QuietScreen)

scans == <<vars, reviewVars, indexVars, cellVars>>

Nap(A) == part = "recovery" /\ A /\ UNCHANGED <<scans, viewVars, part>>

SumNext ==
  \/ Nap(NapNext)
  \/ part = "screen" /\ ViewNext /\ UNCHANGED <<scans, napVars, part>>
  \/ /\ UNCHANGED <<napVars, viewVars, part>>
     /\ \/ part = "history" /\ Next /\ UNCHANGED <<reviewVars, indexVars, cellVars>>
        \/ part = "review" /\ ReviewNext /\ UNCHANGED <<vars, indexVars, cellVars>>
        \/ part = "lines" /\ IndexNext /\ UNCHANGED <<vars, reviewVars, cellVars>>
        \/ part = "cells" /\ CellsNext /\ UNCHANGED <<vars, reviewVars, indexVars>>

\* The fairness of Catnap, while it is the part that runs.
SumSpec ==
  /\ SumInit /\ [][SumNext]_<<scans, napVars, viewVars, part>>
  /\ WF_napVars(Nap(IntervalElapses)) /\ WF_napVars(Nap(PollRecovery)) /\ WF_napVars(Nap(Write))
=============================================================================
