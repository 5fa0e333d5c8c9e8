------------------------------ MODULE MCBuffers ------------------------------
(***************************************************************************)
(* Three things of a buffer: a text in pieces with its history (PieceTable, *)
(* on the empty original, one scalar and a newline to type, a line and a   *)
(* newline to paste, and limits low enough that every third edit prunes and *)
(* that compaction happens), its place among the open ones (BufferRing), and *)
(* the commands, hooks and linter that work on it (Workers).  They share no *)
(* state; `part` says which one takes the steps.                           *)
(***************************************************************************)
EXTENDS PieceTable, BufferRing, Workers

VARIABLE part

MCEmpty == <<>>
MCPastes == {<<>>, <<"p", "q">>, <<"nl">>}
MCScalars == {"x", "p", "q"}

\* The documents of the ring are interchangeable.
RingSymmetry == Permutations(Docs)

QuietRing    == path[active] = NoPath /\ focus = Editor /\ onDisk = "always"
QuietWorkers == disk.text = CHOOSE t \in Texts : TRUE

SumInit ==
  /\ part \in {"pieces", "ring", "workers"}
  /\ Init
  /\ RingInit /\ (part = "ring" \/ QuietRing)
  /\ WorkersInit /\ (part = "workers" \/ QuietWorkers)

SumNext ==
  /\ UNCHANGED part
  /\ \/ part = "pieces" /\ Next /\ UNCHANGED <<ringVars, workersVars>>
     \/ part = "ring" /\ RingNext /\ UNCHANGED <<vars, workersVars>>
     \/ part = "workers" /\ WorkersNext /\ UNCHANGED <<vars, ringVars>>

SumSpec == SumInit /\ [][SumNext]_<<vars, ringVars, workersVars, part>>
=============================================================================
