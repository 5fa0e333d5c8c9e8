------------------------------- MODULE MCFiles -------------------------------
(***************************************************************************)
(* What becomes of a file: whether it is still the one that was read       *)
(* (FileSync), a save of it (AtomicWrite), its pages and their histories   *)
(* when it is large (PagedHistory), where a search or a line number leads  *)
(* in it, page by page (Search), what the keys and the pointer make of it  *)
(* (Editing), and an update of the program's own binary and checkout       *)
(* (Update).  They share no state; `part` says which one takes the steps.  *)
(***************************************************************************)
EXTENDS FileSync, AtomicWrite, PagedHistory, Search, Editing, Update

VARIABLE part

\* "L", "C" are the two bytes of one character for Literal.
MCFiles   == { << <<"a", "n", "b", "n">>, <<"b", "a">> >>,
               << <<"L", "C", "n", "n">>, <<"a", "n", "b", "n">> >> }
MCEdits   == { <<>>, <<"a", "b", "a">>, <<"n", "L", "C">> }
MCQueries == { <<"a">>, <<"a", "b", "a">>, <<"L", "C", "a">> }

MCOriginals == { << <<"R", "R">>, <<"s", "o">> >>, << <<"t">>, <<>>, <<"x">> >> }
MCPasted    == { <<"W", "n", "c">> }

-----------------------------------------------------------------------------
(* The parts. *)

\* Which of the first versions a file has does not matter; the file the buffer does not
\* start with is there to begin with.
Numbered == \A p \in Paths : disk[p] \in IF p \in Initial THEN {Absent, 1} ELSE {2}
QuietDisk == \A p \in Paths \cap Initial : disk[p] = Absent

QuietSync   == path = NoPath /\ ~dirty /\ ~auto_reload /\ QuietDisk
QuietSearch == mode = "small" /\ filePages = CHOOSE f \in Files : TRUE
QuietSave   == started["target"] # Gone /\ started["alias"] = Gone
QuietKeys   == lines = CHOOSE t \in Originals : TRUE
QuietUpdate == master = Installed /\ head = Installed /\ work = {} /\ stashes = <<>>

SumInit ==
  /\ part \in {"fails", "pair", "save", "pages", "search", "keys", "update"}
  /\ Init /\ Numbered /\ (part \in {"fails", "pair"} \/ QuietSync)
  /\ (part = "search" \/ QuietSearch) /\ SearchInit
  /\ SaveInit /\ (part = "save" \/ QuietSave)
  /\ UpdateInit /\ (part = "update" \/ QuietUpdate)
  /\ Cardinality(DOMAIN edited) <= 2
  /\ EditInit /\ (part = "keys" \/ QuietKeys)
  /\ PagesInit

\* In one half files cannot always be examined, and there is one file; in the other there
\* are two.
Examined(c) == c.kind \notin {"Interrupted", "Failed"}
Sync(half) ==
  IF half = "fails" THEN \A p \in Paths \ Initial : disk'[p] = disk[p]
                    ELSE \A c \in observed' \cup pressed' \cup {confirmation'.change} : Examined(c)

disks    == <<vars, saveVars, updateVars>>
surfaces == <<pagesVars, searchVars, editVars>>

SumNext ==
  /\ UNCHANGED part
  /\ \/ /\ UNCHANGED surfaces
        /\ \/ part \in {"fails", "pair"} /\ Next /\ Sync(part)
              /\ UNCHANGED <<saveVars, updateVars>>
           \/ part = "save" /\ SaveNext /\ UNCHANGED <<vars, updateVars>>
           \/ part = "update" /\ UpdateNext /\ UNCHANGED <<vars, saveVars>>
     \/ /\ UNCHANGED disks
        /\ \/ part = "pages" /\ PagesNext /\ UNCHANGED <<searchVars, editVars>>
           \/ part = "search" /\ SearchNext /\ UNCHANGED <<pagesVars, editVars>>
           \/ part = "keys" /\ EditNext /\ UNCHANGED <<pagesVars, searchVars>>

SumSpec == SumInit /\ [][SumNext]_<<disks, surfaces, part>>
=============================================================================
