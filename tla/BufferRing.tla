------------------------------ MODULE BufferRing ------------------------------
(***************************************************************************)
(* The open buffers: one active buffer whose state lives in the fields of  *)
(* App, and a deque of slots for the others (app/buffers.rs,               *)
(* buffers/lifecycle.rs).  Around it, what decides which of them is shown, *)
(* replaced or dropped: keys and typed commands, the prompts, the          *)
(* confirmation that a second Ctrl+Q needs, and the detour to the          *)
(* configuration file, from which Ctrl+Q returns (app/input.rs,            *)
(* app/command_prompt.rs).                                                 *)
(*                                                                         *)
(* A document is the text and the file state that were loaded together.    *)
(* Its text is a version number.  A slot says, field by field, which       *)
(* document the field belongs to.                                          *)
(***************************************************************************)
EXTENDS Naturals, Sequences, FiniteSets, SequencesExt

CONSTANTS
  Docs, NoDoc,             \* what is open at a time
  Fields,                 \* of App and BufferSlot: fourteen
  Config, Alias, Other,   \* paths; Alias is a symbolic link to Config
  NoPath

ASSUME BufferRingAssumption ==
  {"buffer", "file"} \subseteq Fields /\ NoDoc \notin Docs /\ NoPath \notin {Config, Alias, Other}

VARIABLES
  ring,      \* [active, inactive, index]: App's fields, inactive_buffers, active_buffer_index
  path,      \* of each document: FileState.path
  unsaved,   \* FileState.dirty
  focus,     \* [kind, exit]: the surface that takes the keys
  confirmation,
  detour,    \* config_return: the index to return to, in <<>> or <<index>>
  invoker,   \* history variable: <<>>, or where the detour began, where it led, and
             \* whether that buffer is its own; while no buffer comes or goes
  onDisk,    \* the configuration file: "always" there, "created" or "no"
  quit,      \* should_quit
  warned     \* history variable: the documents that are as the warning found them

documents == <<path, unsaved>>
surface   == <<focus, confirmation, warned>>
returning == <<detour, invoker>>
ringVars  == <<ring, documents, surface, returning, onDisk, quit>>

Paths == {Config, Alias, Other}

-----------------------------------------------------------------------------
(* The ring. *)

\* from_app.
SlotOf(d) == [f \in Fields |-> d]

Count(r) == Len(r.inactive) + 1
Slots(r) == <<r.active>> \o r.inactive

\* Mutant: a field is forgotten.
SwapAllButSearch(slot, active) ==
  [slot |-> [active EXCEPT !["search"] = slot["search"]],
   active |-> [slot EXCEPT !["search"] = active["search"]]]

\* swap_with_active: every field of the slot changes places with App's.
SwapWithActive(slot, active) == [slot |-> active, active |-> slot]

\* switch_buffer.
Switch(r, direction) ==
  LET n == Count(r)
      next == SwapWithActive(Head(r.inactive), r.active)
      previous == SwapWithActive(Last(r.inactive), r.active)
  IN CASE n = 1 -> r
       [] n > 1 /\ direction = "next" ->
            [active |-> next.active, inactive |-> Append(Tail(r.inactive), next.slot),
             index |-> (r.index + 1) % n]
       [] n > 1 /\ direction = "previous" ->
            [active |-> previous.active,
             inactive |-> <<previous.slot>> \o Front(r.inactive),
             index |-> (r.index + n - 1) % n]

\* A new document is put in front of the others and switched to.
Inserted(r, d) == Switch([r EXCEPT !.inactive = <<SlotOf(d)>> \o @], "next")

\* replace_active_file_buffer.
Replaced(r, d) == [r EXCEPT !.active = SwapWithActive(SlotOf(d), r.active).active]

\* Mutant: the index of a closed last buffer stays.
ClosedInPlace(r, blank) ==
  [active |-> IF r.inactive = <<>> THEN SlotOf(blank) ELSE Head(r.inactive),
   inactive |-> IF r.inactive = <<>> THEN <<>> ELSE Tail(r.inactive),
   index |-> IF r.inactive = <<>> THEN 0 ELSE r.index]

\* close_active_buffer: the next buffer, or a blank one, replaces the active.
Closed(r, blank) ==
  LET replacement == IF r.inactive = <<>> THEN SlotOf(blank) ELSE Head(r.inactive)
      rest == IF r.inactive = <<>> THEN <<>> ELSE Tail(r.inactive)
  IN [active |-> SwapWithActive(replacement, r.active).active, inactive |-> rest,
      index |-> IF rest = <<>> \/ r.index > Len(rest) THEN 0 ELSE r.index]

\* After a detour: back, one buffer at a time, to the place it began.
ReturnTo(r, target) ==
  LET back[k \in 0..Count(r)] ==
        IF k = 0 THEN r
        ELSE IF back[k - 1].index = target THEN back[k - 1] ELSE Switch(back[k - 1], "previous")
  IN back[Count(r)]

\* Forward to the n-th of the others.
SwitchedBy(r, n) ==
  LET on[k \in 0..n] == IF k = 0 THEN r ELSE Switch(on[k - 1], "next")
  IN on[n]

-----------------------------------------------------------------------------
(* Documents, and which of them show the same file (file/identity.rs). *)

\* The documents in the order of the ring, from index 0.
Order(r) ==
  [k \in 1..Count(r) |->
     Slots(r)[IF k > r.index THEN k - r.index ELSE k + Count(r) - r.index]["file"]]

DocsOf(r) == {s["file"] : s \in ToSet(Slots(r))}

\* No buffer comes or goes.
KeepInvoker == invoker' = IF Order(ring') = Order(ring) THEN invoker ELSE <<>>

active == ring.active["file"]
Open == DocsOf(ring)
DirtyDocs == {d \in Open : unsaved[d]}

\* A link whose target is missing (there = "no") is not resolved.
Same(p, q, there) == p = q \/ (there # "no" /\ {p, q} = {Config, Alias})

Represents(slot, p, there) ==
  LET q == path[slot["file"]] IN q # NoPath /\ Same(q, p, there)

\* another_buffer_represents_path.
AnotherRepresents(p) ==
  \E i \in DOMAIN ring.inactive : Represents(ring.inactive[i], p, onDisk)

\* The documents are dropped with their slots, and others are loaded.
Loaded(ringNext, d, p) ==
  LET kept == DocsOf(ringNext)
  IN /\ ring' = ringNext
     /\ path' = [e \in Docs |-> IF e = d THEN p ELSE IF e \in kept THEN path[e] ELSE NoPath]
     /\ unsaved' = [e \in Docs |-> e \in kept \ {d} /\ unsaved[e]]

Unused == Docs \ Open

-----------------------------------------------------------------------------
(* Surfaces.  "command" stands for the prompts that a switch takes away (for *)
(* a command, a path, a line or a search), "view" for what it leaves         *)
(* (read-only views and the prompts of a replacement); "review" is a         *)
(* replacement under way in document of.                                     *)

Surface(kind, exit, of) == [kind |-> kind, exit |-> exit, of |-> of]
Editor == Surface("editor", FALSE, NoDoc)

AfterSwitch(f) == IF f.kind \in {"view", "review"} THEN f ELSE Editor

\* A key of the editor, or the same command typed in its prompt.
Entered == focus.kind \in {"editor", "command"}

\* prepare_editor_action: whatever is not a second Ctrl+Q disarms it.
Disarmed == confirmation' = "none" /\ warned' = {}
Armed(c, docs) == confirmation' = c /\ warned' = docs

ToEditor == focus' = Editor /\ Disarmed

\* forget_active_config_detour.
ForgetActiveDetour ==
  detour' = IF detour # <<>> /\ path[active] = Config THEN <<>> ELSE detour

\* prepare_prompt_edit.
PromptEdit ==
  /\ focus.kind \in {"command", "create", "view"}
  /\ Disarmed
  /\ UNCHANGED <<ring, documents, focus, returning, onDisk, quit>>

Cancel ==
  /\ focus.kind \notin {"editor", "startup"} /\ ToEditor
  /\ UNCHANGED <<ring, documents, returning, onDisk, quit>>

OpenPrompt ==
  /\ Entered
  /\ \E kind \in {"view", "command"} :
       focus' = Surface(kind, FALSE, NoDoc)
  /\ Disarmed
  /\ UNCHANGED <<ring, documents, returning, onDisk, quit>>

-----------------------------------------------------------------------------
(* Edits. *)

\* Mutant: an edit leaves the confirmation armed.
RecordEditArmed(changed) ==
  /\ unsaved' = [unsaved EXCEPT ![active] = changed]
  /\ warned' = warned \ {active}
  /\ UNCHANGED <<confirmation, path>>

\* record_content_edit, after an edit, an undo or a redo.
RecordEdit(changed) ==
  /\ unsaved' = [unsaved EXCEPT ![active] = changed]
  /\ Disarmed
  /\ UNCHANGED path

Edit ==
  /\ focus.kind = "editor"
  /\ \E changed \in BOOLEAN : RecordEdit(changed)
  /\ UNCHANGED <<ring, focus, returning, onDisk, quit>>

\* A replacement of all matches begins, in the document that is active then.
StartReview ==
  /\ focus.kind = "view"
  /\ focus' = Surface("review", FALSE, active) /\ Disarmed
  /\ UNCHANGED <<ring, documents, returning, onDisk, quit>>

\* poll: the next batch, unless Ctrl+Q waits for its confirmation; the end,
\* when the document is not the one it began in.
PollReview ==
  /\ focus.kind = "review"
  /\ \/ /\ focus.of # active /\ focus' = Editor
        /\ UNCHANGED <<documents, confirmation, warned>>
     \/ /\ focus.of = active /\ confirmation # "quit"
        /\ RecordEdit(TRUE) /\ focus' \in {focus, Editor}
  /\ UNCHANGED <<ring, returning, onDisk, quit>>

-----------------------------------------------------------------------------
(* The ring's operations. *)

\* Ctrl+PageUp and Ctrl+PageDown.
SwitchBuffer ==
  /\ focus.kind = "editor"
  /\ \E direction \in {"next", "previous"} : ring' = Switch(ring, direction)
  /\ ToEditor
  /\ UNCHANGED <<documents, returning, onDisk, quit>>

New ==
  /\ Entered /\ ToEditor
  /\ \E d \in Unused : Loaded(Inserted(ring, d), d, NoPath)
  /\ KeepInvoker /\ UNCHANGED <<detour, onDisk, quit>>

\* close_active_buffer, then what is done to the ring that is left.
CloseAnd(Then(_)) ==
  IF ring.inactive = <<>>
  THEN \E d \in Unused : Loaded(Then(Closed(ring, d)), d, NoPath)
  ELSE Loaded(Then(Closed(ring, NoDoc)), NoDoc, NoPath)

CloseBuffer ==
  /\ CloseAnd(LAMBDA r : r)
  /\ ForgetActiveDetour /\ KeepInvoker /\ ToEditor
  /\ UNCHANGED <<onDisk, quit>>

Close ==
  /\ Entered
  /\ IF unsaved[active] THEN ToEditor /\ UNCHANGED <<ring, documents, returning, onDisk, quit>>
                      ELSE CloseBuffer

\* close!
CloseDiscard == focus.kind = "command" /\ CloseBuffer

\* open_file_buffer: the buffer that shows the file, or a new one.
OpenFileBuffer(p, there) ==
  LET at == {i \in DOMAIN ring.inactive : Represents(ring.inactive[i], p, there)}
  IN IF Represents(ring.active, p, there)
     THEN UNCHANGED <<ring, documents>>
     ELSE \/ \E i \in at : /\ \A j \in at : i <= j
                           /\ ring' = SwitchedBy(ring, i) /\ UNCHANGED documents
          \/ at = {} /\ \E d \in Unused : Loaded(Inserted(ring, d), d, p)

OpenFile ==
  /\ focus.kind = "command" /\ ToEditor
  /\ \E p \in Paths : OpenFileBuffer(p, onDisk)
  /\ KeepInvoker /\ UNCHANGED <<detour, onDisk, quit>>

-----------------------------------------------------------------------------
(* Saving (app/save.rs).  What may go wrong with the file itself is in       *)
(* AtomicWrite and FileSync: here a save that is not blocked may fail.       *)

Written(p) ==
  onDisk' = IF onDisk = "no" /\ p \in {Config, Alias} THEN "created" ELSE onDisk

SaveTo(p) ==
  /\ path' = [path EXCEPT ![active] = p]
  /\ unsaved' = [unsaved EXCEPT ![active] = FALSE]
  /\ Written(p)

NotSaved == UNCHANGED <<documents, onDisk>>

SaveActive == IF AnotherRepresents(path[active]) THEN NotSaved ELSE SaveTo(path[active]) \/ NotSaved

SaveKey ==
  /\ Entered /\ Disarmed
  /\ IF path[active] = NoPath THEN focus' = Surface("command", FALSE, NoDoc) /\ NotSaved
                              ELSE focus' = Editor /\ SaveActive
  /\ UNCHANGED <<ring, returning, quit>>

\* handle_save_as_with_route.
SaveAsPath(p) ==
  IF AnotherRepresents(p) THEN NotSaved
  ELSE IF path[active] # NoPath /\ Same(path[active], p, onDisk) THEN SaveActive
  ELSE SaveTo(p) \/ NotSaved

SaveAs ==
  /\ focus.kind = "command" /\ ToEditor
  /\ \E p \in Paths : SaveAsPath(p)
  /\ UNCHANGED <<ring, returning, quit>>

-----------------------------------------------------------------------------
(* The configuration file, and the detour to it. *)

\* Mutant: the place to return to is read after the file is opened.
OpenConfigPathLate(there) ==
  /\ OpenFileBuffer(Config, there)
  /\ IF Count(ring') > 1 /\ path[active] # Config /\ path'[active'] = Config
     THEN detour' = <<ring'.index>> /\ invoker' = <<active, active', Open' # Open>>
     ELSE UNCHANGED detour /\ KeepInvoker

\* open_config_path.
OpenConfigPath(there) ==
  /\ OpenFileBuffer(Config, there)
  /\ IF Count(ring') > 1 /\ path[active] # Config /\ path'[active'] = Config
     THEN detour' = <<ring.index>> /\ invoker' = <<active, active', Open' # Open>>
     ELSE UNCHANGED detour /\ KeepInvoker

\* execute_config_path: typed, or asked for on the command line.
OpenConfig ==
  /\ focus.kind \in {"command", "startup"} /\ Disarmed
  /\ IF onDisk = "no"
     THEN /\ focus' = Surface("create", focus.kind = "startup", NoDoc)
          /\ UNCHANGED <<ring, documents, returning>>
     ELSE focus' = Editor /\ OpenConfigPath(onDisk)
  /\ UNCHANGED <<onDisk, quit>>

Decline ==
  /\ focus.kind = "create" /\ ToEditor
  /\ quit' = focus.exit
  /\ UNCHANGED <<ring, documents, returning, onDisk>>

\* open_created_config_path, over the buffer of the missing file.
RenewActive ==
  /\ focus.kind = "create" /\ path[active] = Config /\ ToEditor
  /\ onDisk' = "created"
  /\ \E d \in Unused : Loaded(Replaced(ring, d), d, Config)
  /\ KeepInvoker /\ UNCHANGED <<detour, quit>>

\* The same, over any other; or the template cannot be written.
CreateConfig ==
  /\ focus.kind = "create" /\ ToEditor
  /\ \/ path[active] # Config /\ onDisk' = "created" /\ OpenConfigPath("created")
     \/ UNCHANGED <<ring, documents, returning, onDisk>>
  /\ UNCHANGED quit

\* Another process creates the file.
CreatedElsewhere ==
  /\ onDisk = "no" /\ onDisk' = "created"
  /\ UNCHANGED <<ring, documents, surface, returning, quit>>

-----------------------------------------------------------------------------
(* Leaving. *)

InDetour == detour # <<>> /\ path[active] = Config

\* handle_quit, with confirmation c, where f has the keys.
WarnConfig(c, f) ==
  /\ InDetour /\ unsaved[active] /\ c # "discard"
  /\ Armed("discard", {active}) /\ focus' = f
  /\ UNCHANGED <<ring, documents, returning, onDisk, quit>>

LeaveConfig(c, f) ==
  /\ InDetour /\ (unsaved[active] => c = "discard")
  /\ CloseAnd(LAMBDA r : ReturnTo(r, detour[1]))
  /\ focus' = IF ring'.index = Closed(ring, NoDoc).index THEN f ELSE AfterSwitch(f)
  /\ Disarmed /\ detour' = <<>> /\ KeepInvoker
  /\ UNCHANGED <<onDisk, quit>>

LeaveEditor(c, f) ==
  /\ ~InDetour
  /\ IF DirtyDocs = {} \/ c = "quit" THEN quit' = TRUE /\ UNCHANGED surface
                                     ELSE focus' = f /\ Armed("quit", DirtyDocs) /\ UNCHANGED quit
  /\ UNCHANGED <<ring, documents, returning, onDisk>>

HandleQuit(c, f) == WarnConfig(c, f) \/ LeaveConfig(c, f) \/ LeaveEditor(c, f)

\* Ctrl+Q, wherever the keys go; or typed, when no confirmation is armed.
Quit ==
  \/ focus.kind # "startup" /\ HandleQuit(confirmation, focus)
  \/ focus.kind = "command" /\ HandleQuit("none", Editor)

-----------------------------------------------------------------------------
\* One document from the command line, or a blank one, over which the
\* configuration is opened.
RingInit ==
  /\ \E d \in Docs, p \in Paths \cup {NoPath} :
       /\ ring = [active |-> SlotOf(d), inactive |-> <<>>, index |-> 0]
       /\ path = [e \in Docs |-> IF e = d THEN p ELSE NoPath]
  /\ unsaved = [d \in Docs |-> FALSE]
  /\ focus \in IF path[active] = NoPath THEN {Editor, Surface("startup", FALSE, NoDoc)} ELSE {Editor}
  /\ confirmation = "none" /\ warned = {}
  /\ detour = <<>> /\ invoker = <<>> /\ quit = FALSE
  /\ onDisk \in {"always", "no"}

RingNext ==
  /\ ~quit
  /\ \/ PromptEdit \/ Cancel \/ OpenPrompt
     \/ Edit \/ StartReview \/ PollReview
     \/ SwitchBuffer \/ New \/ Close \/ CloseDiscard \/ OpenFile
     \/ SaveKey \/ SaveAs
     \/ OpenConfig \/ Decline \/ RenewActive \/ CreateConfig \/ CreatedElsewhere
     \/ Quit

RingSpec == RingInit /\ [][RingNext]_ringVars

-----------------------------------------------------------------------------
(* Properties. *)

\* Switching, opening and closing swap fourteen fields and keep a deque and an
\* index: every slot always holds the parts of one document, no document is in
\* two slots, and no two buffers show one file (neither by one spelling, nor
\* through a link to a file that was there from the start).
RingIsSound ==
  /\ \A i \in DOMAIN Slots(ring) : \E d \in Docs : Slots(ring)[i] = SlotOf(d)
  /\ IsInjective(Order(ring)) /\ ring.index < Count(ring)
  /\ \A d, e \in Open : d # e /\ path[d] # NoPath =>
       path[e] # path[d] /\ (onDisk = "always" => {path[d], path[e]} # {Config, Alias})

\* Unsaved text goes with its buffer, or with the editor, only where the user
\* typed close! or was warned about exactly this text and confirmed at once.
\* (Except where a template replaces the buffer of a missing configuration.)
NothingDiscarded ==
  [][\A d \in DirtyDocs :
       quit' \/ d \notin Open' => d \in warned \/ CloseDiscard \/ RenewActive]_ringVars

\* "A dirty buffer refuses an ordinary close. Save it first, or use the explicit
\* close! command when discarding the changes is intentional."
\* (docs/user-guide.md:742)
NeverDiscardedUnasked ==
  [][\A d \in DirtyDocs :
       quit' \/ d \notin Open' => d \in warned \/ CloseDiscard]_ringVars

\* The buffer of the detour is closed, and since it was asked for none came or went.
DetourEnds ==
  Quit /\ InDetour /\ active \notin Open' /\ invoker # <<>> /\ invoker[2] = active

\* Ctrl+Q on a configuration buffer that the detour opened goes back to the
\* buffer it was asked for in, whatever was looked at in between, as long as no
\* buffer came or went.
DetourReturns ==
  [][DetourEnds /\ invoker[3] => active' = invoker[1]]_ringVars

\* "When the in-editor command opens config from another buffer, Ctrl+Q closes
\* that temporary config buffer and returns to the invoking buffer."
\* (docs/user-guide.md:1227)
ReturnsToInvoker ==
  [][DetourEnds => active' = invoker[1]]_ringVars

\* The ring is the list of buffers that Ring describes.
Listed == INSTANCE Ring WITH Buffer <- Docs, order <- Order(ring), shown <- ring.index + 1
ImplementsRing == Listed!RingSpec
===============================================================================
