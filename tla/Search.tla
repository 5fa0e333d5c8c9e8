-------------------------------- MODULE Search --------------------------------
(***************************************************************************)
(* Find, find next, find previous and go to line: the search of a large    *)
(* piece table poll by poll, of a small one line by line and of a paged    *)
(* file in a worker (editor/search.rs), the line scan of a paged file      *)
(* (editor/goto_line.rs), and the prompt that starts, restarts and drops   *)
(* them (app/search.rs).                                                   *)
(*                                                                         *)
(* A document may change between a request and its answer, and a paged     *)
(* file may change while a worker reads it.  A search and a line scan do   *)
(* not know of each other; one of them runs at a time here.                *)
(***************************************************************************)
EXTENDS Literal

CONSTANTS
  Files,       \* files, each a sequence of pages, each page a text
  Edits,       \* what an edited page may hold
  Queries,     \* search queries: non-empty, of whole scalars, without newline
  PageLines,   \* lines in a page
  ChunkBytes,  \* SEARCH_CHUNK_BYTES, GOTO_CHUNK_BYTES
  MaxLine      \* bound on the line numbers asked for

ASSUME SearchAssumption ==
  /\ PageLines \in Nat \ {0} /\ ChunkBytes \in Nat \ {0, 1} /\ MaxLine \in Nat
  /\ \A q \in Queries : q # <<>> /\ q[1] # "C" /\ ~Contains(q, "n")

VARIABLES
  mode,       \* "small", "streamed" (a large piece table) or "paged"
  filePages,  \* the document as it was opened, page by page
  edited,     \* the pages that hold something else now: page -> text
  stored,     \* the bytes in the file of a paged document
  prompt,     \* the search prompt: a set of at most one [query, origin]
  found,      \* active_match or active_descriptor_match: at most one [at, place]
  task,       \* the running search or line scan: a set of at most one
  answer,     \* history variable: the last result that was shown
  outdated    \* history variable: whether the document changed after `found`

searchVars == <<mode, filePages, edited, stored, prompt, found, task, answer, outdated>>

-----------------------------------------------------------------------------
(* Results and tasks. *)

Found(at, place) == [kind |-> "Found", at |-> at, place |-> place, line |-> 0]
Line(place, line) == [kind |-> "Line", at |-> 0, place |-> place, line |-> line]
NotFound == [kind |-> "NotFound", at |-> 0, place |-> <<>>, line |-> 0]
ScanError == [kind |-> "Error", at |-> 0, place |-> <<>>, line |-> 0]

\* What the last request was about, for the properties.
Request(kind, query, anchor, direction, include, line) ==
  [kind |-> kind, query |-> query, anchor |-> anchor, direction |-> direction,
   include |-> include, line |-> line]

LocalRequest(query, origin, direction, include) ==
  Request("local", query, {origin}, direction, include, 0)
DescriptorRequest(query, anchor, direction) ==
  Request("descriptor", query, anchor, direction, FALSE, 0)

Place(start, page, row, col) == [start |-> start, page |-> page, row |-> row, col |-> col]

\* A task that has read nothing yet: the matcher, what it has met, where it is
\* in the file and in an edited page, the coordinates there, what the file held
\* when the worker looked first and the edited pages at the request.
Started(request) ==
  [request |-> request, matcher |-> Matcher(request.query),
   first |-> {}, last |-> {}, before |-> {},
   offset |-> 0, inner |-> 0, carry |-> <<>>, spans |-> <<>>,
   place |-> Place(0, 1, 0, 0), line |-> 1, lastPlace |-> Place(0, 1, 0, 0),
   opened |-> {}, overlays |-> edited, stale |-> FALSE, result |-> {}]

Done(t, result) == [t EXCEPT !.result = {result}]
FirstOf(set) == IF set = {} THEN {} ELSE {Min(set)}
LastOf(set)  == IF set = {} THEN {} ELSE {Max(set)}
Or(a, b) == IF a = {} THEN b ELSE a

-----------------------------------------------------------------------------
(* A large piece table, searched in segments on the main thread.           *)

text == FlattenSeq(filePages)

\* consider_local_candidate, for the candidates of a segment.
Passes(request, origin, at) ==
  \/ request.include /\ at = origin
  \/ request.direction = "Forward" /\ (at > origin)
  \/ request.direction = "Backward" /\ (at < origin)

\* LocalSearchTask.finish.
LocalResult(t) ==
  LET best == IF t.request.direction = "Forward" THEN t.first ELSE Or(t.before, t.last)
  IN  IF best = {} THEN NotFound ELSE Found(Min(best), CursorAt(text, Min(best)))

LocalStep(t, segment) ==
  LET origin == Min(t.request.anchor)
      forward == t.request.direction = "Forward"
      stopAt == IF forward THEN {IF t.request.include THEN origin ELSE origin + 1} ELSE {}
      cands == Candidates(t.matcher, segment, stopAt, NoLimit)
      passing == {at \in cands : Passes(t.request, origin, at)}
  IN  IF forward /\ passing # {}
      THEN Done(t, Found(Min(passing), CursorAt(text, Min(passing))))
      ELSE [t EXCEPT !.first = Or(@, FirstOf(cands)),
                     !.last = Or(LastOf(cands), @),
                     !.before = Or(LastOf(passing), @),
                     !.matcher = CommitSegment(@, segment)]

\* text_segment: from where the matcher is to a scalar boundary.
Segments(t) ==
  {Within(text, t.matcher.processed, to) :
     to \in {n \in t.matcher.processed + 1..Len(text) : Boundary(text, n)}}

\* find_match: a small buffer, line by line.
FindMatch(query, origin, direction, include) ==
  LET cursor == CursorAt(text, origin)
      LineText(row) == Within(text, LineStart(text, row), LineEnd(text, row))
      At(row, byte) == [row |-> row, col |-> Scalars(Upto(LineText(row), byte)),
                        at |-> LineStart(text, row) + byte]
      matches == UNION {{At(row, byte) : byte \in Occurrences(query, LineText(row))} :
                          row \in 0..LastRow(text)}
      Before(c, d) == c.row < d.row \/ (c.row = d.row /\ c.col < d.col)
      passing == {m \in matches :
                    CASE m.row = cursor.row /\ m.col = cursor.col -> include
                      [] direction = "Forward" -> Before(cursor, m)
                      [] OTHER -> Before(m, cursor)}
      pool == IF passing = {} THEN matches ELSE passing
      best == CHOOSE m \in pool :
                \A n \in pool : m = n \/ (IF direction = "Forward" THEN Before(m, n)
                                                                  ELSE Before(n, m))
  IN  IF matches = {} THEN NotFound ELSE Found(best.at, [row |-> best.row, col |-> best.col])

-----------------------------------------------------------------------------
(* A paged file, read by a worker through a descriptor of its own.         *)

PageStart(p) == Len(FlattenSeq(SubSeq(filePages, 1, p - 1)))
PageEnd(p)   == Len(FlattenSeq(SubSeq(filePages, 1, Min({p, Len(filePages)}))))
total        == Len(text)
PageText(p)   == IF p \in DOMAIN edited THEN edited[p] ELSE filePages[p]

\* A page that is full at the end of the file is followed by an empty one.
FullPage(page) == Cardinality(Newlines(page)) = PageLines
Addressable(file) == 1..(Len(file) + IF file # <<>> /\ FullPage(Last(file)) THEN 1 ELSE 0)

\* The overlays in order: the page that is next at or after an offset.
NextOverlay(t) == FirstOf({p \in DOMAIN t.overlays : PageStart(p) >= t.offset})
InvalidOverlay(t) == \E p \in NextOverlay(t) : PageStart(p) >= PageEnd(p)
AtOverlay(t) == \E p \in NextOverlay(t) : PageStart(p) = t.offset

\* advance_descriptor_position, one byte at a time.
Advance(place, bytes, start, paged) ==
  LET Step(at, i) ==
        CASE bytes[i] = "C" -> at
          [] bytes[i] # "n" -> [at EXCEPT !.col = @ + 1]
          [] paged /\ at.row + 1 = PageLines -> Place(start + i, at.page + 1, 0, 0)
          [] OTHER -> [at EXCEPT !.row = @ + 1, !.col = 0]
  IN  FoldLeft(Step, place, [i \in DOMAIN bytes |-> i])

\* descriptor_position_at: from the span that covers the offset.
PlaceAt(t, segment, spans, at) ==
  LET span == CHOOSE s \in Range(spans) : s.from <= at /\ at < s.to
      kept == OverlapStart(t.matcher)
  IN  Advance(span.place, Within(t.matcher.overlap \o segment, span.from - kept, at - kept),
              span.start, span.paged)

\* trim_coordinate_spans.
Trimmed(t, segment, spans) ==
  LET kept == RetainedStart(t.matcher, segment)
      rest == SelectSeq(spans, LAMBDA s : s.to > kept)
  IN  IF rest = <<>> \/ rest[1].from >= kept THEN rest
      ELSE [rest EXCEPT ![1] = [@ EXCEPT !.from = kept, !.start = @ + (kept - rest[1].from),
                                         !.place = PlaceAt(t, segment, rest, kept)]]

\* Scanner.scan_text_with_page_boundaries, consider_descriptor_candidates.
ScanText(t, segment, start, paged) ==
  LET m == t.matcher
      spans == Append(t.spans, [from |-> m.processed, to |-> m.processed + Len(segment),
                                place |-> t.place, start |-> start, paged |-> paged])
      anchor == t.request.anchor
      forward == t.request.direction = "Forward"
      stopAt == CASE ~forward -> {} [] anchor = {} -> {0} [] OTHER -> {Min(anchor) + 1}
      cands == Candidates(m, segment, stopAt, NoLimit)
      Match(at) == [at |-> at, place |-> PlaceAt(t, segment, spans, at)]
      Matches(set) == {Match(at) : at \in set}
      chosen == IF forward THEN FirstOf({at \in cands : \A a \in anchor : at > a}) ELSE {}
  IN  IF segment = <<>> THEN t
      ELSE IF chosen # {}
      THEN Done(t, Found(Min(chosen), PlaceAt(t, segment, spans, Min(chosen))))
      ELSE [t EXCEPT
              !.first = Or(@, Matches(FirstOf(cands))),
              !.last = Or(Matches(LastOf(cands)), @),
              !.before = Or(Matches(LastOf({at \in cands : \A a \in anchor : at < a})), @),
              !.place = Advance(@, segment, start, paged),
              !.spans = Trimmed(t, segment, spans),
              !.matcher = CommitSegment(m, segment)]

\* DescriptorSelection.finish.
DescriptorResult(t) ==
  LET best == IF t.request.direction = "Forward" THEN t.first ELSE Or(t.before, t.last)
  IN  IF best = {} THEN NotFound
      ELSE LET m == CHOOSE b \in best : TRUE IN Found(m.at, m.place)

BeginPage(t, start, page) == [t EXCEPT !.place = Place(start, page, 0, 0)]

\* LineScanner.scan_original, scan_overlay: up to the line that is asked for.
ScanLines(t, bytes, Turns(_, _)) ==
  LET Step(u, i) ==
        IF u.result # {} \/ bytes[i] # "n" THEN u
        ELSE LET below == [u.place EXCEPT !.row = @ + 1]
                 there == IF Turns(below, i) # {} THEN CHOOSE p \in Turns(below, i) : TRUE
                          ELSE below
                 v == [u EXCEPT !.line = @ + 1, !.place = there, !.lastPlace = there]
             IN  IF v.line = t.request.line THEN Done(v, Line(there, v.line)) ELSE v
  IN  FoldLeft(Step, t, [i \in DOMAIN bytes |-> i])

ScanOriginal(t, bytes, start) ==
  ScanLines(t, bytes, LAMBDA at, i :
    IF at.row = PageLines THEN {Place(start + i, at.page + 1, 0, 0)} ELSE {})

ScanOverlay(t, p) ==
  ScanLines(t, t.overlays[p], LAMBDA at, i :
    IF i = Len(t.overlays[p]) /\ PageEnd(p) < total THEN {Place(PageEnd(p), p + 1, 0, 0)} ELSE {})

\* ensure_unchanged: what was found counts if the file is as it was at the start.
Checked(t) ==
  IF t.result # {} /\ stored \notin t.opened THEN Done(t, ScanError) ELSE t

\* A chunk of an edited page, and what follows the page.
SearchOverlay(t, p) ==
  LET page == t.overlays[p]
      u == IF t.inner = 0 THEN BeginPage(t, PageStart(p), p) ELSE t
      to == Max({n \in t.inner..Min({t.inner + ChunkBytes, Len(page)}) : Boundary(page, n)})
      v == ScanText(u, Within(page, t.inner, to), u.place.start, FALSE)
  IN  IF v.result # {} THEN Checked(v)
      ELSE IF to < Len(page) THEN [v EXCEPT !.inner = to]
      ELSE [BeginPage(v, PageEnd(p), p + 1) EXCEPT !.inner = 0, !.offset = PageEnd(p)]

SearchOriginal(t, n) ==
  LET bytes == t.carry \o Within(stored, t.offset, t.offset + n)
      valid == ValidEnd(bytes)
      v == ScanText(t, Upto(bytes, valid), t.offset - Len(t.carry), TRUE)
  IN  IF Malformed(bytes) THEN Done(t, ScanError)
      ELSE IF v.result # {} THEN Checked(v)
      ELSE [v EXCEPT !.carry = Within(bytes, valid, Len(bytes)), !.offset = @ + n]

LinesOverlay(t, p) ==
  LET v == ScanOverlay(BeginPage(t, PageStart(p), p), p)
  IN  IF v.result # {} THEN Checked(v)
      ELSE [BeginPage(v, PageEnd(p), p + 1) EXCEPT !.offset = PageEnd(p)]

LinesOriginal(t, n) ==
  LET v == ScanOriginal(t, Within(stored, t.offset, t.offset + n), t.offset)
  IN  IF v.result # {} THEN Checked(v) ELSE [v EXCEPT !.offset = @ + n]

\* The end of the file.
Finished(t) ==
  CASE t.carry # <<>> -> Done(t, ScanError)
    [] t.request.kind = "goto" -> Checked(Done(t, Line(t.lastPlace, t.line)))
    [] OTHER -> Checked(Done(t, DescriptorResult(t)))

\* What one turn of the loop of scan_descriptor_with or scan_descriptor may do;
\* a read returns as much as it likes.
Turns(t) ==
  LET goto == t.request.kind = "goto"
      limit == Min({ChunkBytes, Len(stored) - Min({t.offset, Len(stored)})}
                     \cup {PageStart(p) - t.offset : p \in NextOverlay(t)})
  IN  CASE t.opened = {} ->
             {IF Len(stored) # total THEN Done(t, ScanError)
              ELSE IF goto /\ t.request.line = 1
              THEN Done([t EXCEPT !.opened = {stored}], Line(t.lastPlace, 1))
              ELSE [t EXCEPT !.opened = {stored}]}
        [] t.offset >= total -> {Finished(t)}
        [] InvalidOverlay(t) -> {Done(t, ScanError)}
        [] AtOverlay(t) /\ t.carry # <<>> -> {Done(t, ScanError)}
        [] AtOverlay(t) -> {IF goto THEN LinesOverlay(t, p) ELSE SearchOverlay(t, p) :
                              p \in NextOverlay(t)}
        [] limit = 0 -> {Done(t, ScanError)}
        [] OTHER -> {IF goto THEN LinesOriginal(t, n) ELSE SearchOriginal(t, n) :
                       n \in 1..limit}

-----------------------------------------------------------------------------
(* The prompt and the event loop. *)

SearchInit ==
  /\ mode \in {"small", "streamed", "paged"}
  /\ filePages \in Files
  /\ \E some \in SUBSET Addressable(filePages) :
       edited \in IF mode = "paged" THEN [some -> Edits] ELSE [{} -> Edits]
  /\ stored = text
  /\ prompt = {} /\ found = {} /\ task = {} /\ answer = {} /\ outdated = FALSE

Document == <<mode, filePages, edited, stored>>

\* open_prompt.  The search of a paged file does not start at the cursor.
OpenPrompt ==
  /\ prompt = {} /\ task = {}
  /\ \E at \in IF mode = "paged" THEN {0} ELSE {n \in 0..total : Boundary(text, n)} :
       prompt' = {[query |-> <<>>, origin |-> CursorAt(text, at)]}
  /\ found' = {} /\ outdated' = FALSE /\ answer' = {} /\ UNCHANGED <<Document, task>>

Start(request) == task' = {Started(request)}
Show(request, result) ==
  /\ found' = IF result.kind = "Found" THEN {[at |-> result.at, place |-> result.place]}
              ELSE {}
  /\ answer' = {[request |-> request, result |-> result, stale |-> FALSE]}
  /\ outdated' = FALSE

\* apply_local_match.
ApplyLocal(query, origin, direction, include) ==
  /\ Show(LocalRequest(query, origin, direction, include),
          FindMatch(query, origin, direction, include))
  /\ task' = {}

\* refresh_incremental_match.
Type ==
  \E p \in prompt, query \in Queries \cup {<<>>} :
    /\ query # p.query
    /\ prompt' = {[p EXCEPT !.query = query]}
    /\ IF query = <<>> \/ mode # "small"
       THEN found' = {} /\ answer' = {} /\ outdated' = FALSE
       ELSE ApplyLocal(query, OffsetOf(text, p.origin), "Forward", TRUE)
    /\ CASE query = <<>> -> task' = {}
         [] mode = "paged" -> IF stored = text THEN Start(DescriptorRequest(query, {}, "Forward"))
                              ELSE task' = {}
         [] mode = "streamed" ->
              Start(LocalRequest(query, OffsetOf(text, p.origin), "Forward", TRUE))
         [] OTHER -> TRUE
    /\ UNCHANGED Document

\* navigate_match.
Navigate ==
  \E p \in prompt, direction \in {"Forward", "Backward"} :
    LET here == IF found = {} THEN p.origin ELSE (CHOOSE f \in found : TRUE).place
        anchor == {f.at : f \in found}
    IN  /\ p.query # <<>>
        /\ CASE mode = "paged" ->
                  /\ stored = text
                  /\ Start(DescriptorRequest(p.query, anchor,
                                             IF anchor = {} THEN "Forward" ELSE direction))
                  /\ answer' = {} /\ UNCHANGED <<found, outdated>>
             [] mode = "streamed" ->
                  /\ Start(LocalRequest(p.query, OffsetOf(text, here), direction, FALSE))
                  /\ answer' = {} /\ UNCHANGED <<found, outdated>>
             [] OTHER -> ApplyLocal(p.query, OffsetOf(text, here), direction, FALSE)
        /\ UNCHANGED <<Document, prompt>>

\* execute_goto on a paged document.
GotoLine ==
  /\ mode = "paged" /\ prompt = {} /\ task = {} /\ stored = text
  /\ \E line \in 1..MaxLine : Start(Request("goto", <<>>, {}, "Forward", FALSE, line))
  /\ answer' = {} /\ UNCHANGED <<Document, prompt, found, outdated>>

\* cancel_running_search, and Escape for a line scan.
CancelSearch ==
  /\ prompt # {} \/ task # {}
  /\ prompt' = {} /\ task' = {} /\ found' = {} /\ answer' = {} /\ outdated' = FALSE
  /\ UNCHANGED Document

\* LocalSearchTask.poll, a segment at a time, and the workers.
StreamedStep ==
  \E t \in task :
    /\ mode = "streamed" /\ t.result = {} /\ ~t.stale
    /\ \/ t.matcher.processed = Len(text) /\ task' = {Done(t, LocalResult(t))}
       \/ \E segment \in Segments(t) : task' = {LocalStep(t, segment)}
    /\ UNCHANGED <<Document, prompt, found, answer, outdated>>

WorkerStep ==
  \E t \in task :
    /\ mode = "paged" /\ t.result = {}
    /\ \E u \in Turns(t) : task' = {u}
    /\ UNCHANGED <<Document, prompt, found, answer, outdated>>

\* poll_search and poll_goto: a search of a document that has changed is
\* dropped; a place in a file that has changed cannot be shown.
Applied(t) == t.result # {} /\ (t.request.kind = "goto" \/ ~t.stale)
Poll ==
  \E t \in task :
    /\ task' = {}
    /\ \/ /\ t.stale /\ t.request.kind # "goto"
          /\ UNCHANGED <<found, answer, outdated>>
       \/ /\ Applied(t)
          /\ LET result == CHOOSE r \in t.result : TRUE
             IN  IF result.kind \in {"Found", "Line"} /\ mode = "paged" /\ stored # text
                 THEN UNCHANGED <<found, answer, outdated>>
                 ELSE IF t.request.kind = "goto"
                 THEN /\ answer' = {[request |-> t.request, result |-> result,
                                     stale |-> t.stale]}
                      /\ UNCHANGED <<found, outdated>>
                 ELSE Show(t.request, result)
    /\ UNCHANGED <<Document, prompt>>

\* A command's output replaces the text, an edit changes a page; once for each
\* match, which bounds how often.
DocumentChanges ==
  /\ prompt # {} \/ task # {}
  /\ ~outdated
  /\ IF mode = "paged"
     THEN /\ stored = text
          /\ \E p \in Addressable(filePages), page \in Edits :
               edited' = [q \in DOMAIN edited \cup {p} |-> IF q = p THEN page ELSE edited[q]]
          /\ UNCHANGED <<filePages, stored>>
     ELSE /\ filePages' \in Files \ {filePages}
          /\ stored' = FlattenSeq(filePages') /\ UNCHANGED edited
  /\ task' = {[t EXCEPT !.stale = TRUE] : t \in task}
  /\ outdated' = TRUE /\ answer' = {}
  /\ UNCHANGED <<mode, prompt, found>>

\* Another process writes the file of a paged document.
FileChanges ==
  /\ mode = "paged" /\ stored = text /\ task # {}
  /\ stored' \in {FlattenSeq(f) : f \in Files} \ {text}
  /\ UNCHANGED <<mode, filePages, edited, prompt, found, task, answer, outdated>>

SearchNext ==
  \/ OpenPrompt \/ Type \/ Navigate \/ GotoLine \/ CancelSearch
  \/ StreamedStep \/ WorkerStep \/ Poll \/ DocumentChanges \/ FileChanges

SearchSpec == SearchInit /\ [][SearchNext]_searchVars

-----------------------------------------------------------------------------
(* Properties. *)

\* The document as the user sees it; a page that exists only after the end of
\* the file can be shown but not searched.
PageNumbers == 1..Len(filePages)
Shown == FlattenSeq([p \in PageNumbers |-> PageText(p)])
ShownStart(p) == Len(FlattenSeq([q \in 1..(p - 1) |-> PageText(q)]))

PlaceOf(at) ==
  LET p == Max({q \in PageNumbers : ShownStart(q) <= at})
      before == Within(Shown, ShownStart(p), at)
      line == IF Contains(before, "n") THEN Within(before, Max(Newlines(before)), Len(before))
              ELSE before
  IN  Place(PageStart(p), p, Cardinality(Newlines(before)), Scalars(line))

\* The match that a reader of the whole document would point at.
Wanted(request) ==
  LET all == Occurrences(request.query, Shown)
      eligible == {at \in all : \A a \in request.anchor : Passes(request, a, at)}
      pool == IF eligible = {} THEN all ELSE eligible
      at == IF request.direction = "Forward" THEN Min(pool) ELSE Max(pool)
  IN  IF all = {} THEN NotFound
      ELSE Found(at, IF mode = "paged" THEN PlaceOf(at) ELSE CursorAt(Shown, at))

\* The start of the line, or of the last line: on the next page if its newline
\* ends a page.
WantedLine(request) ==
  LET ends == {[page |-> p, at |-> i] : p \in PageNumbers, i \in Newlines(Shown)}
      own == {e \in ends : e.at > ShownStart(e.page) /\ e.at <= ShownStart(e.page) + Len(PageText(e.page))}
      line == Min({request.line, Cardinality(own) + 1})
      e == CHOOSE x \in own : Cardinality({y \in own : y.at <= x.at}) = line - 1
      inside == e.at - ShownStart(e.page)
      turns == inside = Len(PageText(e.page)) /\
                 (\/ e.page < Len(filePages)
                  \/ e.page \notin DOMAIN edited /\ FullPage(filePages[e.page]))
  IN  IF line = 1 THEN Line(Place(0, 1, 0, 0), 1)
      ELSE Line(IF turns THEN Place(PageEnd(e.page), e.page + 1, 0, 0)
                ELSE Place(PageStart(e.page), e.page,
                           Cardinality(Newlines(Upto(PageText(e.page), inside))), 0), line)

\* However a text is cut into segments, chunks and edited pages, the search
\* shows the match that a search of the whole document would, at its place; the
\* line scan shows the line; and an error means that the file changed or that
\* a page after its end was edited.
AnswerIsExact ==
  \A a \in answer :
    CASE a.result.kind = "Error" -> stored # text \/ (Len(filePages) + 1) \in DOMAIN edited
      [] a.stale \/ (a.result.kind = "NotFound" /\ stored # text) -> TRUE
      [] a.request.kind = "goto" -> a.result = WantedLine(a.request)
      [] OTHER -> a.result = Wanted(a.request)

\* The match on the screen is one of the query in the prompt.
MatchIsOfTheQuery ==
  \A f \in found, p \in prompt :
    ~outdated => IsPrefix(p.query, Within(Shown, f.at, Len(Shown)))

SearchIsExact == AnswerIsExact /\ MatchIsOfTheQuery
=============================================================================
