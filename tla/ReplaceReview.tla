---------------------------- MODULE ReplaceReview ----------------------------
(***************************************************************************)
(* Replacing matches one by one or all that remain (app/replace/review.rs) *)
(* with the bounded forward search that finds them                         *)
(* (editor/search/forward.rs): from the cursor to the end of the text,     *)
(* then from its start to where the review began, while every replacement  *)
(* moves what follows it.                                                  *)
(*                                                                         *)
(* Every byte of the text carries where it comes from: its index in the    *)
(* text the review began with, or 0 if it was put in by the review.        *)
(***************************************************************************)
EXTENDS Literal, Integers

CONSTANTS
  ReviewTexts,   \* texts a review may start on
  Finds, Withs,  \* what is looked for and what replaces it
  MaxBatch       \* how many matches a batch may hold (MAX_BATCH_MATCHES and
                 \* MAX_BATCH_EDIT_BYTES)

ASSUME ReviewAssumption ==
  /\ MaxBatch \in Nat \ {0}
  /\ \A f \in Finds : f # <<>> /\ f[1] # "C" /\ ~Contains(f, "n")

VARIABLES
  content,   \* the bytes of the buffer
  sources,   \* history variable: where each of them comes from
  review,    \* the review: a set of at most one
  reviewEnd,   \* how the last one ended, or "none"
  offered,   \* history variable: the matches offered, by the source of their start
  taken      \* history variable: the sources of the bytes of each replaced match

reviewVars == <<content, sources, review, reviewEnd, offered, taken>>

Covered(starts, find) ==
  UNION {start + 1..start + Len(find) : start \in starts}

-----------------------------------------------------------------------------
(* ForwardSearchTask: from `from`, and only matches that start before `stop`. *)

Scan(r, from, stop) ==
  [r EXCEPT !.from = from, !.stop = stop, !.matcher = Matcher(r.find), !.candidate = {}]

Reached(r) == r.from + r.matcher.processed
ReadEnd(r) == {stop + Len(r.find) - 1 : stop \in r.stop}

Exhausted(r) ==
  \/ \E stop \in r.stop : r.from >= stop
  \/ \E end \in ReadEnd(r) : Reached(r) >= end
  \/ Reached(r) >= Len(content)

\* text_segment: up to the end that is asked for, or of the scalar it cuts.
ReviewSegments(r) ==
  LET ends == {n \in Reached(r) + 1..Len(content) :
                 /\ Boundary(content, n)
                 /\ ~\E end \in ReadEnd(r), m \in Reached(r) + 1..n - 1 :
                        Boundary(content, m) /\ m >= end}
  IN  {Within(content, Reached(r), n) : n \in ends}

Limit(r) == IF r.all THEN MaxBatch ELSE 1
Matches(r, segment) ==
  {start \in {r.from + c : c \in Candidates(r.matcher, segment, {}, Limit(r))} :
     \A stop \in r.stop : start < stop}

-----------------------------------------------------------------------------
(* Review. *)

StopAtBoundary(r) == IF r.wrapped THEN {r.boundary} ELSE {}

\* Review.resume: once wrapped, up to where the review began and clear of the
\* first replacement.
StopBefore(r) ==
  IF ~r.wrapped THEN {}
  ELSE {Min({r.boundary} \cup {Max({0, f - (Len(r.find) - 1)}) : f \in r.first})}
Resume(r) == Scan(r, r.next, StopBefore(r))

\* Of overlapping matches a batch takes the first.
Disjoint(r, starts) ==
  LET Take(kept, start) ==
        IF start < r.next \/ \E k \in kept : start < k + Len(r.find) THEN kept
        ELSE kept \cup {start}
  IN  FoldLeft(Take, {}, SetToSortSeq(starts, <))

\* The bytes with each match replaced, and their sources.
Rewritten(bytes, starts, find, put) ==
  LET Part(i) == CASE i - 1 \in starts -> put
                   [] i \in Covered(starts, find) -> <<>>
                   [] OTHER -> <<bytes[i]>>
  IN  FlattenSeq([i \in DOMAIN bytes |-> Part(i)])

\* apply: the matches of a batch, in the coordinates the batch leaves behind.
AfterBatch(r, starts) ==
  LET delta == Len(r.with) - Len(r.find)
      shift == delta * Cardinality({s \in starts : s < r.boundary})
  IN  Resume([r EXCEPT
        !.first = IF r.wrapped THEN {Max({0, f + shift}) : f \in @}
                  ELSE IF @ = {} THEN {Min(starts)} ELSE @,
        !.boundary = Max({0, @ + shift}),
        !.next = Max(starts) + Len(r.find) + delta * Cardinality(starts),
        !.replaced = @ + Cardinality(starts)])

Replace(r, starts) ==
  /\ content' = Rewritten(content, starts, r.find, r.with)
  /\ sources' = Rewritten(sources, starts, r.find, [i \in DOMAIN r.with |-> 0])
  /\ taken' = taken \o [i \in 1..Cardinality(starts) |->
                          Within(sources, SetToSortSeq(starts, <)[i],
                                 SetToSortSeq(starts, <)[i] + Len(r.find))]

NotEnded == [how |-> "none", find |-> <<>>]
Finish(r, how) == review' = {} /\ reviewEnd' = [how |-> how, find |-> r.find]
Untouched == UNCHANGED <<content, sources, taken>>

-----------------------------------------------------------------------------
ReviewInit ==
  /\ content \in ReviewTexts
  /\ sources = [i \in DOMAIN content |-> i]
  /\ review = {} /\ reviewEnd = NotEnded /\ offered = <<>> /\ taken = <<>>

\* review::start, from the cursor or from the start of the text.
StartReview ==
  /\ review = {} /\ reviewEnd = NotEnded
  /\ \E find \in Finds, with \in Withs, all \in BOOLEAN :
       \E origin \in {n \in 0..Len(content) : Boundary(content, n) /\ (all => n = 0)} :
         review' = {[find |-> find, with |-> with, matcher |-> Matcher(find),
                     from |-> origin, stop |-> {}, candidate |-> {}, next |-> origin,
                     boundary |-> origin, first |-> {}, wrapped |-> FALSE, all |-> all,
                     replaced |-> 0, skipped |-> 0, stale |-> FALSE]}
  /\ UNCHANGED <<content, sources, reviewEnd, offered, taken>>

\* poll, a segment at a time.
PollReview ==
  \E r \in review :
    /\ ~r.stale /\ r.candidate = {}
    /\ \/ /\ Exhausted(r) /\ Untouched /\ UNCHANGED offered
          /\ IF r.wrapped \/ r.boundary = 0 THEN Finish(r, "complete")
             ELSE /\ review' = {Resume([r EXCEPT !.wrapped = TRUE, !.next = 0])}
                  /\ UNCHANGED reviewEnd
       \/ /\ ~Exhausted(r)
          /\ \E segment \in ReviewSegments(r) :
               LET starts == Matches(r, segment)
                   batch == Disjoint(r, starts)
                   after == AfterBatch(r, batch)
               IN  CASE starts = {} ->
                          /\ review' = {[r EXCEPT !.matcher = CommitSegment(@, segment)]}
                          /\ Untouched /\ UNCHANGED <<offered, reviewEnd>>
                     [] starts # {} /\ ~r.all ->
                          /\ review' = {[r EXCEPT !.candidate = {Min(starts)}]}
                          /\ offered' = Append(offered, sources[Min(starts) + 1])
                          /\ Untouched /\ UNCHANGED reviewEnd
                     [] OTHER ->
                          /\ Replace(r, batch) /\ UNCHANGED offered
                          /\ IF \/ r.wrapped /\ after.next >= after.boundary
                                \/ after.boundary = 0 /\ Len(content') = after.next
                             THEN Finish(r, "complete")
                             ELSE review' = {after} /\ UNCHANGED reviewEnd

\* A replacement that cannot be made ends the review.
ReplaceFails ==
  \E r \in review :
    /\ ~r.stale /\ r.find # r.with /\ (r.candidate # {} \/ r.all)
    /\ Finish(r, "failed") /\ Untouched /\ UNCHANGED offered

Accept ==
  \E r \in review : \E start \in r.candidate :
    /\ ~r.stale
    /\ Replace(r, {start}) /\ review' = {AfterBatch(r, {start})}
    /\ UNCHANGED <<reviewEnd, offered>>

FirstScalar(bytes) == IF Len(bytes) > 1 /\ bytes[2] = "C" THEN 2 ELSE 1
Skip ==
  \E r \in review : \E start \in r.candidate :
    /\ ~r.stale
    /\ review' = {Resume([r EXCEPT !.next = start + FirstScalar(r.find), !.skipped = @ + 1])}
    /\ Untouched /\ UNCHANGED <<reviewEnd, offered>>

Remaining ==
  \E r \in review :
    /\ ~r.stale
    /\ review' = {Resume([r EXCEPT !.all = TRUE,
                                   !.next = IF r.candidate = {} THEN @ ELSE Min(r.candidate)])}
    /\ Untouched /\ UNCHANGED <<reviewEnd, offered>>

CancelReview ==
  \E r \in review : ~r.stale /\ Finish(r, "cancelled") /\ Untouched /\ UNCHANGED offered

\* Something else changes the buffer; the review notices at its next turn.
SourceChanges ==
  /\ \E r \in review : ~r.stale /\ review' = {[r EXCEPT !.stale = TRUE]}
  /\ \E bytes \in ReviewTexts \ {content} :
       content' = bytes /\ sources' = [i \in DOMAIN bytes |-> i]
  /\ UNCHANGED <<reviewEnd, offered, taken>>
StopReview ==
  /\ \E r \in review : r.stale /\ Finish(r, "stopped")
  /\ Untouched /\ UNCHANGED offered

ReviewNext ==
  \/ StartReview \/ PollReview \/ ReplaceFails \/ Accept \/ Skip \/ Remaining
  \/ CancelReview \/ SourceChanges \/ StopReview

ReviewSpec == ReviewInit /\ [][ReviewNext]_reviewVars

-----------------------------------------------------------------------------
(* Properties. *)

\* Nothing that the review put in is replaced again, and no byte twice.
ReplacedOnce ==
  \A i, j \in DOMAIN taken :
    /\ 0 \notin Range(taken[i])
    /\ i # j => Range(taken[i]) \cap Range(taken[j]) = {}

OfferedOnce == IsInjective(offered) /\ 0 \notin Range(offered)

\* After a complete review, what is left of the original text and still matches
\* was offered and skipped.
LeftWasSkipped ==
  reviewEnd.how = "complete" =>
    \A at \in Occurrences(reviewEnd.find, content) :
      LET own == Within(sources, at, at + Len(reviewEnd.find))
      IN  (\A i \in DOMAIN own : own[i] # 0 /\ own[i] = own[1] + i - 1)
            => own[1] \in Range(offered)

ReviewIsExact == ReplacedOnce /\ OfferedOnce /\ LeftWasSkipped
=============================================================================
