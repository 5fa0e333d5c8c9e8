---------------------------- MODULE EditingProofs ----------------------------
(***************************************************************************)
(* The cursor and the selection stay between two graphemes, whatever the   *)
(* keys do to the text, and lines cut one after the other come back with   *)
(* one paste, for any documents, any scalars typed and any texts pasted.   *)
(***************************************************************************)
EXTENDS Editing, FoldFacts, FiniteSetTheorems, TLAPS

Document == Seq(LineText) \ {<<>>}

-----------------------------------------------------------------------------
(* Splitting a text into lines. *)

LEMMA ScalarFacts == "n" \in Scalar /\ "s" \in Scalar /\ "s" # "n"
  BY EditAssumption

LEMMA LineIsText ==
  ASSUME NEW line \in LineText
  PROVE  line \in Seq(Scalar)
  BY SeqMonotonic DEF LineText

LEMMA RowsAdd ==
  ASSUME NEW rows \in Document, NEW s \in Scalar
  PROVE  AddScalar(rows, s) \in Document
<1>1. rows \in Seq(LineText) /\ Len(rows) \in Nat \ {0} /\ Len(rows) \in 1..Len(rows)
  BY EmptySeq DEF Document
<1>2. CASE s = "n"
  <2>1. <<>> \in LineText
    BY EmptySeq DEF LineText
  <2> QED
    BY <1>1, <1>2, <2>1, AppendProperties DEF AddScalar, Document
<1>3. CASE s # "n"
  <2> DEFINE more == Append(rows[Len(rows)], s)
  <2>1. rows[Len(rows)] \in LineText
    BY <1>1, ElementOfSeq
  <2>2. more \in LineText
    BY <1>3, <2>1, AppendProperties DEF LineText
  <2>3. AddScalar(rows, s) = [rows EXCEPT ![Len(rows)] = more]
    BY <1>3 DEF AddScalar
  <2> HIDE DEF more
  <2>4. /\ [rows EXCEPT ![Len(rows)] = more] \in Seq(LineText)
        /\ Len([rows EXCEPT ![Len(rows)] = more]) = Len(rows)
    BY <1>1, <2>2, ExceptSeq
  <2>5. [rows EXCEPT ![Len(rows)] = more] # <<>>
    BY <1>1, <2>4, EmptySeq
  <2> QED
    BY <2>3, <2>4, <2>5 DEF Document
<1> QED
  BY <1>2, <1>3

\* What SplitLines computes, scalar by scalar.
Splits(f, text) ==
  f[0] = << <<>> >> /\ \A k \in 1..Len(text) : f[k] = AddScalar(f[k - 1], text[k])

LEMMA SplitFold ==
  ASSUME NEW text \in Seq(Scalar)
  PROVE  \E f \in [0..Len(text) -> Document] : Splits(f, text) /\ SplitLines(text) = f[Len(text)]
<1> DEFINE n == Len(text)
           first == << <<>> >>
           G == [k \in 1..n |-> [a \in Document |-> AddScalar(a, text[k])]]
           Step(f, k) == IF k = 0 THEN << <<>> >> ELSE AddScalar(f[k - 1], text[k])
           rows == CHOOSE f : f = [k \in 0..n |-> Step(f, k)]
<1>1. n \in Nat
  BY LenProperties
<1>2. first \in Document
  <2>1. <<>> \in LineText
    BY EmptySeq DEF LineText
  <2>2. <<>> \in Seq(LineText) /\ Append(<<>>, <<>>) = << <<>> >>
    BY EmptySeq
  <2> QED
    BY <2>1, <2>2, AppendProperties DEF Document
<1>3. G \in [1..n -> [Document -> Document]]
  <2>1. \A k \in 1..n : text[k] \in Scalar
    BY ElementOfSeq
  <2>2. \A k \in 1..n, a \in Document : AddScalar(a, text[k]) \in Document
    BY <2>1, RowsAdd
  <2> HIDE DEF n
  <2> QED
    BY <2>2
<1>4. PICK f \in [0..n -> Document] : Folds(f, first, G, n)
  <2> HIDE DEF G, n, first
  <2> QED
    BY <1>1, <1>2, <1>3, FoldExists
<1>5. f[0] = << <<>> >>
  BY <1>4 DEF Folds
<1>6. ASSUME NEW k \in 1..n
      PROVE  f[k] = AddScalar(f[k - 1], text[k])
  <2>1. k - 1 \in 0..n
    BY <1>1
  <2>2. f[k - 1] \in Document /\ f[k] = G[k][f[k - 1]]
    BY <1>4, <2>1 DEF Folds
  <2> HIDE DEF n
  <2> QED
    BY <2>2
<1>7. f = [k \in 0..n |-> Step(f, k)]
  <2>1. \A k \in 0..n : f[k] = Step(f, k)
    <3> SUFFICES ASSUME NEW k \in 0..n
                 PROVE  f[k] = Step(f, k)
      OBVIOUS
    <3>1. CASE k = 0
      BY <1>5, <3>1
    <3>2. CASE k # 0
      <4>1. k \in 1..n
        BY <1>1, <3>2
      <4> QED
        BY <1>6, <3>2, <4>1
    <3> QED
      BY <3>1, <3>2
  <2> QED
    BY <1>4, <2>1
<1>8. rows = [k \in 0..n |-> Step(rows, k)]
  BY <1>7, Zenon
<1>9. SplitLines(text) = rows[n]
  BY DEF SplitLines
<1>10. rows[0] = << <<>> >> /\ \A k \in 1..n : rows[k] = AddScalar(rows[k - 1], text[k])
  <2> HIDE DEF rows, n
  <2>1. ASSUME NEW k \in 0..n
        PROVE  rows[k] = Step(rows, k)
    BY <1>8
  <2>2. 0 \in 0..n /\ \A k \in 1..n : k \in 0..n /\ k # 0
    BY <1>1
  <2> QED
    BY <2>1, <2>2
<1>11. \A k \in 0..n : rows[k] = f[k]
  <2> HIDE DEF rows, n
  <2>1. ASSUME NEW k \in 1..n, rows[k - 1] = f[k - 1]
        PROVE  rows[k] = f[k]
    BY <1>6, <1>10, <2>1
  <2>2. InStep(rows, f, n)
    BY <1>5, <1>10, <2>1 DEF InStep
  <2> QED
    BY <1>1, <2>2, Agree
<1>12. Splits(f, text)
  BY <1>5, <1>6 DEF Splits
<1>13. n \in 0..n
  BY <1>1
<1> QED
  BY <1>4, <1>9, <1>11, <1>12, <1>13

LEMMA SplitIsDocument ==
  ASSUME NEW text \in Seq(Scalar)
  PROVE  SplitLines(text) \in Document
<1>1. PICK f \in [0..Len(text) -> Document] : SplitLines(text) = f[Len(text)]
  BY SplitFold
<1>2. Len(text) \in 0..Len(text)
  BY LenProperties
<1> QED
  BY <1>1, <1>2

LEMMA SplitEmpty == SplitLines(<<>>) = << <<>> >>
<1>1. <<>> \in Seq(Scalar) /\ Len(<<>>) = 0
  BY EmptySeq
<1>2. PICK f \in [0..Len(<<>>) -> Document] : Splits(f, <<>>) /\ SplitLines(<<>>) = f[Len(<<>>)]
  BY <1>1, SplitFold
<1> QED
  BY <1>1, <1>2 DEF Splits

LEMMA SplitAppend ==
  ASSUME NEW text \in Seq(Scalar), NEW s \in Scalar
  PROVE  SplitLines(Append(text, s)) = AddScalar(SplitLines(text), s)
<1> DEFINE u == Append(text, s)
           n == Len(text)
<1>1. /\ u \in Seq(Scalar) /\ n \in Nat /\ Len(u) = n + 1 /\ u[n + 1] = s
      /\ \A k \in 1..n : u[k] = text[k]
  BY AppendAt
<1>2. PICK f \in [0..n -> Document] : Splits(f, text) /\ SplitLines(text) = f[n]
  BY SplitFold
<1> HIDE DEF u
<1>3. PICK g \in [0..Len(u) -> Document] : Splits(g, u) /\ SplitLines(u) = g[Len(u)]
  BY <1>1, SplitFold
<1>4. ASSUME NEW k \in 1..n, f[k - 1] = g[k - 1]
      PROVE  f[k] = g[k]
  <2>1. k \in 1..Len(u)
    BY <1>1
  <2> QED
    BY <1>1, <1>2, <1>3, <1>4, <2>1 DEF Splits
<1>5. f[n] = g[n]
  <2>1. InStep(f, g, n)
    BY <1>2, <1>3, <1>4 DEF InStep, Splits
  <2>2. n \in 0..n
    BY <1>1
  <2>3. n \in Nat
    BY <1>1
  <2> HIDE DEF n
  <2>4. \A k \in 0..n : f[k] = g[k]
    BY <2>1, <2>3, Agree
  <2> QED
    BY <2>2, <2>4
<1>6. n + 1 \in 1..Len(u) /\ (n + 1) - 1 = n
  BY <1>1
<1>7. g[n + 1] = AddScalar(g[n], s)
  BY <1>1, <1>3, <1>6 DEF Splits
<1> QED
  BY <1>1, <1>2, <1>3, <1>5, <1>7 DEF u

\* A line is not split.
LEMMA SplitLine ==
  ASSUME NEW line \in LineText
  PROVE  SplitLines(line) = <<line>>
<1> DEFINE T == {l \in LineText : SplitLines(l) = <<l>>}
<1>1. <<>> \in T
  BY EmptySeq, SplitEmpty DEF LineText
<1>2. ASSUME NEW l \in LineText, NEW s \in Scalar \ {"n"}, l \in T
      PROVE  Append(l, s) \in T
  <2>1. SplitLines(Append(l, s)) = AddScalar(<<l>>, s)
    BY <1>2, LineIsText, SplitAppend
  <2>2. AddScalar(<<l>>, s) = <<Append(l, s)>>
    BY DEF AddScalar
  <2>3. Append(l, s) \in LineText
    BY AppendProperties DEF LineText
  <2> QED
    BY <2>1, <2>2, <2>3
<1> HIDE DEF T
<1>3. Seq(Scalar \ {"n"}) \subseteq T
  BY <1>1, <1>2, SeqInduction DEF LineText
<1> QED
  BY <1>3 DEF LineText, T

\* What follows the end of a line is another line.
LEMMA SplitTwo ==
  ASSUME NEW text \in Seq(Scalar), NEW line \in LineText
  PROVE  /\ (text \o <<"n">>) \o line \in Seq(Scalar)
         /\ SplitLines((text \o <<"n">>) \o line) = Append(SplitLines(text), line)
<1> DEFINE ended == text \o <<"n">>
           T == {l \in LineText : SplitLines(ended \o l) = Append(SplitLines(text), l)}
<1>1. <<"n">> \in Seq(Scalar) /\ ended = Append(text, "n") /\ ended \in Seq(Scalar)
  <2>1. <<"n">> = Append(<<>>, "n") /\ <<>> \in Seq(Scalar)
    BY EmptySeq
  <2> QED
    BY <2>1, ScalarFacts, AppendProperties, AppendIsConcat
<1>2. SplitLines(text) \in Seq(LineText)
  BY SplitIsDocument DEF Document
<1>3. <<>> \in T
  <2>1. ended \o <<>> = ended
    BY <1>1, ConcatEmptySeq
  <2>2. SplitLines(ended) = Append(SplitLines(text), <<>>)
    BY <1>1, ScalarFacts, SplitAppend DEF AddScalar
  <2> QED
    BY <2>1, <2>2, EmptySeq DEF LineText
<1> HIDE DEF ended
<1>4. ASSUME NEW l \in LineText, NEW s \in Scalar \ {"n"}, l \in T
      PROVE  Append(l, s) \in T
  <2> DEFINE rows == Append(SplitLines(text), l)
  <2>1. l \in Seq(Scalar) /\ ended \o Append(l, s) = Append(ended \o l, s) /\ ended \o l \in Seq(Scalar)
    BY <1>1, LineIsText, ConcatAppend
  <2>2. SplitLines(ended \o Append(l, s)) = AddScalar(rows, s)
    BY <1>4, <2>1, SplitAppend
  <2>3. Append(l, s) \in LineText
    BY AppendProperties DEF LineText
  <2>4. /\ rows \in Seq(LineText) /\ Len(rows) = Len(SplitLines(text)) + 1 /\ rows[Len(rows)] = l
        /\ Len(SplitLines(text)) \in Nat
        /\ \A k \in 1..Len(SplitLines(text)) : rows[k] = SplitLines(text)[k]
    BY <1>2, AppendAt
  <2>5. AddScalar(rows, s) = [rows EXCEPT ![Len(rows)] = Append(l, s)]
    BY <2>4 DEF AddScalar
  <2> DEFINE done == Append(SplitLines(text), Append(l, s))
  <2>6. /\ done \in Seq(LineText) /\ Len(done) = Len(SplitLines(text)) + 1
        /\ done[Len(SplitLines(text)) + 1] = Append(l, s)
        /\ \A k \in 1..Len(SplitLines(text)) : done[k] = SplitLines(text)[k]
    BY <1>2, <2>3, AppendAt
  <2> HIDE DEF rows, done
  <2>7. [rows EXCEPT ![Len(rows)] = Append(l, s)] = done
    <3> DEFINE e == [rows EXCEPT ![Len(rows)] = Append(l, s)]
    <3>1. Len(rows) \in 1..Len(rows)
      BY <2>4
    <3>2. /\ e \in Seq(LineText) /\ Len(e) = Len(rows)
          /\ \A j \in 1..Len(rows) : e[j] = IF j = Len(rows) THEN Append(l, s) ELSE rows[j]
      BY <2>3, <2>4, <3>1, ExceptSeq
    <3> HIDE DEF e
    <3>3. Len(e) = Len(done) /\ \A j \in 1..Len(e) : e[j] = done[j]
      <4> SUFFICES ASSUME NEW j \in 1..Len(e)
                   PROVE  e[j] = done[j]
        BY <2>4, <2>6, <3>2
      <4>1. CASE j = Len(rows)
        BY <2>4, <2>6, <3>2, <4>1
      <4>2. CASE j # Len(rows)
        <5>1. j \in 1..Len(SplitLines(text))
          BY <2>4, <3>2, <4>2
        <5> QED
          BY <2>4, <2>6, <3>2, <4>2, <5>1
      <4> QED
        BY <4>1, <4>2
    <3> QED
      BY <2>6, <3>2, <3>3, SeqEqual DEF e
  <2> QED
    BY <2>2, <2>3, <2>5, <2>7 DEF done
<1>5. ended \o line \in Seq(Scalar)
  BY <1>1, LineIsText, ConcatProperties
<1>6. Seq(Scalar \ {"n"}) \subseteq T
  <2> HIDE DEF T
  <2> QED
    BY <1>3, <1>4, SeqInduction DEF LineText
<1> QED
  BY <1>5, <1>6 DEF LineText, ended

-----------------------------------------------------------------------------
(* The least and the greatest of some numbers. *)

LEMMA MinIn ==
  ASSUME NEW S \in SUBSET Nat, S # {}
  PROVE  Min(S) \in S /\ \A y \in S : Min(S) <= y
<1>1. PICK x \in S : \A y \in S : ~(<<y, x>> \in OpToRel(<, Nat))
  BY NatLessThanWellFounded, WFMin
<1>2. \A y \in S : x <= y
  <2> SUFFICES ASSUME NEW y \in S, ~(x <= y)
               PROVE  FALSE
    OBVIOUS
  <2>1. x \in Nat /\ y \in Nat /\ y < x
    OBVIOUS
  <2>2. <<y, x>> \in OpToRel(<, Nat)
    BY <2>1, Zenon DEF OpToRel
  <2> QED
    BY <1>1, <2>2
<1> QED
  BY <1>2 DEF Min

LEMMA MaxIn ==
  ASSUME NEW S \in SUBSET Nat, S # {}, NEW n \in Nat, \A y \in S : y <= n
  PROVE  Max(S) \in S /\ \A y \in S : y <= Max(S)
<1> DEFINE D == {n - y : y \in S}
<1>1. D \in SUBSET Nat /\ D # {}
  <2>1. \A y \in S : n - y \in Nat
    OBVIOUS
  <2>2. PICK y \in S : TRUE
    OBVIOUS
  <2>3. n - y \in D
    BY <2>2
  <2> QED
    BY <2>1, <2>3
<1>2. Min(D) \in D /\ \A d \in D : Min(D) <= d
  <2> HIDE DEF D
  <2> QED
    BY <1>1, MinIn
<1>3. PICK x \in S : Min(D) = n - x
  BY <1>2
<1>4. \A y \in S : x >= y
  BY <1>2, <1>3
<1>5. Max(S) \in S /\ \A y \in S : Max(S) >= y
  BY <1>4, Zenon DEF Max
<1>6. Max(S) \in Nat
  BY <1>5
<1> QED
  BY <1>5, <1>6

-----------------------------------------------------------------------------
(* Graphemes. *)

\* Where a grapheme of a line begins, or the line ends.
Edges(line) == Starts(line) \cup {Len(line)}

LEMMA EdgesOf ==
  ASSUME NEW S, NEW line \in Seq(S)
  PROVE  /\ Len(line) \in Nat /\ Edges(line) \subseteq 0..Len(line)
         /\ Starts(line) \subseteq 0..Len(line) - 1
         /\ 0 \in Edges(line) /\ Len(line) \in Edges(line) /\ (line # <<>> => 0 \in Starts(line))
<1>1. Len(line) \in Nat /\ (line # <<>> => Len(line) # 0) /\ (line = <<>> => Len(line) = 0)
  BY EmptySeq, LenProperties
<1> QED
  BY <1>1 DEF Edges, Starts

LEMMA EndIsEdge ==
  ASSUME NEW S, NEW line \in Seq(S), NEW from \in Nat, from <= Len(line)
  PROVE  /\ GraphemeEnd(line, from) \in Edges(line)
         /\ from < Len(line) => from < GraphemeEnd(line, from)
<1> DEFINE E == {at \in Starts(line) : at > from} \cup {Len(line)}
<1>1. E \in SUBSET Nat /\ E # {} /\ E \subseteq Edges(line)
  BY EdgesOf DEF Edges
<1>2. Min(E) \in E
  <2> HIDE DEF E
  <2> QED
    BY <1>1, MinIn
<1> QED
  BY <1>1, <1>2 DEF GraphemeEnd

LEMMA StartIsEdge ==
  ASSUME NEW S, NEW line \in Seq(S), NEW at \in Nat, at < Len(line)
  PROVE  GraphemeStart(line, at) \in Starts(line) /\ GraphemeStart(line, at) <= at
<1> DEFINE E == {from \in Starts(line) : from <= at}
<1>1. line # <<>>
  BY EmptySeq, LenProperties
<1>2. E \in SUBSET Nat /\ E # {} /\ \A y \in E : y <= at
  BY <1>1, EdgesOf
<1>3. Max(E) \in E
  <2> HIDE DEF E
  <2> QED
    BY <1>2, MaxIn
<1> QED
  BY <1>3 DEF GraphemeStart

\* Both ends of a range of graphemes are edges.
LEMMA RangeIsEdges ==
  ASSUME NEW S, NEW line \in Seq(S), NEW col \in Nat
  PROVE  /\ GraphemeRange(line, col).from \in Edges(line)
         /\ GraphemeRange(line, col).to \in Edges(line)
         /\ GraphemeRange(line, col).from = GraphemeRange(line, col).to => col >= Len(line)
<1>1. Len(line) \in Nat
  BY LenProperties
<1>2. CASE col >= Len(line)
  BY <1>2 DEF GraphemeRange, Edges
<1>3. CASE ~(col >= Len(line))
  <2>1. col < Len(line) /\ col <= Len(line)
    BY <1>1, <1>3
  <2>2. /\ GraphemeStart(line, col) \in Starts(line) /\ GraphemeStart(line, col) <= col
        /\ GraphemeEnd(line, col) \in Edges(line) /\ col < GraphemeEnd(line, col)
    BY <2>1, StartIsEdge, EndIsEdge
  <2>3. GraphemeStart(line, col) # GraphemeEnd(line, col)
    BY <1>1, <2>2, EdgesOf
  <2> QED
    BY <1>3, <2>2, <2>3 DEF GraphemeRange, Edges
<1> QED
  BY <1>2, <1>3

LEMMA StartsAreStarts ==
  ASSUME NEW S, NEW line \in Seq(S)
  PROVE  StartsInOrder(line) \in Seq(Starts(line))
<1> DEFINE n == Len(line)
           A == Seq(Starts(line))
           Next1(a, k) == IF k = 1 \/ ~Joined(line, k - 1) THEN Append(a, k - 1) ELSE a
           G == [k \in 1..n |-> [a \in A |-> Next1(a, k)]]
           Step(f, k) == IF k = 0 THEN <<>>
                         ELSE IF k = 1 \/ ~Joined(line, k - 1) THEN Append(f[k - 1], k - 1)
                              ELSE f[k - 1]
           found == CHOOSE f : f = [k \in 0..n |-> Step(f, k)]
<1>1. n \in Nat /\ <<>> \in A
  BY EmptySeq, LenProperties
<1>2. ASSUME NEW k \in 1..n, NEW a \in A
      PROVE  Next1(a, k) \in A
  <2>1. CASE k = 1 \/ ~Joined(line, k - 1)
    <3>1. k - 1 \in Starts(line)
      BY <1>1, <2>1 DEF Starts
    <3> QED
      BY <2>1, <3>1, AppendProperties
  <2>2. CASE ~(k = 1 \/ ~Joined(line, k - 1))
    BY <2>2
  <2> QED
    BY <2>1, <2>2
<1>3. G \in [1..n -> [A -> A]]
  <2> HIDE DEF n, A, Next1
  <2> QED
    BY <1>2
<1>4. PICK f \in [0..n -> A] : Folds(f, <<>>, G, n)
  <2> HIDE DEF G, n, A
  <2> QED
    BY <1>1, <1>3, FoldExists
<1>5. f[0] = <<>>
  BY <1>4 DEF Folds
<1>6. ASSUME NEW k \in 1..n
      PROVE  f[k] = Next1(f[k - 1], k)
  <2>1. k - 1 \in 0..n
    BY <1>1
  <2>2. f[k - 1] \in A /\ f[k] = G[k][f[k - 1]]
    BY <1>4, <2>1 DEF Folds
  <2> HIDE DEF n, A, Next1
  <2> QED
    BY <2>2
<1>7. f = [k \in 0..n |-> Step(f, k)]
  <2>1. \A k \in 0..n : f[k] = Step(f, k)
    <3> SUFFICES ASSUME NEW k \in 0..n
                 PROVE  f[k] = Step(f, k)
      OBVIOUS
    <3>1. CASE k = 0
      BY <1>5, <3>1
    <3>2. CASE k # 0
      <4>1. k \in 1..n
        BY <1>1, <3>2
      <4> QED
        BY <1>6, <3>2, <4>1
    <3> QED
      BY <3>1, <3>2
  <2> QED
    BY <1>4, <2>1
<1>8. found = [k \in 0..n |-> Step(found, k)]
  BY <1>7, Zenon
<1>9. StartsInOrder(line) = found[n]
  BY DEF StartsInOrder
<1>10. found[0] = <<>> /\ \A k \in 1..n : found[k] = Next1(found[k - 1], k)
  <2> HIDE DEF found, n
  <2>1. ASSUME NEW k \in 0..n
        PROVE  found[k] = Step(found, k)
    BY <1>8
  <2>2. 0 \in 0..n /\ \A k \in 1..n : k \in 0..n /\ k # 0
    BY <1>1
  <2> QED
    BY <2>1, <2>2
<1>11. \A k \in 0..n : found[k] = f[k]
  <2> HIDE DEF found, n, Next1
  <2>1. ASSUME NEW k \in 1..n, found[k - 1] = f[k - 1]
        PROVE  found[k] = f[k]
    BY <1>6, <1>10, <2>1
  <2>2. InStep(found, f, n)
    BY <1>5, <1>10, <2>1 DEF InStep
  <2> QED
    BY <1>1, <2>2, Agree
<1>12. n \in 0..n
  BY <1>1
<1> QED
  BY <1>4, <1>9, <1>11, <1>12

LEMMA GraphemesAreRanges ==
  ASSUME NEW S, NEW line \in Seq(S)
  PROVE  Graphemes(line) \in Seq([from : Starts(line), to : Edges(line)])
<1> DEFINE s == StartsInOrder(line)
           G == [from : Starts(line), to : Edges(line)]
<1>1. s \in Seq(Starts(line)) /\ Len(s) \in Nat /\ DOMAIN s = 1..Len(s)
  BY StartsAreStarts, LenProperties
<1>2. ASSUME NEW k \in DOMAIN s
      PROVE  [from |-> s[k], to |-> IF k = Len(s) THEN Len(line) ELSE s[k + 1]] \in G
  <2>1. s[k] \in Starts(line)
    BY <1>1, ElementOfSeq
  <2>2. k # Len(s) => k + 1 \in 1..Len(s)
    BY <1>1
  <2>3. k # Len(s) => s[k + 1] \in Starts(line)
    BY <1>1, <2>2, ElementOfSeq
  <2> QED
    BY <2>1, <2>3 DEF Edges
<1>3. Graphemes(line) = [k \in 1..Len(s) |->
          [from |-> s[k], to |-> IF k = Len(s) THEN Len(line) ELSE s[k + 1]]]
  BY <1>1 DEF Graphemes, Ranges
<1> HIDE DEF s, G
<1>4. Graphemes(line) \in [1..Len(s) -> G]
  BY <1>1, <1>2, <1>3
<1>5. Graphemes(line) \in Seq(G)
  BY <1>1, <1>4, SeqDef
<1> QED
  BY <1>5 DEF G

-----------------------------------------------------------------------------
(* Cells. *)

LEMMA WidthIsNat ==
  ASSUME NEW S, NEW text \in Seq(S), NEW cell \in Nat
  PROVE  GraphemeWidth(text, cell) \in Nat
<1>1. CASE text = <<"t">>
  <2>1. cell % TabWidth \in 0..TabWidth - 1
    BY TabAssumption
  <2> QED
    BY <1>1, <2>1, TabAssumption DEF GraphemeWidth
<1>2. CASE text # <<"t">>
  <2> DEFINE C == {k \in (DOMAIN text) \X {1, 2} : k[2] <= ScalarWidth(text[k[1]])}
  <2>1. IsFiniteSet(DOMAIN text)
    BY LenProperties, FS_Interval
  <2>2. IsFiniteSet({1, 2})
    <3>1. {1, 2} = 1..2
      OBVIOUS
    <3>2. 1 \in Int /\ 2 \in Int
      OBVIOUS
    <3>3. IsFiniteSet(1..2)
      BY <3>2, FS_Interval, Zenon
    <3> QED
      BY <3>1, <3>3
  <2>3. IsFiniteSet((DOMAIN text) \X {1, 2})
    BY <2>1, <2>2, FS_Product
  <2>4. IsFiniteSet(C) /\ C \in SUBSET ((DOMAIN text) \X {1, 2})
    BY <2>3, FS_Subset
  <2>5. GraphemeWidth(text, cell) = Cardinality(C)
    BY <1>2 DEF GraphemeWidth
  <2> HIDE DEF C
  <2> QED
    BY <2>4, <2>5, FS_CardinalityType
<1> QED
  BY <1>1, <1>2

PlacedIn(line) == [from : Starts(line), to : Edges(line), cell : Nat, cellEnd : Nat]

LEMMA PlacedNext ==
  ASSUME NEW S, NEW line \in Seq(S), NEW placed \in Seq(PlacedIn(line)),
         NEW g \in [from : Starts(line), to : Edges(line)]
  PROVE  GraphemePlaced(placed, g, CellsEnd(placed, 0), Slice(line, g.from, g.to))
           \in Seq(PlacedIn(line))
<1>1. CellsEnd(placed, 0) \in Nat
  <2>1. CASE placed = <<>>
    BY <2>1 DEF CellsEnd
  <2>2. CASE placed # <<>>
    <3>1. Last(placed) \in PlacedIn(line)
      BY <2>2, FrontAt
    <3> QED
      BY <2>2, <3>1 DEF CellsEnd, PlacedIn
  <2> QED
    BY <2>1, <2>2
<1>2. Slice(line, g.from, g.to) \in Seq(S)
  <2>1. g.from \in 0..Len(line) - 1 /\ g.to \in 0..Len(line) /\ Len(line) \in Nat
    BY EdgesOf
  <2>2. \A i \in g.from + 1..g.to : line[i] \in S
    <3>1. \A i \in g.from + 1..g.to : i \in 1..Len(line)
      BY <2>1
    <3> QED
      BY <3>1, ElementOfSeq
  <2> QED
    BY <2>1, <2>2, SubSeqProperties DEF Slice
<1> DEFINE cell == CellsEnd(placed, 0)
           text == Slice(line, g.from, g.to)
           new == [from |-> g.from, to |-> g.to, cell |-> cell,
                   cellEnd |-> cell + GraphemeWidth(text, cell)]
<1>3. GraphemeWidth(text, cell) \in Nat
  BY <1>1, <1>2, WidthIsNat
<1>4. new \in PlacedIn(line)
  BY <1>1, <1>3 DEF PlacedIn
<1>5. GraphemePlaced(placed, g, cell, text) = Append(placed, new)
  BY DEF GraphemePlaced
<1> HIDE DEF new, cell, text
<1> QED
  BY <1>4, <1>5, AppendProperties DEF cell, text

LEMMA LaidOutIsPlaced ==
  ASSUME NEW S, NEW line \in Seq(S)
  PROVE  LaidOut(line, 0) \in Seq(PlacedIn(line))
<1> DEFINE gs == Graphemes(line)
           n == Len(gs)
           A == Seq(PlacedIn(line))
           Next1(a, k) == GraphemePlaced(a, gs[k], CellsEnd(a, 0), Slice(line, gs[k].from, gs[k].to))
           G == [k \in 1..n |-> [a \in A |-> Next1(a, k)]]
           Step(f, k) == IF k = 0 THEN <<>>
                         ELSE GraphemePlaced(f[k - 1], gs[k], CellsEnd(f[k - 1], 0),
                                             Slice(line, gs[k].from, gs[k].to))
           placed == CHOOSE f : f = [k \in 0..n |-> Step(f, k)]
<1>1. /\ gs \in Seq([from : Starts(line), to : Edges(line)]) /\ n \in Nat /\ <<>> \in A
      /\ \A k \in 1..n : gs[k] \in [from : Starts(line), to : Edges(line)]
  BY EmptySeq, LenProperties, ElementOfSeq, GraphemesAreRanges
<1>2. ASSUME NEW k \in 1..n, NEW a \in A
      PROVE  Next1(a, k) \in A
  <2>1. gs[k] \in [from : Starts(line), to : Edges(line)]
    BY <1>1
  <2> HIDE DEF gs
  <2> QED
    BY <2>1, PlacedNext
<1>3. G \in [1..n -> [A -> A]]
  <2> HIDE DEF n, A, Next1
  <2> QED
    BY <1>2
<1>4. PICK f \in [0..n -> A] : Folds(f, <<>>, G, n)
  <2> HIDE DEF G, n, A
  <2> QED
    BY <1>1, <1>3, FoldExists
<1>5. f[0] = <<>>
  BY <1>4 DEF Folds
<1>6. ASSUME NEW k \in 1..n
      PROVE  f[k] = Next1(f[k - 1], k)
  <2>1. k - 1 \in 0..n
    BY <1>1
  <2>2. f[k - 1] \in A /\ f[k] = G[k][f[k - 1]]
    BY <1>4, <2>1 DEF Folds
  <2> HIDE DEF n, A, Next1
  <2> QED
    BY <2>2
<1>7. f = [k \in 0..n |-> Step(f, k)]
  <2>1. \A k \in 0..n : f[k] = Step(f, k)
    <3> SUFFICES ASSUME NEW k \in 0..n
                 PROVE  f[k] = Step(f, k)
      OBVIOUS
    <3>1. CASE k = 0
      BY <1>5, <3>1
    <3>2. CASE k # 0
      <4>1. k \in 1..n
        BY <1>1, <3>2
      <4> QED
        BY <1>6, <3>2, <4>1
    <3> QED
      BY <3>1, <3>2
  <2> QED
    BY <1>4, <2>1
<1>8. placed = [k \in 0..n |-> Step(placed, k)]
  BY <1>7, Zenon
<1>9. LaidOut(line, 0) = placed[n]
  BY DEF LaidOut
<1>10. placed[0] = <<>> /\ \A k \in 1..n : placed[k] = Next1(placed[k - 1], k)
  <2> HIDE DEF placed, n
  <2>1. ASSUME NEW k \in 0..n
        PROVE  placed[k] = Step(placed, k)
    BY <1>8
  <2>2. 0 \in 0..n /\ \A k \in 1..n : k \in 0..n /\ k # 0
    BY <1>1
  <2> QED
    BY <2>1, <2>2
<1>11. \A k \in 0..n : placed[k] = f[k]
  <2> HIDE DEF placed, n, Next1
  <2>1. ASSUME NEW k \in 1..n, placed[k - 1] = f[k - 1]
        PROVE  placed[k] = f[k]
    BY <1>6, <1>10, <2>1
  <2>2. InStep(placed, f, n)
    BY <1>5, <1>10, <2>1 DEF InStep
  <2> QED
    BY <1>1, <2>2, Agree
<1>12. n \in 0..n
  BY <1>1
<1> QED
  BY <1>4, <1>9, <1>11, <1>12

\* The column of a cell is an edge.
LEMMA CellIsEdge ==
  ASSUME NEW S, NEW line \in Seq(S), NEW cell \in Nat
  PROVE  ScalarAtCell(line, cell) \in Edges(line)
<1> DEFINE placed == LaidOut(line, 0)
           E == {0} \cup {g.to : g \in {h \in Range(placed) : h.cellEnd <= cell}}
<1>1. Range(placed) \subseteq PlacedIn(line)
  BY LaidOutIsPlaced, RangeOfSeq
<1>2. E \subseteq Edges(line) /\ E \in SUBSET Nat /\ E # {} /\ \A y \in E : y <= Len(line)
  <2>1. E \subseteq Edges(line)
    BY <1>1, EdgesOf DEF PlacedIn
  <2> HIDE DEF E
  <2>2. 0 \in E
    BY DEF E
  <2> QED
    BY <2>1, <2>2, EdgesOf
<1>3. Max(E) \in E
  <2> HIDE DEF E
  <2> QED
    BY <1>2, EdgesOf, MaxIn
<1> QED
  BY <1>2, <1>3 DEF ScalarAtCell

\* The cells of a sequence end somewhere.
LEMMA CellsBounded ==
  ASSUME NEW S, NEW line \in Seq(S), NEW placed \in Seq(PlacedIn(line))
  PROVE  \E n \in Nat : \A k \in 1..Len(placed) : placed[k].cellEnd <= n
<1> DEFINE Ends(s) == \E n \in Nat : \A k \in 1..Len(s) : s[k].cellEnd <= n
           T == {s \in Seq(PlacedIn(line)) : Ends(s)}
<1>1. <<>> \in T
  <2>1. <<>> \in Seq(PlacedIn(line)) /\ Len(<<>>) = 0
    BY EmptySeq
  <2>2. 0 \in Nat /\ \A k \in 1..Len(<<>>) : FALSE
    BY <2>1
  <2> QED
    BY <2>1, <2>2
<1>2. ASSUME NEW s \in Seq(PlacedIn(line)), NEW e \in PlacedIn(line), s \in T
      PROVE  Append(s, e) \in T
  <2> DEFINE u == Append(s, e)
  <2>1. PICK n \in Nat : \A k \in 1..Len(s) : s[k].cellEnd <= n
    BY <1>2
  <2>2. /\ u \in Seq(PlacedIn(line)) /\ Len(s) \in Nat /\ Len(u) = Len(s) + 1
        /\ u[Len(s) + 1] = e /\ \A k \in 1..Len(s) : u[k] = s[k]
    BY AppendAt
  <2>3. e.cellEnd \in Nat
    BY DEF PlacedIn
  <2> HIDE DEF u
  <2>4. n + e.cellEnd \in Nat
    BY <2>3
  <2>5. ASSUME NEW k \in 1..Len(u)
        PROVE  u[k].cellEnd <= n + e.cellEnd
    <3>1. CASE k = Len(s) + 1
      BY <2>2, <2>3, <3>1
    <3>2. CASE k # Len(s) + 1
      <4>1. k \in 1..Len(s) /\ u[k] = s[k]
        BY <2>2, <3>2
      <4>2. s[k] \in PlacedIn(line)
        BY <4>1, ElementOfSeq
      <4>3. s[k].cellEnd \in Nat /\ s[k].cellEnd <= n
        BY <2>1, <4>1, <4>2 DEF PlacedIn
      <4> QED
        BY <2>3, <4>1, <4>3
    <3> QED
      BY <3>1, <3>2
  <2> QED
    BY <2>2, <2>4, <2>5 DEF u
<1>3. Seq(PlacedIn(line)) \subseteq T
  <2> HIDE DEF T
  <2> QED
    BY <1>1, <1>2, SeqInduction
<1> QED
  BY <1>3

LEMMA CellIsNat ==
  ASSUME NEW S, NEW line \in Seq(S), NEW col \in Nat
  PROVE  ScalarToCell(line, col) \in Nat
<1> DEFINE placed == LaidOut(line, 0)
           E == {0} \cup {g.cellEnd : g \in {h \in Range(placed) : h.to <= col}}
<1>1. placed \in Seq(PlacedIn(line)) /\ Range(placed) = {placed[k] : k \in 1..Len(placed)}
  BY LaidOutIsPlaced, RangeEquality
<1>2. PICK n \in Nat : \A k \in 1..Len(placed) : placed[k].cellEnd <= n
  BY <1>1, CellsBounded
<1>3. \A g \in Range(placed) : g.cellEnd \in Nat /\ g.cellEnd <= n
  <2> HIDE DEF placed
  <2>1. \A k \in 1..Len(placed) : placed[k] \in PlacedIn(line)
    BY <1>1, ElementOfSeq
  <2> QED
    BY <1>1, <1>2, <2>1 DEF PlacedIn
<1>4. E \in SUBSET Nat /\ E # {} /\ \A y \in E : y <= n
  <2> HIDE DEF placed
  <2> QED
    BY <1>3
<1>5. Max(E) \in E
  <2> HIDE DEF E
  <2> QED
    BY <1>4, MaxIn
<1> QED
  BY <1>4, <1>5 DEF ScalarToCell

-----------------------------------------------------------------------------
(* Parts of lines, and what replaces them. *)

PlaceIn(text, at) == at.row \in 0..FinalRow(text) /\ at.col \in 0..Len(LineAt(text, at.row))

LEMMA RowsOf ==
  ASSUME NEW text \in Document
  PROVE  /\ text \in Seq(LineText) /\ Len(text) \in Nat \ {0}
         /\ FinalRow(text) \in Nat /\ Len(text) = FinalRow(text) + 1 /\ 0 \in 0..FinalRow(text)
         /\ \A row \in 0..FinalRow(text) :
              LineAt(text, row) \in LineText /\ LineAt(text, row) \in Seq(Scalar)
<1>1. text \in Seq(LineText) /\ Len(text) \in Nat \ {0}
  BY EmptySeq DEF Document
<1>2. ASSUME NEW row \in 0..FinalRow(text)
      PROVE  LineAt(text, row) \in LineText
  <2>1. row + 1 \in 1..Len(text)
    BY <1>1 DEF FinalRow
  <2> QED
    BY <1>1, <2>1, ElementOfSeq DEF LineAt
<1> QED
  BY <1>1, <1>2, LineIsText DEF FinalRow

LEMMA PartsOf ==
  ASSUME NEW S, NEW line \in Seq(S), NEW col \in 0..Len(line)
  PROVE  /\ Prefix(line, col) \in Seq(S) /\ Suffix(line, col) \in Seq(S)
         /\ Len(Prefix(line, col)) = col
<1>1. Len(line) \in Nat
  BY LenProperties
<1> QED
  BY <1>1, PrefixAt, SuffixAt DEF Prefix, Suffix, Slice

LEMMA SliceOf ==
  ASSUME NEW S, NEW line \in Seq(S), NEW from \in 0..Len(line), NEW to \in 0..Len(line)
  PROVE  Slice(line, from, to) \in Seq(S)
<1>1. Len(line) \in Nat
  BY LenProperties
<1>2. \A i \in from + 1..to : line[i] \in S
  <2>1. \A i \in from + 1..to : i \in 1..Len(line)
    BY <1>1
  <2> QED
    BY <2>1, ElementOfSeq
<1> QED
  BY <1>1, <1>2, SubSeqProperties DEF Slice

LEMMA RowsAdded ==
  ASSUME NEW rows \in Document, NEW s \in Scalar
  PROVE  /\ Len(rows) \in Nat
         /\ Len(AddScalar(rows, s)) = Len(rows) + (IF s = "n" THEN 1 ELSE 0)
<1>1. rows \in Seq(LineText) /\ Len(rows) \in Nat \ {0} /\ Len(rows) \in 1..Len(rows)
  BY EmptySeq DEF Document
<1>2. CASE s = "n"
  <2>1. <<>> \in LineText
    BY EmptySeq DEF LineText
  <2> QED
    BY <1>1, <1>2, <2>1, AppendProperties DEF AddScalar
<1>3. CASE s # "n"
  <2> DEFINE more == Append(rows[Len(rows)], s)
  <2>1. rows[Len(rows)] \in LineText
    BY <1>1, ElementOfSeq
  <2>2. more \in LineText
    BY <1>3, <2>1, AppendProperties DEF LineText
  <2>3. AddScalar(rows, s) = [rows EXCEPT ![Len(rows)] = more]
    BY <1>3 DEF AddScalar
  <2> HIDE DEF more
  <2> QED
    BY <1>1, <1>3, <2>2, <2>3, ExceptSeq
<1> QED
  BY <1>2, <1>3

\* What stands before or after a text takes no rows from it.
LEMMA RowsAfterwards ==
  ASSUME NEW text \in Seq(Scalar), NEW more \in Seq(Scalar)
  PROVE  Len(SplitLines(text)) <= Len(SplitLines(text \o more))
<1> DEFINE T == {m \in Seq(Scalar) : Len(SplitLines(text)) <= Len(SplitLines(text \o m))}
<1>1. SplitLines(text) \in Document /\ Len(SplitLines(text)) \in Nat
  BY SplitIsDocument, RowsOf
<1>2. <<>> \in T
  <2>1. text \o <<>> = text /\ <<>> \in Seq(Scalar)
    BY EmptySeq, ConcatEmptySeq
  <2> QED
    BY <1>1, <2>1
<1>3. ASSUME NEW m \in Seq(Scalar), NEW s \in Scalar, m \in T
      PROVE  Append(m, s) \in T
  <2>1. /\ text \o Append(m, s) = Append(text \o m, s) /\ text \o m \in Seq(Scalar)
        /\ Append(m, s) \in Seq(Scalar)
    BY ConcatAppend, AppendProperties
  <2>2. SplitLines(text \o Append(m, s)) = AddScalar(SplitLines(text \o m), s)
    BY <2>1, SplitAppend
  <2>3. SplitLines(text \o m) \in Document
    BY <2>1, SplitIsDocument
  <2>4. Len(SplitLines(text \o m)) \in Nat
        /\ Len(SplitLines(text \o m)) <= Len(SplitLines(text \o Append(m, s)))
    BY <2>2, <2>3, RowsAdded
  <2>5. Len(SplitLines(text \o Append(m, s))) \in Nat
    BY <2>2, <2>3, RowsAdded
  <2>6. Len(SplitLines(text)) <= Len(SplitLines(text \o m))
    BY <1>3
  <2>7. Len(SplitLines(text)) <= Len(SplitLines(text \o Append(m, s)))
    BY <1>1, <2>4, <2>5, <2>6
  <2> QED
    BY <2>1, <2>7, Zenon
<1>4. Seq(Scalar) \subseteq T
  <2> HIDE DEF T
  <2> QED
    BY <1>2, <1>3, SeqInduction
<1> QED
  BY <1>4

LEMMA RowsBeforehand ==
  ASSUME NEW text \in Seq(Scalar), NEW before \in Seq(Scalar)
  PROVE  Len(SplitLines(text)) <= Len(SplitLines(before \o text))
<1> DEFINE T == {m \in Seq(Scalar) : Len(SplitLines(m)) <= Len(SplitLines(before \o m))}
<1>1. <<>> \in T
  <2>1. before \o <<>> = before /\ <<>> \in Seq(Scalar)
    BY EmptySeq, ConcatEmptySeq
  <2>2. SplitLines(before) \in Document /\ Len(SplitLines(before)) \in Nat \ {0}
    BY SplitIsDocument, RowsOf
  <2>3. Len(SplitLines(<<>>)) = 1
    BY SplitEmpty
  <2>4. 1 <= Len(SplitLines(before))
    BY <2>2
  <2>5. Len(SplitLines(<<>>)) <= Len(SplitLines(before))
    BY <2>3, <2>4, Zenon
  <2> QED
    BY <2>1, <2>5, Zenon
<1>2. ASSUME NEW m \in Seq(Scalar), NEW s \in Scalar, m \in T
      PROVE  Append(m, s) \in T
  <2>1. /\ before \o Append(m, s) = Append(before \o m, s) /\ before \o m \in Seq(Scalar)
        /\ Append(m, s) \in Seq(Scalar)
    BY ConcatAppend, AppendProperties
  <2>2. /\ SplitLines(before \o Append(m, s)) = AddScalar(SplitLines(before \o m), s)
        /\ SplitLines(Append(m, s)) = AddScalar(SplitLines(m), s)
    BY <2>1, SplitAppend
  <2>3. SplitLines(before \o m) \in Document /\ SplitLines(m) \in Document
    BY <2>1, SplitIsDocument
  <2>4. /\ Len(SplitLines(before \o m)) \in Nat /\ Len(SplitLines(m)) \in Nat
        /\ Len(SplitLines(before \o Append(m, s)))
             = Len(SplitLines(before \o m)) + (IF s = "n" THEN 1 ELSE 0)
        /\ Len(SplitLines(Append(m, s))) = Len(SplitLines(m)) + (IF s = "n" THEN 1 ELSE 0)
    BY <2>2, <2>3, RowsAdded
  <2>5. Len(SplitLines(m)) <= Len(SplitLines(before \o m))
    BY <1>2
  <2>6. Len(SplitLines(Append(m, s))) <= Len(SplitLines(before \o Append(m, s)))
    BY <2>4, <2>5
  <2> QED
    BY <2>1, <2>6, Zenon
<1>3. Seq(Scalar) \subseteq T
  <2> HIDE DEF T
  <2> QED
    BY <1>1, <1>2, SeqInduction
<1> QED
  BY <1>3

\* Replacing a part of a document leaves a document, and what was put in ends in it.
LEMMA ReplacedSound ==
  ASSUME NEW text \in Document, NEW from, NEW to, PlaceIn(text, from), PlaceIn(text, to),
         NEW with \in Seq(Scalar)
  PROVE  /\ Replaced(text, from, to, with) \in Document
         /\ EndOf(from, with).row \in 0..FinalRow(Replaced(text, from, to, with))
         /\ EndOf(from, with).col \in Nat
<1> DEFINE head == SubSeq(text, 1, from.row)
           before == Prefix(LineAt(text, from.row), from.col)
           after == Suffix(LineAt(text, to.row), to.col)
           middle == SplitLines((before \o with) \o after)
           foot == SubSeq(text, to.row + 2, Len(text))
           split == SplitLines(with)
<1>1. /\ text \in Seq(LineText) /\ Len(text) \in Nat \ {0} /\ Len(text) = FinalRow(text) + 1
      /\ from.row \in 0..Len(text) /\ to.row + 1 \in 0..Len(text) /\ from.row \in Nat
  BY RowsOf DEF PlaceIn
<1>2. before \in Seq(Scalar) /\ after \in Seq(Scalar)
  BY RowsOf, PartsOf DEF PlaceIn
<1>3. before \o with \in Seq(Scalar) /\ (before \o with) \o after \in Seq(Scalar)
  <2> HIDE DEF before, after
  <2> QED
    BY <1>2, ConcatProperties
<1>4. middle \in Seq(LineText) /\ Len(middle) \in Nat \ {0} /\ split \in Document
      /\ split \in Seq(LineText) /\ Len(split) \in Nat \ {0} /\ Len(split) <= Len(middle)
  <2> HIDE DEF before, after
  <2>1. Len(split) <= Len(SplitLines(before \o with))
    BY <1>2, RowsBeforehand
  <2>2. Len(SplitLines(before \o with)) <= Len(middle)
    BY <1>2, <1>3, RowsAfterwards
  <2>3. middle \in Document /\ split \in Document /\ SplitLines(before \o with) \in Document
    BY <1>3, SplitIsDocument
  <2> HIDE DEF middle, split
  <2>4. Len(middle) \in Nat \ {0} /\ Len(split) \in Nat \ {0} /\ Len(SplitLines(before \o with)) \in Nat
    BY <2>3, RowsOf
  <2> QED
    BY <2>1, <2>2, <2>3, <2>4 DEF Document
<1>5. head \in Seq(LineText) /\ Len(head) = from.row
  BY <1>1, PrefixAt
<1>6. foot \in Seq(LineText) /\ Len(foot) \in Nat
  <2>1. \A k \in 0..Len(text) : SubSeq(text, k + 1, Len(text)) \in Seq(LineText)
    BY <1>1, SuffixAt
  <2>2. (to.row + 1) + 1 = to.row + 2
    BY <1>1 DEF PlaceIn
  <2>3. foot \in Seq(LineText)
    BY <1>1, <2>1, <2>2
  <2> QED
    BY <2>3, LenProperties
<1>7. Replaced(text, from, to, with) = (head \o middle) \o foot
  BY DEF Replaced
<1>8. EndOf(from, with).row = from.row + Len(split) - 1 /\ EndOf(from, with).col \in Nat
  <2>1. Len(with) \in Nat
    BY LenProperties
  <2>2. Last(split) \in LineText
    <3> HIDE DEF split
    <3> QED
      BY <1>4, FrontAt DEF Document
  <2>3. Len(Last(split)) \in Nat
    BY <2>2, LenProperties DEF LineText
  <2>4. from.col \in Nat
    BY RowsOf, LenProperties DEF PlaceIn
  <2>5. EndOf(from, with) = IF Len(split) = 1 THEN Spot(from.row, from.col + Len(with))
                            ELSE Spot(from.row + Len(split) - 1, Len(Last(split)))
    BY Zenon DEF EndOf
  <2> HIDE DEF split
  <2>6. CASE Len(split) = 1
    BY <1>1, <2>1, <2>4, <2>5, <2>6 DEF Spot
  <2>7. CASE Len(split) # 1
    BY <1>1, <1>4, <2>3, <2>5, <2>7 DEF Spot
  <2> QED
    BY <2>6, <2>7
<1> HIDE DEF head, middle, foot, split
<1>9. /\ head \o middle \in Seq(LineText) /\ Len(head \o middle) = from.row + Len(middle)
  BY <1>4, <1>5, ConcatProperties
<1>10. /\ (head \o middle) \o foot \in Seq(LineText)
       /\ Len((head \o middle) \o foot) = from.row + Len(middle) + Len(foot)
  BY <1>6, <1>9, ConcatProperties
<1>11. (head \o middle) \o foot # <<>>
  BY <1>1, <1>4, <1>6, <1>10, EmptySeq
<1> QED
  BY <1>1, <1>4, <1>6, <1>7, <1>8, <1>10, <1>11 DEF Document, FinalRow

\* What is selected is a text.
LEMMA SelectedFold ==
  ASSUME NEW text \in Document, NEW start, NEW end, PlaceIn(text, start), PlaceIn(text, end),
         start.row < end.row
  PROVE  Selected(text, start, end) \in Seq(Scalar)
<1> DEFINE n == end.row - start.row
           A == Seq(Scalar)
           first == Suffix(LineAt(text, start.row), start.col)
           rest(row) == IF row = end.row THEN Prefix(LineAt(text, row), end.col) ELSE LineAt(text, row)
           Next1(a, k) == (a \o <<"n">>) \o rest(start.row + k)
           G == [k \in 1..n |-> [a \in A |-> Next1(a, k)]]
           Step(f, k) == IF k = 0 THEN first ELSE (f[k - 1] \o <<"n">>) \o rest(start.row + k)
           rows == CHOOSE f : f = [k \in 0..n |-> Step(f, k)]
<1>1. n \in Nat /\ start.row # end.row /\ start.row \in Nat /\ end.row \in Nat
      /\ end.row <= FinalRow(text) /\ start.row + n = end.row /\ FinalRow(text) \in Nat
  BY RowsOf DEF PlaceIn
<1>2. first \in A
  BY RowsOf, PartsOf DEF PlaceIn
<1>3. ASSUME NEW k \in 1..n, NEW a \in A
      PROVE  Next1(a, k) \in A
  <2>1. start.row + k \in 0..FinalRow(text)
    BY <1>1
  <2>2. rest(start.row + k) \in Seq(Scalar)
    BY <2>1, RowsOf, PartsOf DEF PlaceIn
  <2>3. <<"n">> \in Seq(Scalar)
    BY ScalarFacts
  <2> HIDE DEF rest
  <2>4. a \o <<"n">> \in Seq(Scalar)
    BY <2>3, ConcatProperties
  <2> QED
    BY <2>2, <2>4, ConcatProperties
<1>4. G \in [1..n -> [A -> A]]
  <2> HIDE DEF n, A, Next1
  <2> QED
    BY <1>3
<1>5. PICK f \in [0..n -> A] : Folds(f, first, G, n)
  <2> HIDE DEF G, n, A, first
  <2> QED
    BY <1>1, <1>2, <1>4, FoldExists
<1>6. f[0] = first
  BY <1>5 DEF Folds
<1>7. ASSUME NEW k \in 1..n
      PROVE  f[k] = Next1(f[k - 1], k)
  <2>1. k - 1 \in 0..n
    BY <1>1
  <2>2. f[k - 1] \in A /\ f[k] = G[k][f[k - 1]]
    BY <1>5, <2>1 DEF Folds
  <2> HIDE DEF n, A, Next1
  <2> QED
    BY <2>2
<1> HIDE DEF first, rest
<1>8. f = [k \in 0..n |-> Step(f, k)]
  <2>1. \A k \in 0..n : f[k] = Step(f, k)
    <3> SUFFICES ASSUME NEW k \in 0..n
                 PROVE  f[k] = Step(f, k)
      OBVIOUS
    <3>1. CASE k = 0
      BY <1>6, <3>1
    <3>2. CASE k # 0
      <4>1. k \in 1..n
        BY <1>1, <3>2
      <4>2. Step(f, k) = Next1(f[k - 1], k)
        BY <3>2
      <4> HIDE DEF Step, Next1
      <4> QED
        BY <1>7, <4>1, <4>2
    <3> QED
      BY <3>1, <3>2
  <2> HIDE DEF Step
  <2> QED
    BY <1>5, <2>1
<1>9. rows = [k \in 0..n |-> Step(rows, k)]
  BY <1>8, Zenon
<1>10. Selected(text, start, end) = rows[n]
  BY <1>1 DEF Selected, first, rest
<1>11. rows[0] = first /\ \A k \in 1..n : rows[k] = Next1(rows[k - 1], k)
  <2> HIDE DEF rows, n
  <2>1. ASSUME NEW k \in 0..n
        PROVE  rows[k] = Step(rows, k)
    <3> HIDE DEF Step
    <3> QED
      BY <1>9
  <2>2. 0 \in 0..n /\ \A k \in 1..n : k \in 0..n /\ k # 0
    BY <1>1
  <2> QED
    BY <2>1, <2>2
<1>12. \A k \in 0..n : rows[k] = f[k]
  <2> HIDE DEF rows, n, Next1
  <2>1. ASSUME NEW k \in 1..n, rows[k - 1] = f[k - 1]
        PROVE  rows[k] = f[k]
    BY <1>7, <1>11, <2>1
  <2>2. InStep(rows, f, n)
    BY <1>6, <1>11, <2>1 DEF InStep
  <2> QED
    BY <1>1, <2>2, Agree
<1>13. n \in 0..n
  BY <1>1
<1> QED
  BY <1>5, <1>10, <1>12, <1>13

LEMMA SelectedIsText ==
  ASSUME NEW text \in Document, NEW start, NEW end, PlaceIn(text, start), PlaceIn(text, end),
         Before(start, end)
  PROVE  Selected(text, start, end) \in Seq(Scalar)
<1>1. start.row \in Int /\ end.row \in Int
  BY RowsOf DEF PlaceIn
<1>2. CASE start.row = end.row
  <2>1. Slice(LineAt(text, start.row), start.col, end.col) \in Seq(Scalar)
    BY <1>2, RowsOf, SliceOf DEF PlaceIn
  <2> QED
    BY <1>2, <2>1, Zenon DEF Selected
<1>3. CASE start.row # end.row
  BY <1>1, <1>3, SelectedFold DEF Before
<1> QED
  BY <1>2, <1>3

-----------------------------------------------------------------------------
(* Where the keys move to. *)

EdgeIn(text, at) == at.row \in 0..FinalRow(text) /\ at.col \in Edges(LineAt(text, at.row))

LEMMA EdgeIsPlace ==
  ASSUME NEW text \in Document, NEW at, EdgeIn(text, at)
  PROVE  PlaceIn(text, at)
  BY RowsOf, EdgesOf DEF EdgeIn, PlaceIn

LEMMA NumbersOf ==
  ASSUME NEW text \in Document, NEW at, PlaceIn(text, at)
  PROVE  /\ at.row \in Nat /\ at.row <= FinalRow(text) /\ FinalRow(text) \in Nat
         /\ at.col \in Nat /\ at.col <= Len(LineAt(text, at.row))
         /\ LineAt(text, at.row) \in Seq(Scalar) /\ Len(LineAt(text, at.row)) \in Nat
<1>1. LineAt(text, at.row) \in Seq(Scalar) /\ Len(LineAt(text, at.row)) \in Nat
  BY RowsOf, LenProperties DEF PlaceIn
<1> QED
  BY <1>1, RowsOf DEF PlaceIn

\* Both ends of a line are edges of the text.
LEMMA LineEnds ==
  ASSUME NEW text \in Document, NEW row \in 0..FinalRow(text)
  PROVE  EdgeIn(text, Spot(row, 0)) /\ EdgeIn(text, Spot(row, Len(LineAt(text, row))))
  BY RowsOf, EdgesOf DEF EdgeIn, Spot

LEMMA SnappedIsEdge ==
  ASSUME NEW text \in Document, NEW at, at.row \in 0..FinalRow(text), at.col \in Nat
  PROVE  /\ EdgeIn(text, Snapped(text, at))
         /\ EdgeIn(text, SnappedForward(text, at))
<1> DEFINE line == LineAt(text, at.row)
           r == GraphemeRange(line, at.col)
<1>1. line \in Seq(Scalar)
  BY RowsOf
<1>2. r.from \in Edges(line) /\ r.to \in Edges(line)
  <2> HIDE DEF line
  <2> QED
    BY <1>1, RangeIsEdges
<1>3. Snapped(text, at) = Spot(at.row, r.from)
  BY DEF Snapped
<1>4. SnappedForward(text, at) = Spot(at.row, IF r.from = at.col THEN at.col ELSE r.to)
  BY DEF SnappedForward
<1> HIDE DEF r
<1> QED
  BY <1>2, <1>3, <1>4 DEF EdgeIn, Spot

LEMMA LeftIsEdge ==
  ASSUME NEW text \in Document, NEW at, PlaceIn(text, at)
  PROVE  EdgeIn(text, PreviousGrapheme(text, at))
<1> DEFINE line == LineAt(text, at.row)
<1>1. CASE at.col > 0
  <2>1. line \in Seq(Scalar) /\ at.col - 1 \in Nat /\ at.row \in 0..FinalRow(text)
    BY <1>1, NumbersOf DEF PlaceIn
  <2>2. GraphemeRange(line, at.col - 1).from \in Edges(line)
    <3> HIDE DEF line
    <3> QED
      BY <2>1, RangeIsEdges
  <2>3. PreviousGrapheme(text, at) = Spot(at.row, GraphemeRange(line, at.col - 1).from)
    BY <1>1 DEF PreviousGrapheme
  <2> QED
    BY <2>1, <2>2, <2>3 DEF EdgeIn, Spot
<1>2. CASE ~(at.col > 0) /\ at.row = 0
  <2>1. at.col = 0 /\ at.row \in 0..FinalRow(text)
    BY <1>2, NumbersOf DEF PlaceIn
  <2>2. PreviousGrapheme(text, at) = at
    BY <1>2 DEF PreviousGrapheme
  <2>3. 0 \in Edges(line)
    BY <2>1, RowsOf, EdgesOf
  <2> QED
    BY <2>1, <2>2, <2>3 DEF EdgeIn
<1>3. CASE ~(at.col > 0) /\ at.row # 0
  <2>1. at.row - 1 \in 0..FinalRow(text)
    BY <1>3, NumbersOf
  <2>2. PreviousGrapheme(text, at) = Spot(at.row - 1, Len(LineAt(text, at.row - 1)))
    BY <1>3 DEF PreviousGrapheme
  <2> QED
    BY <2>1, <2>2, LineEnds
<1> QED
  BY <1>1, <1>2, <1>3

LEMMA RightIsEdge ==
  ASSUME NEW text \in Document, NEW at, PlaceIn(text, at)
  PROVE  EdgeIn(text, NextGrapheme(text, at))
<1> DEFINE line == LineAt(text, at.row)
           r == GraphemeRange(line, at.col)
<1>1. line \in Seq(Scalar) /\ at.col \in Nat /\ at.row \in 0..FinalRow(text)
  BY NumbersOf DEF PlaceIn
<1>2. r.to \in Edges(line) /\ (r.from = r.to => at.col >= Len(line))
  <2> HIDE DEF line
  <2> QED
    BY <1>1, RangeIsEdges
<1>3. NextGrapheme(text, at) = IF r.from # r.to THEN Spot(at.row, r.to)
                               ELSE IF at.row < FinalRow(text) THEN Spot(at.row + 1, 0) ELSE at
  BY DEF NextGrapheme
<1> HIDE DEF r
<1>4. CASE r.from # r.to
  BY <1>1, <1>2, <1>3, <1>4 DEF EdgeIn, Spot
<1>5. CASE r.from = r.to /\ at.row < FinalRow(text)
  <2>1. at.row + 1 \in 0..FinalRow(text)
    BY <1>5, NumbersOf
  <2> QED
    BY <1>3, <1>5, <2>1, LineEnds
<1>6. CASE r.from = r.to /\ ~(at.row < FinalRow(text))
  <2>1. at.col = Len(line)
    BY <1>2, <1>6, NumbersOf
  <2>2. Len(line) \in Edges(line)
    BY DEF Edges
  <2> QED
    BY <1>1, <1>3, <1>6, <2>1, <2>2 DEF EdgeIn
<1> QED
  BY <1>4, <1>5, <1>6

LEMMA RowsAwayAreEdges ==
  ASSUME NEW text \in Document, NEW at, PlaceIn(text, at)
  PROVE  /\ EdgeIn(text, Above(text, at)) /\ EdgeIn(text, Below(text, at))
         /\ \A row \in 0..FinalRow(text) : EdgeIn(text, PageTarget(text, at, row))
<1>1. /\ at.row \in Nat /\ at.row \in 0..FinalRow(text) /\ FinalRow(text) \in Nat /\ at.col \in Nat
      /\ at.row <= FinalRow(text)
  BY NumbersOf DEF PlaceIn
<1>2. ASSUME NEW row \in 0..FinalRow(text)
      PROVE  Row0(text, at, row).row \in 0..FinalRow(text) /\ Row0(text, at, row).col \in Nat
  <2>1. Len(LineAt(text, row)) \in Nat
    BY RowsOf, LenProperties
  <2> QED
    BY <1>1, <2>1 DEF Row0, Spot, Lower
<1>3. EdgeIn(text, Above(text, at))
  <2>1. CASE at.row = 0
    BY <1>1, <2>1, SnappedIsEdge DEF Above
  <2>2. CASE at.row # 0
    <3>1. at.row - 1 \in 0..FinalRow(text)
      BY <1>1, <2>2
    <3>2. Above(text, at) = Snapped(text, Row0(text, at, at.row - 1))
      BY <2>2 DEF Above
    <3> QED
      BY <1>2, <3>1, <3>2, SnappedIsEdge
  <2> QED
    BY <2>1, <2>2
<1>4. EdgeIn(text, Below(text, at))
  <2>1. CASE at.row = FinalRow(text)
    BY <1>1, <2>1, SnappedIsEdge DEF Below
  <2>2. CASE at.row # FinalRow(text)
    <3>1. at.row + 1 \in 0..FinalRow(text)
      BY <1>1, <2>2
    <3>2. Below(text, at) = Snapped(text, Row0(text, at, at.row + 1))
      BY <2>2 DEF Below
    <3> QED
      BY <1>2, <3>1, <3>2, SnappedIsEdge
  <2> QED
    BY <2>1, <2>2
<1>5. ASSUME NEW row \in 0..FinalRow(text)
      PROVE  EdgeIn(text, PageTarget(text, at, row))
  <2>1. Spot(row, at.col).row = row /\ Spot(row, at.col).col = at.col
    BY DEF Spot
  <2> QED
    BY <1>1, <2>1, SnappedIsEdge DEF PageTarget
<1> QED
  BY <1>3, <1>4, <1>5

LEMMA MaxOfPart ==
  ASSUME NEW n \in Nat, NEW S, S \subseteq 1..n
  PROVE  Max({0} \cup S) \in 0..n
<1> DEFINE E == {0} \cup S
<1>1. E \in SUBSET Nat /\ E # {} /\ (\A y \in E : y <= n) /\ E \subseteq 0..n
  OBVIOUS
<1>2. Max(E) \in E
  <2> HIDE DEF E
  <2> QED
    BY <1>1, MaxIn
<1> QED
  BY <1>1, <1>2

LEMMA MinOfPart ==
  ASSUME NEW low \in Nat, NEW n \in Nat, NEW S, S \subseteq low..n
  PROVE  Min(S \cup {n}) \in S \cup {n} /\ Min(S \cup {n}) \in Nat
<1> DEFINE E == S \cup {n}
<1>1. E \in SUBSET Nat /\ E # {}
  OBVIOUS
<1>2. Min(E) \in E
  <2> HIDE DEF E
  <2> QED
    BY <1>1, MinIn
<1> QED
  BY <1>1, <1>2

LEMMA WordLeftIsEdge ==
  ASSUME NEW text \in Document, NEW at, PlaceIn(text, at)
  PROVE  EdgeIn(text, WordLeft(text, at))
<1> DEFINE line == LineAt(text, at.row)
           solids == {k \in 1..at.col : WordClass(line[k]) # "space"}
           solid == Max({0} \cup solids)
           others == {k \in 1..solid : WordClass(line[k]) # WordClass(line[solid])}
           other == Max({0} \cup others)
<1>1. at.row \in 0..FinalRow(text) /\ at.row \in Nat /\ at.col \in Nat
  BY NumbersOf DEF PlaceIn
<1>2. WordLeft(text, at) =
        IF at.col = 0
        THEN IF at.row = 0 THEN at ELSE Spot(at.row - 1, Len(LineAt(text, at.row - 1)))
        ELSE Snapped(text, Spot(at.row, IF solid = 0 THEN 0 ELSE other))
  BY DEF WordLeft
<1>3. CASE at.col = 0 /\ at.row = 0
  <2>1. 0 \in Edges(line)
    BY <1>1, RowsOf, EdgesOf
  <2>2. WordLeft(text, at) = at
    BY <1>2, <1>3, Zenon
  <2> QED
    BY <1>1, <1>3, <2>1, <2>2 DEF EdgeIn
<1>4. CASE at.col = 0 /\ at.row # 0
  <2>1. at.row - 1 \in 0..FinalRow(text)
    BY <1>4, NumbersOf
  <2>2. WordLeft(text, at) = Spot(at.row - 1, Len(LineAt(text, at.row - 1)))
    BY <1>2, <1>4, Zenon
  <2> QED
    BY <2>1, <2>2, LineEnds
<1>5. CASE at.col # 0
  <2>1. solid \in Nat
    <3>1. solids \subseteq 1..at.col
      OBVIOUS
    <3> HIDE DEF solids
    <3>2. solid \in 0..at.col
      BY <1>1, <3>1, MaxOfPart
    <3> QED
      BY <1>1, <3>2
  <2> HIDE DEF solid
  <2>2. other \in Nat
    <3>1. others \subseteq 1..solid
      OBVIOUS
    <3> HIDE DEF others
    <3>2. other \in 0..solid
      BY <2>1, <3>1, MaxOfPart
    <3> QED
      BY <2>1, <3>2
  <2> HIDE DEF other
  <2> DEFINE col == IF solid = 0 THEN 0 ELSE other
  <2>3. col \in Nat
    BY <2>2
  <2>4. WordLeft(text, at) = Snapped(text, Spot(at.row, col))
    BY <1>2, <1>5, Zenon
  <2> HIDE DEF col
  <2>5. Spot(at.row, col).row \in 0..FinalRow(text) /\ Spot(at.row, col).col \in Nat
    BY <1>1, <2>3 DEF Spot
  <2> QED
    BY <2>4, <2>5, SnappedIsEdge
<1> QED
  BY <1>3, <1>4, <1>5

LEMMA WordRightIsEdge ==
  ASSUME NEW text \in Document, NEW at, PlaceIn(text, at)
  PROVE  EdgeIn(text, WordRight(text, at))
<1> DEFINE line == LineAt(text, at.row)
           class == WordClass(line[at.col + 1])
           others == {k \in at.col..(Len(line) - 1) : WordClass(line[k + 1]) # class}
           other == Min(others \cup {Len(line)})
           solids == {k \in other..(Len(line) - 1) : WordClass(line[k + 1]) # "space"}
           solid == Min(solids \cup {Len(line)})
<1>1. at.row \in 0..FinalRow(text) /\ at.row \in Nat /\ at.col \in Nat /\ Len(line) \in Nat
      /\ at.col <= Len(line)
  BY NumbersOf DEF PlaceIn
<1>2. WordRight(text, at) =
        IF at.col >= Len(line)
        THEN IF at.row < FinalRow(text) THEN Spot(at.row + 1, 0) ELSE at
        ELSE SnappedForward(text, Spot(at.row, IF class = "space" THEN other ELSE solid))
  BY DEF WordRight
<1>3. CASE at.col >= Len(line) /\ at.row < FinalRow(text)
  <2>1. at.row + 1 \in 0..FinalRow(text)
    BY <1>3, NumbersOf
  <2>2. WordRight(text, at) = Spot(at.row + 1, 0)
    BY <1>2, <1>3, Zenon
  <2> QED
    BY <2>1, <2>2, LineEnds
<1>4. CASE at.col >= Len(line) /\ ~(at.row < FinalRow(text))
  <2>1. at.col = Len(line)
    BY <1>1, <1>4
  <2>2. WordRight(text, at) = at
    BY <1>2, <1>4, Zenon
  <2> QED
    BY <1>1, <2>1, <2>2 DEF EdgeIn, Edges
<1>5. CASE ~(at.col >= Len(line))
  <2>1. other \in Nat
    <3>1. others \subseteq at.col..Len(line)
      BY <1>1
    <3> HIDE DEF others, line
    <3> QED
      BY <1>1, <3>1, MinOfPart
  <2> HIDE DEF other
  <2>2. solid \in Nat
    <3>1. solids \subseteq other..Len(line)
      BY <1>1
    <3> HIDE DEF solids, line
    <3> QED
      BY <1>1, <2>1, <3>1, MinOfPart
  <2> HIDE DEF solid
  <2> DEFINE col == IF class = "space" THEN other ELSE solid
  <2>3. col \in Nat
    BY <2>1, <2>2
  <2>4. WordRight(text, at) = SnappedForward(text, Spot(at.row, col))
    BY <1>2, <1>5, Zenon
  <2> HIDE DEF col
  <2>5. Spot(at.row, col).row \in 0..FinalRow(text) /\ Spot(at.row, col).col \in Nat
    BY <1>1, <2>3 DEF Spot
  <2> QED
    BY <2>4, <2>5, SnappedIsEdge
<1> QED
  BY <1>3, <1>4, <1>5

LEMMA ParagraphsAreRows ==
  ASSUME NEW text \in Document, NEW row \in 0..FinalRow(text)
  PROVE  /\ PreviousParagraph(text, row) \in 0..FinalRow(text)
         /\ NextParagraph(text, row) \in 0..FinalRow(text)
<1>1. FinalRow(text) \in Nat /\ row \in Nat
  BY RowsOf
<1>2. PreviousParagraph(text, row) \in 0..FinalRow(text)
  <2> DEFINE E == {0} \cup {r \in Paragraphs(text) : r < row}
  <2>1. E \in SUBSET Nat /\ E # {} /\ (\A y \in E : y <= FinalRow(text)) /\ E \subseteq 0..FinalRow(text)
    BY <1>1 DEF Paragraphs
  <2>2. Max(E) \in E
    <3> HIDE DEF E
    <3> QED
      BY <1>1, <2>1, MaxIn
  <2> QED
    BY <2>1, <2>2 DEF PreviousParagraph
<1>3. NextParagraph(text, row) \in 0..FinalRow(text)
  <2> DEFINE gap == Min({r \in row..FinalRow(text) : Blank(text, r)} \cup {FinalRow(text)})
             E == {r \in gap..FinalRow(text) : ~Blank(text, r)} \cup {FinalRow(text)}
  <2>1. NextParagraph(text, row) = Min(E)
    BY DEF NextParagraph
  <2>2. gap \in Nat
    BY <1>1, MinOfPart
  <2> HIDE DEF gap
  <2>3. E \in SUBSET Nat /\ E # {} /\ E \subseteq 0..FinalRow(text)
    BY <1>1, <2>2
  <2>4. Min(E) \in E
    <3> HIDE DEF E
    <3> QED
      BY <2>3, MinIn
  <2> QED
    BY <2>1, <2>3, <2>4
<1> QED
  BY <1>2, <1>3

LEMMA SameCellIsPlace ==
  ASSUME NEW text \in Document, NEW at, PlaceIn(text, at), NEW row \in 0..FinalRow(text)
  PROVE  /\ PlaceIn(text, SameCell(text, at, row))
         /\ EdgeIn(text, at) => EdgeIn(text, SameCell(text, at, row))
<1>1. CASE row = at.row
  BY <1>1 DEF SameCell
<1>2. CASE row # at.row
  <2> DEFINE cell == ScalarToCell(LineAt(text, at.row), at.col)
             col == ScalarAtCell(LineAt(text, row), cell)
  <2>1. cell \in Nat
    BY NumbersOf, CellIsNat
  <2> HIDE DEF cell
  <2>2. col \in Edges(LineAt(text, row))
    BY <2>1, RowsOf, CellIsEdge
  <2>3. SameCell(text, at, row) = Spot(row, col)
    BY <1>2 DEF SameCell, cell
  <2> HIDE DEF col
  <2>4. EdgeIn(text, Spot(row, col))
    BY <2>2 DEF EdgeIn, Spot
  <2> QED
    BY <2>3, <2>4, EdgeIsPlace
<1> QED
  BY <1>1, <1>2

LEMMA EndOfDocument ==
  ASSUME NEW text \in Document
  PROVE  EdgeIn(text, DocumentEnd(text)) /\ EdgeIn(text, Spot(0, 0))
<1>1. FinalRow(text) \in 0..FinalRow(text) /\ Len(text) = FinalRow(text) + 1
  BY RowsOf
<1>2. DocumentEnd(text) = Spot(FinalRow(text), Len(LineAt(text, FinalRow(text))))
  BY <1>1 DEF DocumentEnd, Last, LineAt
<1> QED
  BY <1>1, <1>2, RowsOf, LineEnds

\* Wherever a key leads there is text, and a key pressed between two graphemes leads
\* between two graphemes.
LEMMA Targets ==
  ASSUME lines \in Document, PlaceIn(lines, cursor), NEW motion \in Motions
  PROVE  /\ PlaceIn(lines, Target(motion))
         /\ EdgeIn(lines, cursor) => EdgeIn(lines, Target(motion))
<1>1. /\ cursor.row \in Nat /\ cursor.row \in 0..FinalRow(lines) /\ FinalRow(lines) \in Nat
      /\ cursor.row <= FinalRow(lines)
  BY NumbersOf DEF PlaceIn
<1>2. CASE motion = "left"
  BY <1>2, LeftIsEdge, EdgeIsPlace DEF Target
<1>3. CASE motion = "right"
  BY <1>3, RightIsEdge, EdgeIsPlace DEF Target
<1>4. CASE motion \in {"up", "down"}
  BY <1>4, RowsAwayAreEdges, EdgeIsPlace DEF Target
<1>5. CASE motion \in {"linestart", "lineend"}
  BY <1>1, <1>5, LineEnds, EdgeIsPlace DEF Target
<1>6. CASE motion \in {"documentstart", "documentend"}
  BY <1>6, EndOfDocument, EdgeIsPlace DEF Target
<1>7. CASE motion \in {"viewportup", "viewportdown"}
  <2>1. /\ Less(cursor.row, PageRows) \in 0..FinalRow(lines)
        /\ Lower(cursor.row + PageRows, FinalRow(lines)) \in 0..FinalRow(lines)
    BY <1>1, EditAssumption DEF Less, Lower
  <2> QED
    BY <1>7, <2>1, RowsAwayAreEdges, EdgeIsPlace DEF Target
<1>8. CASE motion \in {"wordleft", "wordright"}
  BY <1>8, WordLeftIsEdge, WordRightIsEdge, EdgeIsPlace DEF Target
<1>9. CASE motion \in {"paragraphup", "paragraphdown"}
  BY <1>1, <1>9, ParagraphsAreRows, SameCellIsPlace DEF Target
<1> QED
  BY <1>2, <1>3, <1>4, <1>5, <1>6, <1>7, <1>8, <1>9 DEF Motions

-----------------------------------------------------------------------------
(* Edits. *)

LEMMA EndsOfRange ==
  ASSUME NEW text \in Document, NEW r, PlaceIn(text, r.anchor), PlaceIn(text, r.focus)
  PROVE  /\ PlaceIn(text, First(r)) /\ PlaceIn(text, Second(r))
         /\ Selected(text, First(r), Second(r)) \in Seq(Scalar)
<1>1. PlaceIn(text, First(r)) /\ PlaceIn(text, Second(r))
  BY DEF First, Second
<1>2. Before(First(r), Second(r))
  <2>1. CASE Before(r.anchor, r.focus)
    BY <2>1 DEF First, Second
  <2>2. CASE ~Before(r.anchor, r.focus)
    <3>1. /\ r.anchor.row \in Nat /\ r.anchor.col \in Nat
          /\ r.focus.row \in Nat /\ r.focus.col \in Nat
      BY NumbersOf
    <3>2. Before(r.focus, r.anchor)
      BY <2>2, <3>1 DEF Before
    <3> QED
      BY <2>2, <3>2 DEF First, Second
  <2> QED
    BY <2>1, <2>2
<1> QED
  BY <1>1, <1>2, SelectedIsText

\* What an edit leaves behind.
Settled ==
  /\ lines \in Document /\ EdgeIn(lines, cursor) /\ range = NoRange
  /\ dragAnchor = {} /\ lastClick = {}

LEMMA AfterRecorded ==
  ASSUME NEW text \in Document, NEW at, at.row \in 0..FinalRow(text), at.col \in Nat,
         Recorded(text, at)
  PROVE  Settled'
<1>1. lines' = text /\ cursor' = SnappedForward(text, at) /\ range' = NoRange
      /\ dragAnchor' = {} /\ lastClick' = {}
  BY DEF Recorded, ClearSelection
<1>2. EdgeIn(text, SnappedForward(text, at))
  BY SnappedIsEdge
<1>3. NoRange' = NoRange
  BY DEF NoRange, Spot
<1> QED
  BY <1>1, <1>2, <1>3 DEF Settled, EdgeIn, Edges

LEMMA AfterReplaced ==
  ASSUME lines \in Document, NEW from, NEW to, PlaceIn(lines, from), PlaceIn(lines, to),
         NEW with \in Seq(Scalar), ReplaceText(from, to, with)
  PROVE  Settled'
<1> DEFINE text == Replaced(lines, from, to, with)
           at == EndOf(from, with)
<1>1. text \in Document /\ at.row \in 0..FinalRow(text) /\ at.col \in Nat
  BY ReplacedSound
<1>2. Recorded(text, at)
  BY Zenon DEF ReplaceText
<1> HIDE DEF text, at
<1> QED
  BY <1>1, <1>2, AfterRecorded

LEMMA SpacesAreText ==
  ASSUME NEW n \in Nat
  PROVE  Spaces(n) \in LineText /\ Spaces(n) \in Seq(Scalar)
<1>1. "s" \in Scalar \ {"n"}
  BY ScalarFacts
<1>2. Spaces(n) \in [1..n -> Scalar \ {"n"}]
  BY <1>1 DEF Spaces
<1>3. Spaces(n) \in LineText
  BY <1>2, SeqDef DEF LineText
<1> QED
  BY <1>3, LineIsText

LEMMA IndentationIsText ==
  ASSUME NEW before \in Seq(Scalar)
  PROVE  Indentation(before) \in Seq(Scalar)
<1> DEFINE solid == {k \in DOMAIN before : WordClass(before[k]) # "space"}
           deepens == solid # {} /\ before[Max(solid)] = "o"
           col == IF solid = {} THEN Len(before) ELSE Min(solid) - 1
           more == IF deepens THEN TabSize ELSE 0
<1>1. Len(before) \in Nat /\ DOMAIN before = 1..Len(before)
  BY LenProperties
<1>2. solid \subseteq 1..Len(before)
  BY <1>1
<1>3. col \in 0..Len(before)
  <2> HIDE DEF solid
  <2>1. CASE solid = {}
    BY <1>1, <2>1
  <2>2. CASE solid # {}
    <3>1. solid \in SUBSET Nat
      BY <1>1, <1>2
    <3>2. Min(solid) \in 1..Len(before)
      BY <1>2, <2>2, <3>1, MinIn
    <3> QED
      BY <1>1, <2>2, <3>2
  <2> QED
    BY <2>1, <2>2
<1>4. more \in Nat
  BY EditAssumption
<1>5. Indentation(before) = Prefix(before, col) \o Spaces(more)
  BY DEF Indentation
<1> HIDE DEF col, more
<1>6. Prefix(before, col) \in Seq(Scalar) /\ Spaces(more) \in Seq(Scalar)
  BY <1>3, <1>4, PartsOf, SpacesAreText
<1> QED
  BY <1>5, <1>6, ConcatProperties

LEMMA RemovableIsPart ==
  ASSUME NEW line \in LineText
  PROVE  RemovableIndent(line) \in 0..Len(line)
<1>1. Len(line) \in Nat /\ (line # <<>> => Len(line) # 0)
  BY EmptySeq, LenProperties DEF LineText
<1>2. CASE line = <<>>
  <2>1. RemovableIndent(line) = 0
    BY <1>2, Zenon DEF RemovableIndent
  <2> QED
    BY <1>1, <2>1
<1>3. CASE line # <<>> /\ line[1] = "t"
  <2>1. RemovableIndent(line) = 1
    BY <1>3, Zenon DEF RemovableIndent
  <2> QED
    BY <1>1, <1>3, <2>1
<1>4. CASE line # <<>> /\ line[1] # "t"
  <2> DEFINE E == {k \in 0..Lower(TabSize, Len(line)) : \A i \in 1..k : line[i] = "s"}
  <2>1. RemovableIndent(line) = Max(E)
    BY <1>4, Zenon DEF RemovableIndent
  <2>2. Lower(TabSize, Len(line)) \in 0..Len(line)
    BY <1>1, EditAssumption DEF Lower
  <2>3. E \in SUBSET Nat /\ 0 \in E /\ E \subseteq 0..Len(line) /\ \A y \in E : y <= Len(line)
    BY <1>1, <2>2
  <2> HIDE DEF E
  <2>4. Max(E) \in E
    BY <1>1, <2>3, MaxIn
  <2> QED
    BY <2>1, <2>3, <2>4
<1> QED
  BY <1>2, <1>3, <1>4

LEMMA ReindentedIsText ==
  ASSUME NEW line \in LineText, NEW unindent \in BOOLEAN
  PROVE  Reindented(line, unindent) \in LineText
<1>1. line \in Seq(Scalar \ {"n"})
  BY DEF LineText
<1>2. Suffix(line, RemovableIndent(line)) \in LineText
  <2>1. RemovableIndent(line) \in 0..Len(line)
    BY RemovableIsPart
  <2> QED
    BY <1>1, <2>1, PartsOf DEF LineText
<1>3. Spaces(TabSize) \o line \in LineText
  <2>1. Spaces(TabSize) \in Seq(Scalar \ {"n"})
    BY EditAssumption, SpacesAreText DEF LineText
  <2> QED
    BY <1>1, <2>1, ConcatProperties DEF LineText
<1> QED
  BY <1>2, <1>3 DEF Reindented

LEMMA AfterEditLines ==
  ASSUME lines \in Document, PlaceIn(lines, cursor), NEW first, NEW last, NEW unindent \in BOOLEAN,
         EditLines(first, last, unindent)
  PROVE  Settled'
<1> DEFINE line == LineAt(lines, cursor.row)
           here == cursor.row \in first..last
           col == CASE ~here -> cursor.col
                    [] here /\ unindent -> Less(cursor.col, RemovableIndent(line))
                    [] OTHER -> cursor.col + TabSize
           text == [k \in DOMAIN lines |->
                      IF k - 1 \in first..last THEN Reindented(lines[k], unindent) ELSE lines[k]]
<1>1. Recorded(text, Spot(cursor.row, col))
  BY Zenon DEF EditLines
<1>2. /\ lines \in Seq(LineText) /\ Len(lines) \in Nat \ {0} /\ DOMAIN lines = 1..Len(lines)
  BY RowsOf, LenProperties
<1>3. text \in Document /\ FinalRow(text) = FinalRow(lines)
  <2>1. \A k \in 1..Len(lines) : lines[k] \in LineText
    BY <1>2, ElementOfSeq
  <2>2. \A k \in 1..Len(lines) : Reindented(lines[k], unindent) \in LineText
    BY <2>1, ReindentedIsText
  <2>3. text \in [1..Len(lines) -> LineText]
    BY <1>2, <2>1, <2>2
  <2> HIDE DEF text
  <2>4. text \in Seq(LineText) /\ Len(text) = Len(lines)
    <3>1. text \in Seq(LineText)
      BY <1>2, <2>3, SeqDef
    <3>2. Len(text) \in Nat /\ DOMAIN text = 1..Len(text) /\ DOMAIN text = 1..Len(lines)
      BY <2>3, <3>1, LenProperties
    <3>3. Len(lines) \in 1..Len(text)
      BY <1>2, <3>2
    <3>4. Len(text) \in 1..Len(text)
      BY <3>2, <3>3
    <3>5. Len(text) \in 1..Len(lines)
      BY <3>2, <3>4
    <3>6. \A a, b \in Nat : a \in 1..b /\ b \in 1..a => a = b
      OBVIOUS
    <3>7. Len(lines) \in Nat
      BY <1>2
    <3> QED
      BY <3>1, <3>2, <3>3, <3>5, <3>6, <3>7, Zenon
  <2>5. text # <<>>
    BY <1>2, <2>4, EmptySeq
  <2> QED
    BY <2>4, <2>5 DEF Document, FinalRow
<1>4. col \in Nat
  <2>1. cursor.col \in Nat /\ line \in LineText /\ TabSize \in Nat
    BY NumbersOf, RowsOf, EditAssumption DEF PlaceIn
  <2>2. RemovableIndent(line) \in Nat
    <3> HIDE DEF line
    <3>1. Len(line) \in Nat
      BY <2>1, LenProperties DEF LineText
    <3> QED
      BY <2>1, <3>1, RemovableIsPart
  <2>3. Less(cursor.col, RemovableIndent(line)) \in Nat /\ cursor.col + TabSize \in Nat
    <3> HIDE DEF line
    <3> QED
      BY <2>1, <2>2 DEF Less
  <2> HIDE DEF here, line
  <2>4. CASE ~here
    <3>1. col = cursor.col
      BY <2>4, Zenon
    <3> QED
      BY <2>1, <3>1
  <2>5. CASE here /\ unindent
    <3>1. col = Less(cursor.col, RemovableIndent(line))
      BY <2>5, Zenon
    <3> QED
      BY <2>3, <3>1
  <2>6. CASE here /\ ~unindent
    <3>1. col = cursor.col + TabSize
      BY <2>6, Zenon
    <3> QED
      BY <2>3, <3>1
  <2> QED
    BY <2>4, <2>5, <2>6
<1> HIDE DEF text, col
<1>5. Spot(cursor.row, col).row \in 0..FinalRow(text) /\ Spot(cursor.row, col).col \in Nat
  BY <1>3, <1>4 DEF Spot, PlaceIn
<1> QED
  BY <1>1, <1>3, <1>5, AfterRecorded

-----------------------------------------------------------------------------
(* The cursor, the selection and the pointer stay in the text. *)

TextInv ==
  /\ lines \in Document /\ clipboard \in Seq(Scalar) /\ pointed \in BOOLEAN
  /\ PlaceIn(lines, cursor) /\ PlaceIn(lines, range.anchor) /\ PlaceIn(lines, range.focus)
  /\ \A at \in dragAnchor \cup lastClick : PlaceIn(lines, at)

GraphemeInv ==
  /\ ~pointed => /\ EdgeIn(lines, cursor) /\ EdgeIn(lines, range.anchor)
                 /\ \A at \in dragAnchor : EdgeIn(lines, at)
  /\ Active(range) => range.focus = cursor

EditInv == TextInv /\ GraphemeInv

\* The invariant after a step, of the values after it.
LEMMA InvAfter ==
  ASSUME lines' \in Document, clipboard' \in Seq(Scalar), pointed' \in BOOLEAN,
         PlaceIn(lines', cursor'), PlaceIn(lines', range'.anchor), PlaceIn(lines', range'.focus),
         \A at \in dragAnchor' \cup lastClick' : PlaceIn(lines', at),
         ~pointed' => /\ EdgeIn(lines', cursor') /\ EdgeIn(lines', range'.anchor)
                      /\ \A at \in dragAnchor' : EdgeIn(lines', at),
         Active(range') => range'.focus = cursor'
  PROVE  EditInv'
  BY DEF EditInv, TextInv, GraphemeInv

LEMMA NoRangeIsEdge ==
  ASSUME NEW text \in Document
  PROVE  /\ EdgeIn(text, NoRange.anchor) /\ PlaceIn(text, NoRange.anchor)
         /\ PlaceIn(text, NoRange.focus) /\ ~Active(NoRange)
<1>1. NoRange.anchor = Spot(0, 0) /\ NoRange.focus = Spot(0, 0)
  BY DEF NoRange
<1> QED
  BY <1>1, EndOfDocument, EdgeIsPlace DEF Active

\* An edit leaves the cursor at an edge and nothing selected.
LEMMA SettledIsSound ==
  ASSUME EditInv, Settled', clipboard' \in Seq(Scalar), UNCHANGED pointed
  PROVE  EditInv'
<1>1. /\ lines' \in Document /\ EdgeIn(lines', cursor') /\ range' = NoRange
      /\ dragAnchor' = {} /\ lastClick' = {} /\ pointed' \in BOOLEAN
  <2>1. Document' = Document /\ NoRange' = NoRange
    BY DEF Document, NoRange, Spot, LineText
  <2>2. EdgeIn(lines, cursor)' = EdgeIn(lines', cursor')
    BY DEF EdgeIn, Edges, Starts, Joined, LineAt, FinalRow, Flags
  <2> QED
    BY <2>1, <2>2 DEF Settled, EditInv, TextInv
<1>2. PlaceIn(lines', cursor') /\ EdgeIn(lines', range'.anchor) /\ PlaceIn(lines', range'.anchor)
      /\ PlaceIn(lines', range'.focus) /\ ~Active(range')
  BY <1>1, NoRangeIsEdge, EdgeIsPlace
<1> QED
  BY <1>1, <1>2, InvAfter

LEMMA SelectionIsPlaces ==
  ASSUME EditInv
  PROVE  /\ PlaceIn(lines, SelectedOrCursor.from) /\ PlaceIn(lines, SelectedOrCursor.to)
         /\ PlaceIn(lines, First(range)) /\ PlaceIn(lines, Second(range))
         /\ Chosen(range) \in Seq(Scalar)
<1>1. /\ PlaceIn(lines, First(range)) /\ PlaceIn(lines, Second(range))
      /\ Chosen(range) \in Seq(Scalar)
  BY EndsOfRange DEF EditInv, TextInv, Chosen
<1> QED
  BY <1>1 DEF SelectedOrCursor, EditInv, TextInv

\* A selection from one place of the text to another.
LEMMA RangeExtended ==
  ASSUME EditInv, NEW anchor, NEW to, PlaceIn(lines, anchor), PlaceIn(lines, to), Extend(anchor, to)
  PROVE  /\ clipboard' \in Seq(Scalar)
         /\ PlaceIn(lines, range'.anchor) /\ PlaceIn(lines, range'.focus)
         /\ EdgeIn(lines, anchor) => EdgeIn(lines, range'.anchor)
         /\ Active(range') => range'.focus = to
<1> DEFINE new == [anchor |-> anchor, focus |-> to]
<1>1. /\ range' = IF anchor = to THEN NoRange ELSE new
      /\ clipboard' = IF Active(new) THEN Chosen(new) ELSE clipboard
  BY DEF Extend
<1>2. new.anchor = anchor /\ new.focus = to
  OBVIOUS
<1>3. lines \in Document /\ clipboard \in Seq(Scalar)
  BY DEF EditInv, TextInv
<1> HIDE DEF new
<1>4. Chosen(new) \in Seq(Scalar)
  BY <1>2, <1>3, EndsOfRange DEF Chosen
<1>5. CASE anchor = to
  <2>1. range' = NoRange
    BY <1>1, <1>5
  <2> QED
    BY <1>1, <1>3, <1>4, <2>1, NoRangeIsEdge
<1>6. CASE anchor # to
  BY <1>1, <1>2, <1>3, <1>4, <1>6
<1> QED
  BY <1>5, <1>6

LEMMA SoundMove ==
  ASSUME EditInv, Move, UNCHANGED pointed
  PROVE  EditInv'
<1>1. PICK motion \in Motions, extend \in BOOLEAN :
        /\ cursor' = Target(motion)
        /\ IF extend THEN ExtendKeeping(IF Active(range) THEN range.anchor ELSE cursor, cursor')
           ELSE ClearSelection /\ UNCHANGED <<clipboard, changes>>
        /\ UNCHANGED <<lines, overwrite>>
  BY DEF Move
<1>2. /\ lines' = lines /\ pointed' = pointed /\ lines \in Document
      /\ clipboard \in Seq(Scalar) /\ pointed \in BOOLEAN
      /\ PlaceIn(lines, cursor) /\ PlaceIn(lines, range.anchor)
      /\ \A at \in dragAnchor \cup lastClick : PlaceIn(lines, at)
      /\ ~pointed => EdgeIn(lines, cursor) /\ EdgeIn(lines, range.anchor)
                     /\ \A at \in dragAnchor : EdgeIn(lines, at)
  BY <1>1 DEF EditInv, TextInv, GraphemeInv
<1>3. PlaceIn(lines, cursor') /\ (~pointed => EdgeIn(lines, cursor'))
  BY <1>1, <1>2, Targets
<1>4. CASE extend
  <2> DEFINE anchor == IF Active(range) THEN range.anchor ELSE cursor
  <2>1. Extend(anchor, cursor') /\ dragAnchor' = dragAnchor /\ lastClick' = lastClick
    BY <1>1, <1>4 DEF ExtendKeeping
  <2>2. PlaceIn(lines, anchor) /\ (~pointed => EdgeIn(lines, anchor))
    BY <1>2
  <2> HIDE DEF anchor
  <2>3. /\ clipboard' \in Seq(Scalar)
        /\ PlaceIn(lines, range'.anchor) /\ PlaceIn(lines, range'.focus)
        /\ EdgeIn(lines, anchor) => EdgeIn(lines, range'.anchor)
        /\ Active(range') => range'.focus = cursor'
    BY <1>3, <2>1, <2>2, RangeExtended
  <2> QED
    BY <1>2, <1>3, <2>1, <2>2, <2>3, InvAfter
<1>5. CASE ~extend
  <2>1. range' = NoRange /\ dragAnchor' = {} /\ lastClick' = {} /\ clipboard' = clipboard
    BY <1>1, <1>5 DEF ClearSelection
  <2> QED
    BY <1>2, <1>3, <2>1, NoRangeIsEdge, InvAfter
<1> QED
  BY <1>4, <1>5

LEMMA SoundSelectAll ==
  ASSUME EditInv, SelectAll, UNCHANGED pointed
  PROVE  EditInv'
<1>1. /\ cursor' = DocumentEnd(lines) /\ Extend(Spot(0, 0), cursor') /\ lines' = lines
      /\ dragAnchor' = dragAnchor /\ lastClick' = lastClick
  BY DEF SelectAll, ExtendKeeping
<1>2. /\ lines \in Document /\ pointed \in BOOLEAN
      /\ \A at \in dragAnchor \cup lastClick : PlaceIn(lines, at)
      /\ ~pointed => \A at \in dragAnchor : EdgeIn(lines, at)
  BY DEF EditInv, TextInv, GraphemeInv
<1>3. /\ EdgeIn(lines, cursor') /\ EdgeIn(lines, Spot(0, 0))
      /\ PlaceIn(lines, cursor') /\ PlaceIn(lines, Spot(0, 0))
  BY <1>1, <1>2, EndOfDocument, EdgeIsPlace
<1>4. /\ clipboard' \in Seq(Scalar)
      /\ PlaceIn(lines, range'.anchor) /\ PlaceIn(lines, range'.focus)
      /\ EdgeIn(lines, range'.anchor)
      /\ Active(range') => range'.focus = cursor'
  BY <1>1, <1>3, RangeExtended
<1> QED
  BY <1>1, <1>2, <1>3, <1>4, InvAfter

LEMMA SoundCopy ==
  ASSUME EditInv, Copy \/ ToggleOverwrite, UNCHANGED pointed
  PROVE  EditInv'
<1>1. /\ lines' = lines /\ cursor' = cursor /\ range' = range
      /\ dragAnchor' = dragAnchor /\ lastClick' = lastClick
  BY DEF Copy, ToggleOverwrite
<1>2. clipboard' \in Seq(Scalar)
  <2>1. Chosen(range) \in Seq(Scalar) /\ clipboard \in Seq(Scalar)
    BY SelectionIsPlaces DEF EditInv, TextInv
  <2> QED
    BY <2>1 DEF Copy, ToggleOverwrite
<1> QED
  BY <1>1, <1>2, InvAfter DEF EditInv, TextInv, GraphemeInv

\* What the pointer points at.
LEMMA Pointing ==
  ASSUME EditInv, NEW ats, PointedAt(ats)
  PROVE  /\ lines' = lines /\ lines \in Document /\ pointed' \in BOOLEAN
         /\ ~pointed' => ~pointed /\ \A at \in ats : EdgeIn(lines, at)
<1>1. \A at : AtGrapheme(at) => EdgeIn(lines, at)
  BY DEF AtGrapheme, InText, EdgeIn, Edges
<1> QED
  BY <1>1 DEF PointedAt, EditInv, TextInv

LEMMA PlacesAreInText ==
  ASSUME NEW at \in Places
  PROVE  PlaceIn(lines, at)
  BY DEF Places, InText, PlaceIn

LEMMA SoundClick ==
  ASSUME EditInv, Click
  PROVE  EditInv'
<1>1. PICK at \in Places :
        /\ PointedAt({at}) /\ cursor' = at
        /\ range' = NoRange /\ dragAnchor' = {at} /\ lastClick' = {at}
  BY DEF Click
<1>2. /\ lines' = lines /\ lines \in Document /\ pointed' \in BOOLEAN
      /\ ~pointed' => EdgeIn(lines, at)
  BY <1>1, Pointing
<1>3. PlaceIn(lines, at) /\ clipboard' \in Seq(Scalar)
  BY PlacesAreInText DEF Click, EditInv, TextInv
<1> QED
  BY <1>1, <1>2, <1>3, NoRangeIsEdge, InvAfter

LEMMA WordIsPlaces ==
  ASSUME lines \in Document, NEW at, PlaceIn(lines, at)
  PROVE  PlaceIn(lines, Word(at).from) /\ PlaceIn(lines, Word(at).to)
<1> DEFINE line == LineAt(lines, at.row)
           class == WordClass(line[at.col + 1])
           before == {k \in 1..at.col : WordClass(line[k]) # class}
           after == {k \in at.col..(Len(line) - 1) : WordClass(line[k + 1]) # class}
<1>1. /\ at.row \in 0..FinalRow(lines) /\ at.col \in Nat /\ Len(line) \in Nat
      /\ at.col <= Len(line)
  BY NumbersOf DEF PlaceIn
<1>2. CASE at.col >= Len(line)
  BY <1>2 DEF Word
<1>3. CASE ~(at.col >= Len(line))
  <2>1. before \subseteq 1..at.col /\ after \subseteq at.col..Len(line)
    BY <1>1
  <2>2. Word(at) = [from |-> Spot(at.row, Max({0} \cup before)),
                    to |-> Spot(at.row, Min(after \cup {Len(line)}))]
    BY <1>3 DEF Word
  <2> HIDE DEF before, after
  <2>3. Max({0} \cup before) \in 0..at.col
    BY <1>1, <2>1, MaxOfPart
  <2>4. Min(after \cup {Len(line)}) \in after \cup {Len(line)}
    <3> HIDE DEF line
    <3> QED
      BY <1>1, <2>1, MinOfPart
  <2> DEFINE from == Max({0} \cup before)
             to == Min(after \cup {Len(line)})
  <2>5. from \in 0..Len(line) /\ to \in 0..Len(line)
    <3> HIDE DEF line, from, to
    <3>1. from \in 0..at.col
      BY <2>3 DEF from
    <3>2. to \in after \cup {Len(line)}
      BY <2>4 DEF to
    <3> QED
      BY <1>1, <2>1, <3>1, <3>2
  <2> HIDE DEF from, to
  <2>6. Word(at).from = Spot(at.row, from) /\ Word(at).to = Spot(at.row, to)
    BY <2>2 DEF from, to
  <2> QED
    BY <1>1, <2>5, <2>6 DEF PlaceIn, Spot
<1> QED
  BY <1>2, <1>3

LEMMA SoundDoubleClick ==
  ASSUME EditInv, DoubleClick
  PROVE  EditInv'
<1>1. PICK at \in lastClick :
        /\ PointedAt({Word(at).from, Word(at).to}) /\ cursor' = Word(at).to
        /\ Extend(Word(at).from, Word(at).to)
  BY DEF DoubleClick
<1> DEFINE from == Word(at).from
           to == Word(at).to
<1>2. dragAnchor' = {} /\ lastClick' = {}
  BY DEF DoubleClick
<1>3. /\ lines' = lines /\ lines \in Document /\ pointed' \in BOOLEAN
      /\ ~pointed' => EdgeIn(lines, from) /\ EdgeIn(lines, to)
  BY <1>1, Pointing
<1>4. PlaceIn(lines, from) /\ PlaceIn(lines, to)
  BY <1>3, WordIsPlaces DEF EditInv, TextInv
<1> HIDE DEF from, to
<1>5. /\ clipboard' \in Seq(Scalar)
      /\ PlaceIn(lines, range'.anchor) /\ PlaceIn(lines, range'.focus)
      /\ EdgeIn(lines, from) => EdgeIn(lines, range'.anchor)
      /\ Active(range') => range'.focus = to
  BY <1>1, <1>4, RangeExtended DEF from, to
<1>6. cursor' = to
  BY <1>1 DEF to
<1> QED
  BY <1>2, <1>3, <1>4, <1>5, <1>6, InvAfter

\* A range from where the drag began to where the pointer is.
LEMMA DraggedRange ==
  ASSUME EditInv, NEW at \in Places, NEW from \in dragAnchor, PointedAt({at}), cursor' = at,
         range' = IF from = at THEN NoRange ELSE [anchor |-> from, focus |-> at]
  PROVE  /\ lines' = lines /\ lines \in Document /\ pointed' \in BOOLEAN
         /\ PlaceIn(lines, at) /\ PlaceIn(lines, from)
         /\ PlaceIn(lines, range'.anchor) /\ PlaceIn(lines, range'.focus)
         /\ ~pointed' => EdgeIn(lines, at) /\ EdgeIn(lines, range'.anchor)
                         /\ \A b \in dragAnchor : EdgeIn(lines, b)
         /\ Active(range') => range'.focus = at
<1>1. /\ lines' = lines /\ lines \in Document /\ pointed' \in BOOLEAN
      /\ ~pointed' => ~pointed /\ EdgeIn(lines, at)
  BY Pointing
<1>2. /\ PlaceIn(lines, at) /\ PlaceIn(lines, from)
      /\ ~pointed => \A b \in dragAnchor : EdgeIn(lines, b)
  BY PlacesAreInText DEF EditInv, TextInv, GraphemeInv
<1>3. CASE from = at
  <2>1. range' = NoRange
    BY <1>3
  <2> QED
    BY <1>1, <1>2, <2>1, NoRangeIsEdge
<1>4. CASE from # at
  <2>1. range'.anchor = from /\ range'.focus = at
    BY <1>4
  <2> QED
    BY <1>1, <1>2, <2>1
<1> QED
  BY <1>3, <1>4

LEMMA SoundDrag ==
  ASSUME EditInv, Drag
  PROVE  EditInv'
<1>1. PICK at \in Places, from \in dragAnchor :
        /\ PointedAt({at}) /\ cursor' = at
        /\ range' = IF from = at THEN NoRange ELSE [anchor |-> from, focus |-> at]
  BY DEF Drag
<1>2. clipboard' = clipboard /\ dragAnchor' = dragAnchor /\ lastClick' = lastClick
  BY DEF Drag
<1>3. clipboard \in Seq(Scalar) /\ \A b \in dragAnchor \cup lastClick : PlaceIn(lines, b)
  BY DEF EditInv, TextInv
<1>4. /\ lines' = lines /\ lines \in Document /\ pointed' \in BOOLEAN /\ PlaceIn(lines, at)
      /\ PlaceIn(lines, range'.anchor) /\ PlaceIn(lines, range'.focus)
      /\ ~pointed' => EdgeIn(lines, at) /\ EdgeIn(lines, range'.anchor)
                      /\ \A b \in dragAnchor : EdgeIn(lines, b)
      /\ Active(range') => range'.focus = at
  BY <1>1, DraggedRange
<1> QED
  BY <1>1, <1>2, <1>3, <1>4, InvAfter

LEMMA SoundRelease ==
  ASSUME EditInv, Release
  PROVE  EditInv'
<1>1. PICK at \in Places, from \in dragAnchor :
        /\ PointedAt({at}) /\ cursor' = at
        /\ range' = IF from = at THEN NoRange ELSE [anchor |-> from, focus |-> at]
        /\ clipboard' = IF from = at THEN clipboard ELSE Chosen([anchor |-> from, focus |-> at])
  BY DEF Release
<1>2. dragAnchor' = {} /\ lastClick' = lastClick
  BY DEF Release
<1>3. clipboard \in Seq(Scalar) /\ \A b \in lastClick : PlaceIn(lines, b)
  BY DEF EditInv, TextInv
<1>4. /\ lines' = lines /\ lines \in Document /\ pointed' \in BOOLEAN
      /\ PlaceIn(lines, at) /\ PlaceIn(lines, from)
      /\ PlaceIn(lines, range'.anchor) /\ PlaceIn(lines, range'.focus)
      /\ ~pointed' => EdgeIn(lines, at) /\ EdgeIn(lines, range'.anchor)
      /\ Active(range') => range'.focus = at
  BY <1>1, DraggedRange
<1> DEFINE new == [anchor |-> from, focus |-> at]
<1>5. new.anchor = from /\ new.focus = at
  OBVIOUS
<1>6. Chosen(new) \in Seq(Scalar)
  <2> HIDE DEF new
  <2> QED
    BY <1>4, <1>5, EndsOfRange DEF Chosen
<1>7. clipboard' \in Seq(Scalar)
  BY <1>1, <1>3, <1>6
<1> QED
  BY <1>1, <1>2, <1>3, <1>4, <1>7, InvAfter

-----------------------------------------------------------------------------
(* The keys that edit. *)

LEMMA SoundTypeChar ==
  ASSUME EditInv, TypeChar, UNCHANGED pointed
  PROVE  EditInv'
<1>1. clipboard' = clipboard
  BY DEF TypeChar, EditEnds
<1>2. PICK s \in Typed :
        LET at == Snapped(lines, cursor)
            kept == Continues(at, s) \/ at.col >= Len(LineAt(lines, at.row))
        IN  IF Active(range) \/ ~overwrite
            THEN ReplaceText(SelectedOrCursor.from, SelectedOrCursor.to, <<s>>)
            ELSE ReplaceText(at, IF kept THEN at ELSE NextGrapheme(lines, at), <<s>>)
  BY Zenon DEF TypeChar
<1> DEFINE at == Snapped(lines, cursor)
           kept == Continues(at, s) \/ at.col >= Len(LineAt(lines, at.row))
           to == IF kept THEN at ELSE NextGrapheme(lines, at)
<1>3. \/ ReplaceText(SelectedOrCursor.from, SelectedOrCursor.to, <<s>>)
      \/ ReplaceText(at, to, <<s>>)
  BY <1>2, Zenon
<1>4. <<s>> \in Seq(Scalar) /\ lines \in Document /\ clipboard \in Seq(Scalar)
  <2>1. s \in Scalar
    BY EditAssumption
  <2> QED
    BY <2>1 DEF EditInv, TextInv
<1>5. PlaceIn(lines, at) /\ PlaceIn(lines, NextGrapheme(lines, at))
  <2>1. cursor.row \in 0..FinalRow(lines) /\ cursor.col \in Nat
    BY <1>4, NumbersOf DEF EditInv, TextInv, PlaceIn
  <2>2. PlaceIn(lines, at)
    BY <1>4, <2>1, SnappedIsEdge, EdgeIsPlace
  <2> HIDE DEF at
  <2> QED
    BY <1>4, <2>2, RightIsEdge, EdgeIsPlace
<1> HIDE DEF kept, at
<1>6. PlaceIn(lines, to)
  BY <1>5
<1> HIDE DEF to
<1>7. Settled'
  BY <1>3, <1>4, <1>5, <1>6, SelectionIsPlaces, AfterReplaced
<1> QED
  BY <1>1, <1>4, <1>7, SettledIsSound

LEMMA SoundBreakLine ==
  ASSUME EditInv, BreakLine, UNCHANGED pointed
  PROVE  EditInv'
<1> DEFINE at == SelectedOrCursor
           before == Prefix(LineAt(lines, at.from.row), at.from.col)
           with == <<"n">> \o Indentation(before)
<1>1. clipboard' = clipboard /\ ReplaceText(at.from, at.to, with)
  BY Zenon DEF BreakLine, EditEnds
<1>2. lines \in Document /\ clipboard \in Seq(Scalar)
  BY DEF EditInv, TextInv
<1>3. PlaceIn(lines, at.from) /\ PlaceIn(lines, at.to)
  BY SelectionIsPlaces
<1> HIDE DEF at
<1>4. before \in Seq(Scalar)
  BY <1>2, <1>3, RowsOf, PartsOf DEF PlaceIn
<1> HIDE DEF before
<1>5. with \in Seq(Scalar)
  <2>1. <<"n">> \in Seq(Scalar)
    BY ScalarFacts
  <2> QED
    BY <1>4, <2>1, IndentationIsText, ConcatProperties
<1> HIDE DEF with
<1>6. Settled'
  BY <1>1, <1>2, <1>3, <1>5, AfterReplaced
<1> QED
  BY <1>1, <1>2, <1>6, SettledIsSound

LEMMA SoundHandleTab ==
  ASSUME EditInv, HandleTab, UNCHANGED pointed
  PROVE  EditInv'
<1>1. clipboard' = clipboard /\ clipboard \in Seq(Scalar) /\ lines \in Document
      /\ PlaceIn(lines, cursor)
  BY DEF HandleTab, EditEnds, EditInv, TextInv
<1>2. PICK unindent \in BOOLEAN :
        LET end == Second(range)
        IN  CASE Active(range) ->
                   EditLines(First(range).row,
                             IF end.col = 0 /\ end.row > First(range).row THEN end.row - 1 ELSE end.row,
                             unindent)
              [] ~Active(range) /\ unindent -> EditLines(cursor.row, cursor.row, TRUE)
              [] OTHER ->
                   LET cell == ScalarToCell(LineAt(lines, cursor.row), cursor.col)
                   IN  ReplaceText(cursor, cursor, Spaces(TabSize - (cell % TabSize)))
  BY Zenon DEF HandleTab
<1> DEFINE end == Second(range)
           cell == ScalarToCell(LineAt(lines, cursor.row), cursor.col)
           last == IF end.col = 0 /\ end.row > First(range).row THEN end.row - 1 ELSE end.row
           n == TabSize - (cell % TabSize)
<1>3. CASE Active(range)
  <2>1. EditLines(First(range).row, last, unindent)
    BY <1>2, <1>3, Zenon
  <2> HIDE DEF last
  <2>2. Settled'
    BY <1>1, <2>1, AfterEditLines
  <2> QED
    BY <1>1, <2>2, SettledIsSound
<1>4. CASE ~Active(range) /\ unindent
  <2>1. EditLines(cursor.row, cursor.row, TRUE)
    BY <1>2, <1>4, Zenon
  <2>2. TRUE \in BOOLEAN
    OBVIOUS
  <2>3. Settled'
    BY <1>1, <2>1, <2>2, AfterEditLines
  <2> QED
    BY <1>1, <2>3, SettledIsSound
<1>5. CASE ~Active(range) /\ ~unindent
  <2>1. ReplaceText(cursor, cursor, Spaces(n))
    BY <1>2, <1>5, Zenon
  <2>2. cell \in Nat
    BY <1>1, NumbersOf, CellIsNat
  <2> HIDE DEF cell
  <2>3. n \in Nat
    BY <2>2, EditAssumption
  <2> HIDE DEF n
  <2>4. Spaces(n) \in Seq(Scalar)
    BY <2>3, SpacesAreText
  <2>5. Settled'
    BY <1>1, <2>1, <2>4, AfterReplaced
  <2> QED
    BY <1>1, <2>5, SettledIsSound
<1> QED
  BY <1>3, <1>4, <1>5

LEMMA NothingIsText == <<>> \in Seq(Scalar)
  BY EmptySeq

LEMMA SoundDeleteTo ==
  ASSUME EditInv, DeleteTo, UNCHANGED pointed
  PROVE  EditInv'
<1>1. clipboard' = clipboard /\ clipboard \in Seq(Scalar) /\ lines \in Document
      /\ PlaceIn(lines, cursor)
  BY DEF DeleteTo, EditEnds, EditInv, TextInv
<1>2. PICK motion \in Motions : DeletedTo(Target(motion))
  BY DEF DeleteTo, Motions
<1> DEFINE target == Target(motion)
<1>3. PlaceIn(lines, target)
  BY <1>1, Targets
<1> HIDE DEF target
<1>4. \/ ReplaceText(First(range), Second(range), <<>>)
      \/ ReplaceText(target, cursor, <<>>)
      \/ ReplaceText(cursor, target, <<>>)
  BY <1>2, Zenon DEF DeletedTo, target
<1>5. Settled'
  BY <1>1, <1>3, <1>4, SelectionIsPlaces, NothingIsText, AfterReplaced
<1> QED
  BY <1>1, <1>5, SettledIsSound

LEMMA SoundCut ==
  ASSUME EditInv, Cut, UNCHANGED pointed
  PROVE  EditInv'
<1>1. clipboard' = Chosen(range) /\ ReplaceText(First(range), Second(range), <<>>)
  BY DEF Cut
<1>2. Settled'
  BY <1>1, SelectionIsPlaces, NothingIsText, AfterReplaced DEF EditInv, TextInv
<1> QED
  BY <1>1, <1>2, SelectionIsPlaces, SettledIsSound

LEMMA SoundPaste ==
  ASSUME EditInv, Paste, UNCHANGED pointed
  PROVE  EditInv'
<1>1. PICK text \in Pasted \cup {clipboard} :
        ReplaceText(SelectedOrCursor.from, SelectedOrCursor.to, text)
  BY DEF Paste
<1>2. clipboard' = clipboard /\ clipboard \in Seq(Scalar) /\ lines \in Document
  BY DEF Paste, EditEnds, EditInv, TextInv
<1>3. text \in Seq(Scalar)
  BY <1>2, EditAssumption
<1>4. Settled'
  BY <1>1, <1>2, <1>3, SelectionIsPlaces, AfterReplaced
<1> QED
  BY <1>2, <1>4, SettledIsSound

\* The line a cut takes: to the start of the next, or to its end if it is the last.
LineCut ==
  LET row == cursor.row
  IN  IF row < FinalRow(lines) THEN Spot(row + 1, 0) ELSE Spot(row, Len(LineAt(lines, row)))

LEMMA LineCutIsPlace ==
  ASSUME EditInv
  PROVE  /\ PlaceIn(lines, Spot(cursor.row, 0)) /\ PlaceIn(lines, LineCut)
         /\ Selected(lines, Spot(cursor.row, 0), LineCut) \in Seq(Scalar)
<1>1. lines \in Document /\ PlaceIn(lines, cursor)
  BY DEF EditInv, TextInv
<1>2. /\ cursor.row \in 0..FinalRow(lines) /\ cursor.row \in Nat /\ FinalRow(lines) \in Nat
      /\ Len(LineAt(lines, cursor.row)) \in Nat
  BY <1>1, NumbersOf DEF PlaceIn
<1>3. PlaceIn(lines, Spot(cursor.row, 0))
  BY <1>1, <1>2, LineEnds, EdgeIsPlace
<1>4. PlaceIn(lines, LineCut) /\ Before(Spot(cursor.row, 0), LineCut)
  <2>1. CASE cursor.row < FinalRow(lines)
    <3>1. cursor.row + 1 \in 0..FinalRow(lines)
      BY <1>2, <2>1
    <3>2. LineCut = Spot(cursor.row + 1, 0)
      BY <2>1 DEF LineCut
    <3>3. Before(Spot(cursor.row, 0), LineCut)
      BY <1>2, <3>2 DEF Before, Spot
    <3> QED
      BY <1>1, <3>1, <3>2, <3>3, LineEnds, EdgeIsPlace
  <2>2. CASE ~(cursor.row < FinalRow(lines))
    <3>1. LineCut = Spot(cursor.row, Len(LineAt(lines, cursor.row)))
      BY <2>2 DEF LineCut
    <3>2. Before(Spot(cursor.row, 0), LineCut)
      BY <1>2, <3>1 DEF Before, Spot
    <3> QED
      BY <1>1, <1>2, <3>1, <3>2, LineEnds, EdgeIsPlace
  <2> QED
    BY <2>1, <2>2
<1> QED
  BY <1>1, <1>3, <1>4, SelectedIsText

LEMMA SoundCutLine ==
  ASSUME EditInv, CutLine, UNCHANGED pointed
  PROVE  EditInv'
<1> DEFINE text == Selected(lines, Spot(cursor.row, 0), LineCut)
<1>1. /\ clipboard' = (IF cutting THEN clipboard ELSE <<>>) \o text
      /\ ReplaceText(Spot(cursor.row, 0), LineCut, <<>>)
  BY Zenon DEF CutLine, LineCut
<1>2. lines \in Document /\ clipboard \in Seq(Scalar)
  BY DEF EditInv, TextInv
<1>3. /\ PlaceIn(lines, Spot(cursor.row, 0)) /\ PlaceIn(lines, LineCut)
      /\ text \in Seq(Scalar)
  BY LineCutIsPlace
<1> HIDE DEF text
<1>4. clipboard' \in Seq(Scalar)
  BY <1>1, <1>2, <1>3, NothingIsText, ConcatProperties
<1>5. Settled'
  BY <1>1, <1>2, <1>3, NothingIsText, AfterReplaced
<1> QED
  BY <1>4, <1>5, SettledIsSound

LEMMA InitiallySound ==
  ASSUME EditInit
  PROVE  EditInv
<1>1. lines \in Document
  BY EditAssumption DEF EditInit, Document
<1>2. /\ cursor = Spot(0, 0) /\ range = NoRange /\ clipboard = <<>> /\ dragAnchor = {}
      /\ lastClick = {} /\ pointed = FALSE
  BY DEF EditInit
<1>3. EdgeIn(lines, cursor) /\ PlaceIn(lines, cursor)
  BY <1>1, <1>2, EndOfDocument, EdgeIsPlace
<1> QED
  BY <1>1, <1>2, <1>3, NoRangeIsEdge, NothingIsText DEF EditInv, TextInv, GraphemeInv

LEMMA StepsAreSound ==
  ASSUME EditInv, [EditNext]_editVars
  PROVE  EditInv'
<1>1. CASE UNCHANGED editVars
  BY <1>1, InvAfter DEF editVars, EditInv, TextInv, GraphemeInv
<1>2. CASE EditNext
  BY <1>2, SoundMove, SoundSelectAll, SoundCopy, SoundTypeChar, SoundBreakLine, SoundHandleTab,
     SoundDeleteTo, SoundCut, SoundCutLine, SoundPaste, SoundClick, SoundDoubleClick, SoundDrag,
     SoundRelease DEF EditNext
<1> QED
  BY <1>1, <1>2

\* KeysKeepGraphemes: wherever the keys lead and whatever they do to the text, the cursor
\* and both ends of the selection are between two graphemes of it.
THEOREM KeysAlwaysKeepGraphemes == EditSpec => []KeysKeepGraphemes
<1>1. EditInv => KeysKeepGraphemes
  BY EdgesOf, EdgeIsPlace
     DEF EditInv, TextInv, GraphemeInv, KeysKeepGraphemes, AtGrapheme, InText, EdgeIn, PlaceIn, Edges
<1> QED
  BY <1>1, InitiallySound, StepsAreSound, PTL DEF EditSpec

-----------------------------------------------------------------------------
(* Lines cut one after the other. *)

LEMMA WholeLine ==
  ASSUME NEW S, NEW line \in Seq(S)
  PROVE  /\ Prefix(line, 0) = <<>> /\ Suffix(line, 0) = line
         /\ Suffix(line, Len(line)) = <<>> /\ Slice(line, 0, Len(line)) = line
<1>1. Len(line) \in Nat /\ SubSeq(line, 1, Len(line)) = line
  BY LenProperties, SubSeqFull
<1>2. Prefix(line, 0) = <<>>
  <2>1. 0 \in 0..Len(line)
    BY <1>1
  <2>2. Prefix(line, 0) \in Seq(S) /\ Len(Prefix(line, 0)) = 0
    BY <2>1, PartsOf
  <2> QED
    BY <2>2, EmptySeq
<1>3. Slice(line, 0, Len(line)) = line
  <2>1. 0 + 1 = 1
    OBVIOUS
  <2> QED
    BY <1>1, <2>1, Zenon DEF Slice
<1>4. Suffix(line, Len(line)) = <<>>
  <2>1. Len(line) \in 0..Len(line)
    BY <1>1
  <2>2. Suffix(line, Len(line)) \in Seq(S) /\ Len(Suffix(line, Len(line))) = Len(line) - Len(line)
    BY <2>1, SuffixAt DEF Suffix, Slice
  <2>3. Len(Suffix(line, Len(line))) = 0
    BY <1>1, <2>2
  <2> QED
    BY <2>2, <2>3, EmptySeq
<1> QED
  BY <1>2, <1>3, <1>4, Zenon DEF Suffix

\* A text put at the start of a row.
LEMMA RowReplaced ==
  ASSUME NEW text \in Document, NEW at, at.row \in 0..FinalRow(text), at.col = 0,
         NEW with \in Seq(Scalar)
  PROVE  Replaced(text, at, at, with)
           = (SubSeq(text, 1, at.row) \o SplitLines(with \o LineAt(text, at.row)))
               \o SubSeq(text, at.row + 2, Len(text))
<1> DEFINE line == LineAt(text, at.row)
<1>1. line \in Seq(Scalar)
  BY RowsOf
<1>2. Prefix(line, at.col) = <<>> /\ Suffix(line, at.col) = line
  <2> HIDE DEF line
  <2> QED
    BY <1>1, WholeLine
<1>3. <<>> \o with = with
  BY ConcatEmptySeq
<1>4. Replaced(text, at, at, with)
        = (SubSeq(text, 1, at.row) \o SplitLines((Prefix(line, at.col) \o with) \o Suffix(line, at.col)))
            \o SubSeq(text, at.row + 2, Len(text))
  BY Zenon DEF Replaced
<1> QED
  BY <1>2, <1>3, <1>4, Zenon

\* What a line cut leaves: the rows above, one row, and the rows below.
LEMMA LeftByLineCut ==
  ASSUME EditInv, CutLine, NEW row, NEW head, NEW foot,
         head = SubSeq(lines, 1, cursor.row), 
         row = (IF cursor.row < FinalRow(lines) THEN LineAt(lines, cursor.row + 1) ELSE <<>>),
         foot = SubSeq(lines, LineCut.row + 2, Len(lines))
  PROVE  /\ lines' = (head \o <<row>>) \o foot
         /\ head \in Seq(LineText) /\ foot \in Seq(LineText) /\ row \in LineText
         /\ Len(head) = cursor.row
         /\ cursor' = Spot(cursor.row, 0)
<1> DEFINE from == Spot(cursor.row, 0)
<1>1. ReplaceText(from, LineCut, <<>>)
  BY Zenon DEF CutLine, LineCut
<1>2. lines \in Document /\ PlaceIn(lines, cursor) /\ PlaceIn(lines, from) /\ PlaceIn(lines, LineCut)
  BY LineCutIsPlace DEF EditInv, TextInv
<1>3. /\ cursor.row \in 0..FinalRow(lines) /\ cursor.row \in Nat /\ FinalRow(lines) \in Nat
      /\ Len(lines) = FinalRow(lines) + 1 /\ lines \in Seq(LineText)
  BY <1>2, NumbersOf, RowsOf DEF PlaceIn
<1>4. head \in Seq(LineText) /\ Len(head) = cursor.row
  BY <1>3, PrefixAt
<1>5. foot \in Seq(LineText)
  <2>0. LineCut.row \in 0..FinalRow(lines)
    BY <1>2 DEF PlaceIn
  <2>1. LineCut.row + 1 \in 0..Len(lines) /\ (LineCut.row + 1) + 1 = LineCut.row + 2
    BY <1>3, <2>0
  <2>2. SubSeq(lines, (LineCut.row + 1) + 1, Len(lines)) \in Seq(LineText)
    BY <1>3, <2>1, SuffixAt
  <2> QED
    BY <2>1, <2>2
<1>6. row \in LineText /\ Suffix(LineAt(lines, LineCut.row), LineCut.col) = row
  <2>1. CASE cursor.row < FinalRow(lines)
    <3>1. LineCut.row = cursor.row + 1 /\ LineCut.col = 0 /\ row = LineAt(lines, cursor.row + 1)
      BY <2>1 DEF LineCut, Spot
    <3>2. cursor.row + 1 \in 0..FinalRow(lines)
      BY <1>3, <2>1
    <3>3. row \in LineText /\ row \in Seq(Scalar)
      BY <1>2, <3>1, <3>2, RowsOf
    <3>4. Suffix(row, 0) = row
      BY <3>3, WholeLine
    <3> QED
      BY <3>1, <3>3, <3>4, Zenon
  <2>2. CASE ~(cursor.row < FinalRow(lines))
    <3> DEFINE line == LineAt(lines, cursor.row)
    <3>1. LineCut.row = cursor.row /\ LineCut.col = Len(line) /\ row = <<>>
      BY <2>2 DEF LineCut, Spot
    <3>2. line \in Seq(Scalar)
      BY <1>2, <1>3, RowsOf
    <3> HIDE DEF line
    <3>3. Suffix(line, Len(line)) = <<>>
      BY <3>2, WholeLine
    <3>4. <<>> \in LineText
      BY EmptySeq DEF LineText
    <3> QED
      BY <3>1, <3>3, <3>4, Zenon DEF line
  <2> QED
    BY <2>1, <2>2
<1>7. Prefix(LineAt(lines, from.row), from.col) = <<>> /\ from.row = cursor.row /\ from.col = 0
  <2>1. from.row = cursor.row /\ from.col = 0
    BY DEF Spot
  <2>2. LineAt(lines, cursor.row) \in Seq(Scalar)
    BY <1>2, <1>3, RowsOf
  <2>3. Prefix(LineAt(lines, cursor.row), 0) = <<>>
    BY <2>2, WholeLine
  <2> QED
    BY <2>1, <2>3, Zenon
<1>8. Replaced(lines, from, LineCut, <<>>) = (head \o <<row>>) \o foot
  <2>1. Replaced(lines, from, LineCut, <<>>)
          = (head \o SplitLines((<<>> \o <<>>) \o row)) \o foot
    BY <1>6, <1>7, Zenon DEF Replaced
  <2>2. (<<>> \o <<>>) \o row = row
    <3>1. <<>> \o <<>> = <<>> /\ row \in Seq(Scalar)
      BY <1>6, NothingIsText, ConcatEmptySeq, LineIsText
    <3> QED
      BY <3>1, ConcatEmptySeq
  <2>3. SplitLines(row) = <<row>>
    BY <1>6, SplitLine
  <2> QED
    BY <2>1, <2>2, <2>3, Zenon
<1>9. EndOf(from, <<>>) = Spot(cursor.row, 0)
  <2>1. Len(SplitLines(<<>>)) = 1
    BY SplitEmpty
  <2>2. Len(<<>>) = 0
    OBVIOUS
  <2>3. EndOf(from, <<>>) = Spot(from.row, from.col + Len(<<>>))
    BY <2>1, Zenon DEF EndOf
  <2>4. from.col + Len(<<>>) = 0
    BY <1>7, <2>2
  <2> QED
    BY <1>7, <2>3, <2>4, Zenon
<1> DEFINE all == (head \o <<row>>) \o foot
<1>10. Recorded(all, Spot(cursor.row, 0))
  BY <1>1, <1>8, <1>9, Zenon DEF ReplaceText
<1>11. LineAt(all, cursor.row) = row
  <2>1. all = (head \o <<row>>) \o foot
    OBVIOUS
  <2> HIDE DEF all
  <2>2. all[Len(head) + 1] = row
    <3>1. head \in Seq(LineText) /\ row \in LineText /\ foot \in Seq(LineText)
      BY <1>4, <1>5, <1>6
    <3>2. Apart(LineText, head, row, foot, all)
      BY <2>1, <3>1, RowsApart, Zenon
    <3> QED
      BY <3>2 DEF Apart
  <2> QED
    BY <1>4, <2>2 DEF LineAt
<1> HIDE DEF all
<1>12. lines' = all /\ cursor' = SnappedForward(all, Spot(cursor.row, 0))
  BY <1>10 DEF Recorded
<1>13. SnappedForward(all, Spot(cursor.row, 0)) = Spot(cursor.row, 0)
  <2> DEFINE r == GraphemeRange(row, 0)
  <2>1. r.from = 0
    <3>1. row \in Seq(Scalar) /\ Len(row) \in Nat
      BY <1>6, LineIsText, LenProperties
    <3>2. CASE 0 >= Len(row)
      BY <3>1, <3>2 DEF GraphemeRange
    <3>3. CASE ~(0 >= Len(row))
      <4>1. GraphemeStart(row, 0) \in Starts(row) /\ GraphemeStart(row, 0) <= 0
        BY <3>1, <3>3, StartIsEdge
      <4>2. Starts(row) \subseteq 0..Len(row) - 1
        BY <3>1, EdgesOf
      <4>3. GraphemeStart(row, 0) = 0
        BY <3>1, <4>1, <4>2
      <4> QED
        BY <3>3, <4>3 DEF GraphemeRange
    <3> QED
      BY <3>2, <3>3
  <2>2. Spot(cursor.row, 0).row = cursor.row /\ Spot(cursor.row, 0).col = 0
    BY DEF Spot
  <2>3. SnappedForward(all, Spot(cursor.row, 0)) = Spot(cursor.row, IF r.from = 0 THEN 0 ELSE r.to)
    BY <1>11, <2>2, Zenon DEF SnappedForward
  <2> QED
    BY <2>1, <2>3, Zenon
<1> QED
  BY <1>4, <1>5, <1>6, <1>12, <1>13 DEF all

\* What a line cut takes when there is a line below.
LEMMA LineSelected ==
  ASSUME NEW text \in Document, NEW row \in 0..FinalRow(text), row < FinalRow(text)
  PROVE  Selected(text, Spot(row, 0), Spot(row + 1, 0)) = LineAt(text, row) \o <<"n">>
<1> DEFINE line == LineAt(text, row)
           next == LineAt(text, row + 1)
           start == Spot(row, 0)
           end == Spot(row + 1, 0)
           rest(r) == IF r = end.row THEN Prefix(LineAt(text, r), end.col) ELSE LineAt(text, r)
           first == Suffix(LineAt(text, start.row), start.col)
           Step(f, k) == IF k = 0 THEN first ELSE (f[k - 1] \o <<"n">>) \o rest(start.row + k)
           rows == CHOOSE f : f = [k \in 0..(end.row - start.row) |-> Step(f, k)]
           one == [k \in 0..1 |-> IF k = 0 THEN line ELSE line \o <<"n">>]
<1>1. /\ row \in Nat /\ row + 1 \in 0..FinalRow(text) /\ start.row = row /\ start.col = 0
      /\ end.row = row + 1 /\ end.col = 0 /\ end.row - start.row = 1 /\ start.row # end.row
  BY RowsOf DEF Spot
<1>2. line \in Seq(Scalar) /\ next \in Seq(Scalar) /\ <<"n">> \in Seq(Scalar)
  BY <1>1, RowsOf, ScalarFacts
<1>3. Selected(text, start, end) = rows[end.row - start.row]
  BY <1>1, Zenon DEF Selected
<1> HIDE DEF start, end, line, next
<1>4. first = line
  <2>1. Suffix(line, 0) = line
    BY <1>2, WholeLine
  <2> QED
    BY <1>1, <2>1 DEF line
<1>5. rest(row + 1) = <<>>
  <2>1. Prefix(next, 0) = <<>>
    BY <1>2, WholeLine
  <2> QED
    BY <1>1, <2>1 DEF next
<1>6. (line \o <<"n">>) \o <<>> = line \o <<"n">>
  <2>1. line \o <<"n">> \in Seq(Scalar)
    BY <1>2, ConcatProperties
  <2> QED
    BY <2>1, ConcatEmptySeq
<1> HIDE DEF rest, first
<1>7. \A f : f[0] = line => Step(f, 0) = line /\ Step(f, 1) = line \o <<"n">>
  <2> SUFFICES ASSUME NEW f, f[0] = line
               PROVE  Step(f, 0) = line /\ Step(f, 1) = line \o <<"n">>
    OBVIOUS
  <2>1. Step(f, 0) = line
    BY <1>4
  <2>2. 1 - 1 = 0 /\ 1 # 0 /\ start.row + 1 = row + 1
    BY <1>1
  <2>3. Step(f, 1) = (f[0] \o <<"n">>) \o rest(row + 1)
    BY <2>2, Zenon
  <2> QED
    BY <1>5, <1>6, <2>1, <2>3, Zenon
<1>8. \A f : Step(f, 0) = line
  BY <1>4
<1> HIDE DEF Step
<1>9. 0..(end.row - start.row) = 0..1 /\ 0..1 = {0, 1}
  BY <1>1
<1>10. one = [k \in 0..(end.row - start.row) |-> Step(one, k)]
  <2>1. one[0] = line /\ one[1] = line \o <<"n">>
    OBVIOUS
  <2>2. Step(one, 0) = line /\ Step(one, 1) = line \o <<"n">>
    BY <1>7, <2>1
  <2>3. \A k \in 0..1 : one[k] = Step(one, k)
    <3> HIDE DEF one
    <3> QED
      BY <1>9, <2>1, <2>2
  <2> QED
    BY <1>9, <2>3
<1>11. rows = [k \in 0..(end.row - start.row) |-> Step(rows, k)]
  BY <1>10, Zenon
<1> HIDE DEF rows
<1>12. rows[0] = Step(rows, 0) /\ rows[1] = Step(rows, 1)
  <2>1. 0 \in 0..(end.row - start.row) /\ 1 \in 0..(end.row - start.row)
    BY <1>9
  <2> QED
    BY <1>11, <2>1
<1>13. rows[0] = line /\ rows[1] = line \o <<"n">>
  BY <1>7, <1>8, <1>12
<1> QED
  BY <1>1, <1>3, <1>13 DEF start, end, line

CutInv ==
  cutting => cursor.col = 0 /\ Replaced(lines, cursor, cursor, clipboard) = cutFrom

\* One more line cut is one more line that a paste brings back.
LEMMA LineComesBack ==
  ASSUME EditInv, CutInv, CutLine
  PROVE  CutInv'
<1> DEFINE r == cursor.row
           here == Spot(r, 0)
           line == LineAt(lines, r)
           row == IF r < FinalRow(lines) THEN LineAt(lines, r + 1) ELSE <<>>
           head == SubSeq(lines, 1, r)
           foot == SubSeq(lines, LineCut.row + 2, Len(lines))
           below == SubSeq(lines, r + 2, Len(lines))
           kept == IF cutting THEN clipboard ELSE <<>>
           text == Selected(lines, here, LineCut)
           from == IF cutting THEN cutFrom ELSE lines
<1>1. /\ clipboard' = kept \o text /\ cutFrom' = from /\ cutting' = TRUE
  BY Zenon DEF CutLine, LineCut
<1>2. lines \in Document /\ PlaceIn(lines, cursor) /\ clipboard \in Seq(Scalar)
  BY DEF EditInv, TextInv
<1>3. /\ r \in 0..FinalRow(lines) /\ r \in Nat /\ FinalRow(lines) \in Nat
      /\ Len(lines) = FinalRow(lines) + 1 /\ lines \in Seq(LineText)
      /\ line \in Seq(Scalar) /\ line \in LineText /\ Len(line) \in Nat
  BY <1>2, NumbersOf, RowsOf DEF PlaceIn
<1>4. kept \in Seq(Scalar)
  BY <1>2, NothingIsText
<1>5. /\ lines' = (head \o <<row>>) \o foot
      /\ head \in Seq(LineText) /\ foot \in Seq(LineText) /\ row \in LineText
      /\ Len(head) = r /\ cursor' = here
  BY Zenon, LeftByLineCut
<1> HIDE DEF head, foot, row, kept, text, from, line
<1>6. /\ lines' \in Document /\ Len(lines') = r + 1 + Len(foot)
      /\ SubSeq(lines', 1, r) = head /\ LineAt(lines', r) = row
      /\ SubSeq(lines', r + 2, Len(lines')) = foot
  <2>1. /\ lines' \in Seq(LineText) /\ lines' # <<>> /\ Len(lines') = Len(head) + 1 + Len(foot)
        /\ SubSeq(lines', 1, Len(head)) = head /\ lines'[Len(head) + 1] = row
        /\ SubSeq(lines', Len(head) + 2, Len(lines')) = foot
    <3>1. Apart(LineText, head, row, foot, lines')
      BY <1>5, RowsApart, Zenon
    <3> QED
      BY <3>1 DEF Apart
  <2> QED
    BY <1>5, <2>1, Zenon DEF Document, LineAt
<1>7. here.row = r /\ here.col = 0 /\ cursor'.col = 0
  BY <1>5 DEF Spot
<1>8. from = (head \o SplitLines(kept \o line)) \o below
  <2>1. CASE cutting
    <3>1. cursor.col = 0 /\ Replaced(lines, cursor, cursor, clipboard) = cutFrom
      BY <2>1 DEF CutInv
    <3>2. Replaced(lines, cursor, cursor, clipboard)
            = (head \o SplitLines(clipboard \o line)) \o below
      BY <1>2, <1>3, <3>1, RowReplaced DEF head, line
    <3> QED
      BY <2>1, <3>1, <3>2 DEF from, kept
  <2>2. CASE ~cutting
    <3>1. <<>> \o line = line
      BY <1>3, ConcatEmptySeq
    <3>2. SplitLines(line) = <<line>>
      BY <1>3, SplitLine
    <3>3. (head \o <<line>>) \o below = lines
      <4>1. r + 1 <= Len(lines)
        BY <1>3
      <4>2. (SubSeq(lines, 1, r) \o <<lines[r + 1]>>) \o SubSeq(lines, r + 2, Len(lines)) = lines
        BY <1>3, <4>1, SplitAround
      <4> QED
        BY <4>2, Zenon DEF head, line, LineAt
    <3> QED
      BY <2>2, <3>1, <3>2, <3>3, Zenon DEF from, kept
  <2> QED
    BY <2>1, <2>2
<1>9. clipboard' \in Seq(Scalar)
  BY <1>1, <1>4, LineCutIsPlace, ConcatProperties DEF text
<1>10. Replaced(lines', here, here, clipboard')
         = (head \o SplitLines(clipboard' \o row)) \o foot
  <2>1. here.row \in 0..FinalRow(lines')
    <3>1. Len(foot) \in Nat
      BY <1>5, LenProperties
    <3> QED
      BY <1>3, <1>6, <1>7, <3>1 DEF FinalRow
  <2>2. Replaced(lines', here, here, clipboard')
         = (SubSeq(lines', 1, here.row) \o SplitLines(clipboard' \o LineAt(lines', here.row)))
             \o SubSeq(lines', here.row + 2, Len(lines'))
    <3> HIDE DEF here
    <3> QED
      BY <1>6, <1>7, <1>9, <2>1, RowReplaced
  <2> QED
    BY <1>6, <1>7, <2>2, Zenon
<1>11. (head \o SplitLines(clipboard' \o row)) \o foot = (head \o SplitLines(kept \o line)) \o below
  <2>1. SplitLines(kept \o line) \in Seq(LineText) /\ kept \o line \in Seq(Scalar)
    <3>1. kept \o line \in Seq(Scalar)
      BY <1>3, <1>4, ConcatProperties
    <3> QED
      BY <3>1, SplitIsDocument DEF Document
  <2>2. CASE r < FinalRow(lines)
    <3>1. LineCut = Spot(r + 1, 0) /\ row = LineAt(lines, r + 1)
      BY <2>2 DEF LineCut, row
    <3>2. text = line \o <<"n">>
      BY <1>2, <1>3, <2>2, <3>1, LineSelected DEF text, line
    <3>3. clipboard' = (kept \o line) \o <<"n">>
      <4>1. <<"n">> \in Seq(Scalar)
        BY ScalarFacts
      <4> QED
        BY <1>1, <1>3, <1>4, <3>2, <4>1, ConcatAssociative
    <3>4. SplitLines(clipboard' \o row) = Append(SplitLines(kept \o line), row)
      BY <1>5, <2>1, <3>3, SplitTwo, Zenon
    <3>5. below = <<row>> \o foot
      <4>1. foot = SubSeq(lines, (r + 1) + 2, Len(lines)) /\ r + 1 \in 0..FinalRow(lines)
            /\ (r + 1) + 1 = r + 2
        <5>1. LineCut.row = r + 1
          BY <3>1 DEF Spot
        <5> QED
          BY <1>3, <2>2, <5>1 DEF foot
      <4>2. SubSeq(lines, (r + 1) + 1, Len(lines)) = <<lines[(r + 1) + 1]>> \o foot
        <5>1. r + 1 \in Nat /\ (r + 1) + 1 <= Len(lines)
          BY <1>3, <2>2
        <5> QED
          BY <1>3, <4>1, <5>1, FirstApart
      <4> QED
        BY <3>1, <4>1, <4>2 DEF LineAt
    <3> DEFINE rows == SplitLines(kept \o line)
    <3>6. rows \in Seq(LineText)
      BY <2>1
    <3> HIDE DEF rows
    <3>7. (head \o Append(rows, row)) \o foot = (head \o rows) \o (<<row>> \o foot)
      <4>1. head \in Seq(LineText) /\ foot \in Seq(LineText) /\ row \in LineText
        BY <1>5
      <4> QED
        BY <3>6, <4>1, RowBetween
    <3>8. SplitLines(clipboard' \o row) = Append(rows, row)
      BY <3>4, Zenon DEF rows
    <3>9. (head \o SplitLines(clipboard' \o row)) \o foot = (head \o rows) \o below
      BY <3>5, <3>7, <3>8
    <3> QED
      BY <3>9, Zenon DEF rows
  <2>3. CASE ~(r < FinalRow(lines))
    <3>1. r = FinalRow(lines)
      BY <1>3, <2>3
    <3>2. LineCut = Spot(r, Len(line)) /\ row = <<>>
      BY <2>3 DEF LineCut, row, line
    <3>3. text = line
      <4>1. text = Slice(line, 0, Len(line))
        <5>1. LineCut.row = r /\ LineCut.col = Len(line)
          BY <3>2 DEF Spot
        <5> QED
          BY <1>7, <5>1, Zenon DEF text, Selected, line
      <4> QED
        BY <1>3, <4>1, WholeLine
    <3>4. clipboard' \o row = kept \o line
      <4>1. (kept \o line) \o <<>> = kept \o line
        BY <2>1, ConcatEmptySeq
      <4> QED
        BY <1>1, <3>2, <3>3, <4>1, Zenon
    <3>5. foot = below
      <4>1. LineCut.row = r
        BY <3>2 DEF Spot
      <4> QED
        BY <4>1, Zenon DEF foot
    <3> QED
      BY <3>4, <3>5, Zenon
  <2> QED
    BY <2>2, <2>3
<1>12. Replaced(lines', cursor', cursor', clipboard') = cutFrom'
  BY <1>1, <1>5, <1>8, <1>10, <1>11, Zenon
<1> QED
  BY <1>7, <1>12 DEF CutInv

LEMMA CutsAreKept ==
  ASSUME EditInv, CutInv, [EditNext]_editVars
  PROVE  CutInv'
<1>1. CASE CutLine
  BY <1>1, LineComesBack
<1>2. CASE UNCHANGED editVars
  BY <1>2 DEF editVars, CutInv
<1>3. CASE EditNext /\ ~CutLine
  <2>1. cutting' = FALSE
    BY <1>3 DEF EditNext, Move, SelectAll, Copy, ToggleOverwrite, TypeChar, BreakLine, HandleTab,
       DeleteTo, Cut, Paste, Click, DoubleClick, Drag, Release, EditEnds, PointedAt, EndCutLineChain
  <2> QED
    BY <2>1 DEF CutInv
<1> QED
  BY <1>1, <1>2, <1>3

\* CutLinesReturn: however many lines were cut one after the other, pasting what was cut
\* gives the text there was before the first cut.
THEOREM CutLinesAlwaysReturn == EditSpec => []CutLinesReturn
<1>1. EditInit => CutInv
  BY DEF EditInit, CutInv
<1>2. CutInv => CutLinesReturn
  BY DEF CutInv, CutLinesReturn
<1> QED
  BY <1>1, <1>2, InitiallySound, StepsAreSound, CutsAreKept, PTL DEF EditSpec

=============================================================================
