-------------------------- MODULE PieceTableProofs --------------------------
(***************************************************************************)
(* The piece table behaves as an edit history of documents, and its undo   *)
(* and redo are exact, for any texts, any limits of the history and any    *)
(* threshold of compaction.                                                *)
(*                                                                         *)
(* What pieces stand for is followed scalar by scalar: Refs names the      *)
(* source and the offset of each, which no later edit changes, while only  *)
(* a compaction moves the offsets.                                         *)
(***************************************************************************)
EXTENDS PieceTable, FoldFacts, FiniteSetTheorems, TLAPS

-----------------------------------------------------------------------------
(* Folds over pieces. *)

Sources == {"Original", "Add"}
AnyPiece == [src : Sources, start : Nat, len : Nat]
Ref == Sources \X Nat

Cells(p) == [k \in 1..p.len |-> <<p.src, p.start + (k - 1)>>]
Refs(ps) == Along(LAMBDA refs, p : refs \o Cells(p), <<>>, ps)

LEMMA CellsAt ==
  ASSUME NEW p \in AnyPiece
  PROVE  /\ Cells(p) \in Seq(Ref) /\ Len(Cells(p)) = p.len
         /\ \A k \in 1..p.len : Cells(p)[k] = <<p.src, p.start + (k - 1)>>
<1> USE DEF AnyPiece, Ref
<1>1. \A k \in 1..p.len : <<p.src, p.start + (k - 1)>> \in Ref
  OBVIOUS
<1> HIDE DEF Ref
<1>2. Cells(p) \in [1..p.len -> Ref]
  BY <1>1 DEF Cells
<1>3. p.len \in Nat
  OBVIOUS
<1>4. Cells(p) \in Seq(Ref)
  BY <1>2, <1>3
<1> QED
  BY <1>2, <1>3, <1>4 DEF Cells

NoRefs == <<>>
MoreRefs == [x \in Seq(Ref) \X AnyPiece |-> x[1] \o Cells(x[2])]

LEMMA RefsFold ==
  /\ MoreRefs \in Turns(Seq(Ref), AnyPiece)
  /\ \A ps \in Seq(AnyPiece) : Refs(ps) = Result(MoreRefs, NoRefs, ps)
<1>1. MoreRefs \in Turns(Seq(Ref), AnyPiece)
  <2>1. \A r \in Seq(Ref), p \in AnyPiece : r \o Cells(p) \in Seq(Ref)
    BY CellsAt, ConcatProperties
  <2> QED
    BY <2>1 DEF MoreRefs, Turns
<1>2. ASSUME NEW ps \in Seq(AnyPiece)
      PROVE  Refs(ps) = Result(MoreRefs, NoRefs, ps)
  <2> DEFINE n == Len(ps)
             Step(f, k) == IF k = 0 THEN NoRefs ELSE f[k - 1] \o Cells(ps[k])
             acc == CHOOSE f : f = [k \in 0..n |-> Step(f, k)]
  <2>1. n \in Nat /\ NoRefs \in Seq(Ref) /\ \A k \in 1..n : ps[k] \in AnyPiece
    BY LenProperties, ElementOfSeq, EmptySeq DEF NoRefs
  <2>2. PICK r \in [0..n -> Seq(Ref)] :
          /\ r[0] = NoRefs /\ \A k \in 1..n : r[k] = MoreRefs[<<r[k - 1], ps[k]>>]
          /\ Result(MoreRefs, NoRefs, ps) = r[n]
    BY <1>1, <2>1, ResultUnfolds
  <2>3. ASSUME NEW k \in 1..n
        PROVE  r[k] = r[k - 1] \o Cells(ps[k])
    <3>1. k - 1 \in 0..n
      BY <2>1
    <3>2. r[k - 1] \in Seq(Ref)
      BY <2>2, <3>1
    <3> QED
      BY <2>1, <2>2, <3>2 DEF MoreRefs
  <2>4. ASSUME NEW k \in 0..n
        PROVE  r[k] = Step(r, k)
    <3>1. k = 0 \/ k \in 1..n
      BY <2>1
    <3> QED
      BY <2>2, <2>3, <3>1
  <2>5. r = [k \in 0..n |-> Step(r, k)]
    BY <2>2, <2>4
  <2>6. acc = [k \in 0..n |-> Step(acc, k)]
    BY <2>5, Zenon
  <2>7. Refs(ps) = acc[n]
    BY DEF Refs, Along, NoRefs
  <2> HIDE DEF acc, n
  <2>8. acc[0] = NoRefs /\ \A k \in 1..n : acc[k] = acc[k - 1] \o Cells(ps[k])
    <3>1. 0 \in 0..n /\ \A k \in 1..n : k \in 0..n /\ k # 0
      BY <2>1
    <3> QED
      BY <2>6, <3>1
  <2>9. \A k \in 1..n : acc[k - 1] \in Seq(Ref) => acc[k] = MoreRefs[<<acc[k - 1], ps[k]>>]
    BY <2>1, <2>8 DEF MoreRefs
  <2>10. acc[n] = Result(MoreRefs, NoRefs, ps)
    BY <1>1, <2>1, <2>8, <2>9, ResultIs DEF n
  <2> QED
    BY <2>7, <2>10
<1> QED
  BY <1>1, <1>2

LEMMA RefsEmpty == Refs(<<>>) = <<>>
<1>1. NoRefs \in Seq(Ref) /\ <<>> \in Seq(AnyPiece)
  BY EmptySeq DEF NoRefs
<1>2. Result(MoreRefs, NoRefs, <<>>) = NoRefs
  BY <1>1, RefsFold, ResultEmpty
<1> QED
  BY <1>1, <1>2, RefsFold DEF NoRefs

LEMMA RefsAppend ==
  ASSUME NEW ps \in Seq(AnyPiece), NEW p \in AnyPiece
  PROVE  /\ Refs(ps) \in Seq(Ref)
         /\ Refs(Append(ps, p)) = Cat(Refs(ps), Cells(p))
<1>1. NoRefs \in Seq(Ref) /\ Append(ps, p) \in Seq(AnyPiece)
  BY EmptySeq, AppendProperties DEF NoRefs
<1>2. /\ Refs(ps) = Result(MoreRefs, NoRefs, ps)
      /\ Refs(Append(ps, p)) = Result(MoreRefs, NoRefs, Append(ps, p))
  BY <1>1, RefsFold
<1>3. Result(MoreRefs, NoRefs, ps) \in Seq(Ref)
  BY <1>1, RefsFold, ResultIn
<1>4. Result(MoreRefs, NoRefs, Append(ps, p)) = MoreRefs[<<Result(MoreRefs, NoRefs, ps), p>>]
  BY <1>1, RefsFold, ResultAppend
<1> QED
  BY <1>2, <1>3, <1>4 DEF MoreRefs, Cat
LEMMA RefsIn ==
  ASSUME NEW ps \in Seq(AnyPiece)
  PROVE  Refs(ps) \in Seq(Ref)
<1>1. NoRefs \in Seq(Ref)
  BY EmptySeq DEF NoRefs
<1> QED
  BY <1>1, RefsFold, ResultIn

LEMMA RefsOne ==
  ASSUME NEW p \in AnyPiece
  PROVE  <<p>> \in Seq(AnyPiece) /\ Refs(<<p>>) = Cells(p)
<1>1. <<>> \in Seq(AnyPiece) /\ Append(<<>>, p) = <<p>>
  BY EmptySeq
<1>2. Refs(<<p>>) = Cat(Refs(<<>>), Cells(p))
  BY <1>1, RefsAppend
<1>3. <<p>> \in Seq(AnyPiece)
  BY <1>1, AppendProperties
<1> QED
  BY <1>2, <1>3, RefsEmpty, CellsAt, CatEmpty

LEMMA RefsCat ==
  ASSUME NEW ps \in Seq(AnyPiece)
  PROVE  \A qs \in Seq(AnyPiece) : Refs(Cat(ps, qs)) = Cat(Refs(ps), Refs(qs))
<1> DEFINE T == {qs \in Seq(AnyPiece) : Refs(Cat(ps, qs)) = Cat(Refs(ps), Refs(qs))}
<1>1. <<>> \in T
  BY RefsEmpty, RefsIn, EmptySeq, CatEmpty
<1>2. ASSUME NEW qs \in Seq(AnyPiece), NEW q \in AnyPiece, qs \in T
      PROVE  Append(qs, q) \in T
  <2>1. /\ Cat(ps, qs) \in Seq(AnyPiece) /\ Cat(ps, Append(qs, q)) = Append(Cat(ps, qs), q)
        /\ Append(qs, q) \in Seq(AnyPiece)
    BY CatAppend, AppendProperties
  <2>2. Refs(Cat(ps, Append(qs, q))) = Cat(Cat(Refs(ps), Refs(qs)), Cells(q))
    BY <1>2, <2>1, RefsAppend
  <2>3. /\ Refs(ps) \in Seq(Ref) /\ Refs(qs) \in Seq(Ref) /\ Cells(q) \in Seq(Ref)
        /\ Refs(Append(qs, q)) = Cat(Refs(qs), Cells(q))
    BY RefsIn, CellsAt, RefsAppend
  <2>4. Cat(Cat(Refs(ps), Refs(qs)), Cells(q)) = Cat(Refs(ps), Cat(Refs(qs), Cells(q)))
    BY <2>3, CatOf
  <2> QED
    BY <2>1, <2>2, <2>3, <2>4
<1>3. Seq(AnyPiece) \subseteq T
  <2> HIDE DEF T
  <2> QED
    BY <1>1, <1>2, SeqInduction
<1> QED
  BY <1>3

\* The references of a prefix, one piece at a time.
LEMMA RefsOfPrefix ==
  ASSUME NEW ps \in Seq(AnyPiece), NEW k \in 1..Len(ps)
  PROVE  /\ ps[k] \in AnyPiece /\ SubSeq(ps, 1, k) \in Seq(AnyPiece)
         /\ SubSeq(ps, 1, k - 1) \in Seq(AnyPiece)
         /\ Refs(SubSeq(ps, 1, k)) = Cat(Refs(SubSeq(ps, 1, k - 1)), Cells(ps[k]))
         /\ Len(Refs(SubSeq(ps, 1, k))) = Len(Refs(SubSeq(ps, 1, k - 1))) + ps[k].len
<1> DEFINE qs == SubSeq(ps, 1, k - 1)
<1>1. Len(ps) \in Nat /\ k \in 0..Len(ps) /\ k - 1 \in 0..Len(ps) /\ k \in 1..Len(ps)
  BY LenProperties
<1>2. ps[k] \in AnyPiece /\ qs \in Seq(AnyPiece) /\ SubSeq(ps, 1, k) \in Seq(AnyPiece)
  BY <1>1, ElementOfSeq, PrefixAt
<1>3. SubSeq(ps, 1, k) = Append(qs, ps[k])
  <2>1. SubSeq(ps, 1, k) = Cat(qs, <<ps[k]>>)
    BY <1>1, SubSeqRecursiveSecond DEF Cat
  <2> HIDE DEF qs
  <2> QED
    BY <1>2, <2>1, AppendIsConcat DEF Cat
<1> HIDE DEF qs
<1>4. Refs(SubSeq(ps, 1, k)) = Cat(Refs(qs), Cells(ps[k]))
  BY <1>2, <1>3, RefsAppend
<1>5. Len(Cat(Refs(qs), Cells(ps[k]))) = Len(Refs(qs)) + Len(Cells(ps[k]))
  BY <1>2, RefsIn, CellsAt, CatIn
<1> QED
  BY <1>2, <1>4, <1>5, CellsAt DEF qs

\* TotalLen counts the scalars.
LEMMA TotalLenIs ==
  ASSUME NEW ps \in Seq(AnyPiece)
  PROVE  TotalLen(ps) = Len(Refs(ps)) /\ TotalLen(ps) \in Nat
<1> DEFINE n == Len(ps)
           Step(f, k) == IF k = 0 THEN 0 ELSE f[k - 1] + ps[k].len
           acc == CHOOSE f : f = [k \in 0..n |-> Step(f, k)]
           h == [k \in 0..n |-> Len(Refs(SubSeq(ps, 1, k)))]
<1>1. n \in Nat /\ 0 \in 0..n /\ n \in 0..n /\ \A k \in 1..n : k \in 0..n /\ k # 0 /\ k - 1 \in 0..n
  BY LenProperties
<1>2. h[0] = 0
  <2>1. SubSeq(ps, 1, 0) = <<>>
    BY SubSeqEmpty
  <2>2. Len(Refs(SubSeq(ps, 1, 0))) = 0
    BY <2>1, RefsEmpty, EmptySeq
  <2> QED
    BY <1>1, <2>2
<1>3. \A k \in 1..n : h[k] = h[k - 1] + ps[k].len
  BY <1>1, RefsOfPrefix
<1>4. h[n] = Len(Refs(ps))
  BY <1>1, SubSeqFull
<1>5. h = [k \in 0..n |-> h[k]]
  OBVIOUS
<1> HIDE DEF h, n
<1>6. ASSUME NEW k \in 0..n
      PROVE  h[k] = Step(h, k)
  <2>1. k = 0 \/ k \in 1..n
    BY <1>1
  <2> QED
    BY <1>2, <1>3, <2>1
<1>7. h = [k \in 0..n |-> Step(h, k)]
  BY <1>5, <1>6
<1>8. acc = [k \in 0..n |-> Step(acc, k)]
  BY <1>7, Zenon
<1>9. TotalLen(ps) = acc[n]
  BY DEF TotalLen, SumOver, n
<1> HIDE DEF acc
<1>10. InStep(acc, h, n)
  BY <1>1, <1>2, <1>3, <1>8 DEF InStep
<1>11. acc[n] = h[n]
  BY <1>1, <1>10, Agree
<1> QED
  BY <1>4, <1>9, <1>11, RefsIn, LenProperties
-----------------------------------------------------------------------------
(* What the references read. *)

Source(src, ad) == IF src = "Add" THEN ad ELSE Original
Bounds(ad) == {r \in Ref : r[2] < Len(Source(r[1], ad))}
Fits(ad) == {p \in AnyPiece : p.start + p.len <= Len(Source(p.src, ad))}
Scalar(r, ad) == Source(r[1], ad)[r[2] + 1]
Read(refs, ad) == [k \in 1..Len(refs) |-> Scalar(refs[k], ad)]
Texts == Seq(Chars)

LEMMA SourceText ==
  ASSUME NEW ad \in Texts, NEW src
  PROVE  Source(src, ad) \in Texts
  BY PieceTableAssumption DEF Source, Texts, Chars

LEMMA ScalarIn ==
  ASSUME NEW ad \in Texts, NEW r \in Bounds(ad)
  PROVE  Scalar(r, ad) \in Chars
<1>1. /\ r[2] \in Nat /\ r[2] < Len(Source(r[1], ad))
  BY DEF Bounds, Ref
<1>2. Source(r[1], ad) \in Seq(Chars)
  BY SourceText DEF Texts
<1>3. r[2] + 1 \in 1..Len(Source(r[1], ad))
  BY <1>1, <1>2, LenProperties
<1> QED
  BY <1>2, <1>3, ElementOfSeq DEF Scalar

LEMMA ReadAt ==
  ASSUME NEW ad \in Texts, NEW refs \in Seq(Bounds(ad))
  PROVE  /\ Read(refs, ad) \in Texts /\ Len(Read(refs, ad)) = Len(refs)
         /\ \A k \in 1..Len(refs) : Read(refs, ad)[k] = Scalar(refs[k], ad)
<1>1. Len(refs) \in Nat
  BY LenProperties
<1>2. \A k \in 1..Len(refs) : Scalar(refs[k], ad) \in Chars
  BY ScalarIn, ElementOfSeq
<1>3. Read(refs, ad) \in [1..Len(refs) -> Chars]
  BY <1>2 DEF Read
<1>4. Read(refs, ad) \in Seq(Chars)
  BY <1>1, <1>3
<1> QED
  BY <1>1, <1>3, <1>4 DEF Read, Texts

LEMMA ReadCat ==
  ASSUME NEW ad \in Texts
  PROVE  \A a, b \in Seq(Bounds(ad)) : Read(Cat(a, b), ad) = Cat(Read(a, ad), Read(b, ad))
<1> SUFFICES ASSUME NEW a \in Seq(Bounds(ad)), NEW b \in Seq(Bounds(ad))
             PROVE  Read(Cat(a, b), ad) = Cat(Read(a, ad), Read(b, ad))
  OBVIOUS
<1> DEFINE c == Cat(a, b)
           x == Read(a, ad)
           y == Read(b, ad)
           z == Read(c, ad)
<1>1. /\ c \in Seq(Bounds(ad)) /\ Len(c) = Len(a) + Len(b)
      /\ \A i \in 1..Len(a) : c[i] = a[i]
      /\ \A i \in 1..Len(b) : c[Len(a) + i] = b[i]
      /\ Len(a) \in Nat /\ Len(b) \in Nat
  BY CatAt
<1> HIDE DEF c
<1>2. x \in Seq(Chars) /\ Len(x) = Len(a) /\ \A k \in 1..Len(a) : x[k] = Scalar(a[k], ad)
  BY ReadAt DEF Texts
<1>3. y \in Seq(Chars) /\ Len(y) = Len(b) /\ \A k \in 1..Len(b) : y[k] = Scalar(b[k], ad)
  BY ReadAt DEF Texts
<1>4. z \in Seq(Chars) /\ Len(z) = Len(c) /\ \A k \in 1..Len(c) : z[k] = Scalar(c[k], ad)
  BY <1>1, ReadAt DEF Texts
<1> HIDE DEF x, y, z
<1>5. ASSUME NEW i \in 1..Len(x)
      PROVE  z[i] = x[i]
  <2>1. i \in 1..Len(a) /\ i \in 1..Len(c)
    BY <1>1, <1>2
  <2> QED
    BY <1>1, <1>2, <1>4, <2>1
<1>6. ASSUME NEW i \in 1..Len(y)
      PROVE  z[Len(x) + i] = y[i]
  <2>1. i \in 1..Len(b) /\ Len(x) + i \in 1..Len(c) /\ Len(x) + i = Len(a) + i
    BY <1>1, <1>2, <1>3
  <2> QED
    BY <1>1, <1>3, <1>4, <2>1
<1>7. z = Cat(x, y)
  <2>1. Len(z) = Len(x) + Len(y)
    BY <1>1, <1>2, <1>3, <1>4
  <2> QED
    BY <1>2, <1>3, <1>4, <1>5, <1>6, <2>1, IsCat
<1> QED
  BY <1>7 DEF x, y, z, c

LEMMA SliceIs ==
  ASSUME NEW ad \in Texts, NEW p \in Fits(ad)
  PROVE  /\ Cells(p) \in Seq(Bounds(ad))
         /\ Spelled(p, ad) = Read(Cells(p), ad) /\ Spelled(p, ad) \in Texts
<1> DEFINE from == Source(p.src, ad)
           cells == Cells(p)
<1>1. /\ p \in AnyPiece /\ p.start \in Nat /\ p.len \in Nat /\ p.src \in Sources
      /\ p.start + p.len <= Len(from)
  BY DEF Fits, AnyPiece
<1>2. from \in Seq(Chars) /\ Len(from) \in Nat
  BY SourceText, LenProperties DEF Texts
<1>3. /\ cells \in Seq(Ref) /\ Len(cells) = p.len
      /\ \A k \in 1..p.len : cells[k] = <<p.src, p.start + (k - 1)>>
  BY <1>1, CellsAt
<1> HIDE DEF cells
<1>4. cells \in Seq(Bounds(ad))
  <2>1. ASSUME NEW k \in 1..p.len
        PROVE  cells[k] \in Bounds(ad)
    <3>1. cells[k] = <<p.src, p.start + (k - 1)>> /\ p.start + (k - 1) < Len(from)
          /\ p.start + (k - 1) \in Nat
      BY <1>1, <1>2, <1>3
    <3> QED
      BY <1>1, <3>1 DEF Bounds, Ref
  <2>2. cells \in [1..p.len -> Bounds(ad)]
    BY <1>3, <2>1, LenProperties
  <2> QED
    BY <1>1, <2>2
<1>5. /\ Read(cells, ad) \in Seq(Chars) /\ Len(Read(cells, ad)) = p.len
      /\ \A k \in 1..p.len : Read(cells, ad)[k] = from[p.start + k]
  <2>1. ASSUME NEW k \in 1..p.len
        PROVE  Scalar(cells[k], ad) = from[p.start + k]
    <3>1. cells[k] = <<p.src, p.start + (k - 1)>> /\ (p.start + (k - 1)) + 1 = p.start + k
      BY <1>1, <1>3
    <3> QED
      BY <3>1 DEF Scalar
  <2> QED
    BY <1>3, <1>4, <2>1, ReadAt DEF Texts
<1> DEFINE slice == SubSeq(from, p.start + 1, p.start + p.len)
<1>6. Spelled(p, ad) = slice
  BY DEF Spelled, Source
<1>7. /\ slice \in Seq(Chars) /\ Len(slice) = p.len
      /\ \A k \in 1..p.len : slice[k] = from[p.start + k]
  <2> HIDE DEF from
  <2>1. \A i \in p.start + 1..p.start + p.len : from[i] \in Chars
    BY <1>1, <1>2, ElementOfSeq
  <2>2. /\ slice \in Seq(Chars)
        /\ Len(slice) = IF p.start + 1 <= p.start + p.len THEN (p.start + p.len) - (p.start + 1) + 1 ELSE 0
        /\ \A k \in 1..(p.start + p.len) - (p.start + 1) + 1 : slice[k] = from[(p.start + 1) + k - 1]
    <3> DEFINE m == p.start + 1
               n == p.start + p.len
    <3>1. /\ m \in Nat /\ n \in Nat /\ m \in 1..Len(from) + 1 /\ n \in m - 1..Len(from)
          /\ \A i \in m..n : from[i] \in Chars
      BY <1>1, <1>2, <2>1
    <3> HIDE DEF m, n, slice
    <3>2. from \in Seq(Chars)
      BY <1>1, <1>2 DEF Texts
    <3>3. /\ SubSeq(from, m, n) \in Seq(Chars)
          /\ Len(SubSeq(from, m, n)) = IF m <= n THEN n - m + 1 ELSE 0
          /\ \A k \in 1..n - m + 1 : SubSeq(from, m, n)[k] = from[m + k - 1]
      BY <3>1, <3>2, SubSeqProperties
    <3> QED
      BY <3>3 DEF slice, m, n
  <2>3. (p.start + p.len) - (p.start + 1) + 1 = p.len
    BY <1>1
  <2>4. \A k \in 1..p.len : (p.start + 1) + k - 1 = p.start + k
    BY <1>1
  <2> HIDE DEF slice
  <2> QED
    BY <1>1, <2>2, <2>3, <2>4
<1> HIDE DEF slice, from
<1>8. slice = Read(cells, ad)
  BY <1>5, <1>7, SeqEqual
<1> QED
  BY <1>4, <1>6, <1>7, <1>8 DEF cells, Texts
-----------------------------------------------------------------------------
(* The text of pieces is what their references read. *)

LEMMA FitsAreAny == \A ad : Fits(ad) \subseteq AnyPiece /\ Seq(Fits(ad)) \subseteq Seq(AnyPiece)
<1> SUFFICES ASSUME NEW ad
             PROVE  Fits(ad) \subseteq AnyPiece /\ Seq(Fits(ad)) \subseteq Seq(AnyPiece)
  OBVIOUS
<1>1. Fits(ad) \subseteq AnyPiece
  BY DEF Fits
<1> QED
  BY <1>1, SeqMonotonic

LEMMA RefsAround ==
  ASSUME NEW ps \in Seq(AnyPiece), NEW from \in 1..Len(ps), NEW to \in from..Len(ps)
  PROVE  /\ SubSeq(ps, 1, from - 1) \in Seq(AnyPiece) /\ SubSeq(ps, from, to) \in Seq(AnyPiece)
         /\ SubSeq(ps, to + 1, Len(ps)) \in Seq(AnyPiece)
         /\ Refs(ps) = Cat(Cat(Refs(SubSeq(ps, 1, from - 1)), Refs(SubSeq(ps, from, to))), Refs(SubSeq(ps, to + 1, Len(ps))))
<1> DEFINE l == SubSeq(ps, 1, from - 1)
           m == SubSeq(ps, from, to)
           r == SubSeq(ps, to + 1, Len(ps))
<1>1. l \in Seq(AnyPiece) /\ m \in Seq(AnyPiece) /\ r \in Seq(AnyPiece) /\ ps = Cat(Cat(l, m), r)
  BY ThreeCats
<1> HIDE DEF l, m, r
<1>2. Cat(l, m) \in Seq(AnyPiece)
  BY <1>1, CatIn
<1>3. Refs(Cat(Cat(l, m), r)) = Cat(Refs(Cat(l, m)), Refs(r)) /\ Refs(Cat(l, m)) = Cat(Refs(l), Refs(m))
  BY <1>1, <1>2, RefsCat
<1>4. Refs(ps) = Cat(Cat(Refs(l), Refs(m)), Refs(r))
  BY <1>1, <1>3
<1> QED
  BY <1>1, <1>4 DEF l, m, r

LEMMA RefsFit ==
  ASSUME NEW ad \in Texts
  PROVE  \A ps \in Seq(Fits(ad)) : Refs(ps) \in Seq(Bounds(ad))
<1> DEFINE T == {ps \in Seq(Fits(ad)) : Refs(ps) \in Seq(Bounds(ad))}
<1>1. <<>> \in T
  BY RefsEmpty, EmptySeq
<1>2. ASSUME NEW ps \in Seq(Fits(ad)), NEW p \in Fits(ad), ps \in T
      PROVE  Append(ps, p) \in T
  <2>1. Append(ps, p) \in Seq(Fits(ad)) /\ ps \in Seq(AnyPiece) /\ p \in AnyPiece
    BY AppendProperties, FitsAreAny
  <2>2. Refs(Append(ps, p)) = Cat(Refs(ps), Cells(p))
    BY <2>1, RefsAppend
  <2>3. Cells(p) \in Seq(Bounds(ad)) /\ Refs(ps) \in Seq(Bounds(ad))
    BY <1>2, SliceIs
  <2>4. Cat(Refs(ps), Cells(p)) \in Seq(Bounds(ad))
    BY <2>3, CatIn
  <2> QED
    BY <2>1, <2>2, <2>4
<1>3. Seq(Fits(ad)) \subseteq T
  <2> HIDE DEF T
  <2> QED
    BY <1>1, <1>2, SeqInduction
<1> QED
  BY <1>3

LEMMA TextIs ==
  ASSUME NEW ad \in Texts, NEW ps \in Seq(Fits(ad))
  PROVE  Text(ps, ad) = Read(Refs(ps), ad) /\ Text(ps, ad) \in Texts
<1> DEFINE n == Len(ps)
           Step(f, k) == IF k = 0 THEN <<>> ELSE Cat(f[k - 1], Spelled(ps[k], ad))
           acc == CHOOSE f : f = [k \in 0..n |-> Step(f, k)]
           h == [k \in 0..n |-> Read(Refs(SubSeq(ps, 1, k)), ad)]
<1>1. /\ n \in Nat /\ 0 \in 0..n /\ n \in 0..n
      /\ \A k \in 1..n : k \in 0..n /\ k # 0 /\ k - 1 \in 0..n
  BY LenProperties
<1>2. ps \in Seq(AnyPiece) /\ \A k \in 1..n : ps[k] \in Fits(ad)
  BY FitsAreAny, ElementOfSeq
<1>3. h[0] = <<>>
  <2>1. SubSeq(ps, 1, 0) = <<>>
    BY SubSeqEmpty
  <2>2. <<>> \in Seq(Bounds(ad)) /\ Len(<<>>) = 0
    BY EmptySeq
  <2>3. Read(<<>>, ad) \in Seq(Chars) /\ Len(Read(<<>>, ad)) = 0
    BY <2>2, ReadAt DEF Texts
  <2>4. Read(<<>>, ad) = <<>>
    BY <2>3, EmptySeq
  <2> QED
    BY <1>1, <2>1, <2>4, RefsEmpty
<1>4. ASSUME NEW k \in 1..n
      PROVE  h[k] = Cat(h[k - 1], Spelled(ps[k], ad))
  <2> DEFINE a == Refs(SubSeq(ps, 1, k - 1))
  <2>1. Refs(SubSeq(ps, 1, k)) = Cat(a, Cells(ps[k]))
    BY <1>2, RefsOfPrefix
  <2>2. SubSeq(ps, 1, k - 1) \in Seq(Fits(ad))
    BY <1>1, PrefixAt
  <2>3. a \in Seq(Bounds(ad))
    BY <2>2, RefsFit
  <2>4. Cells(ps[k]) \in Seq(Bounds(ad)) /\ Spelled(ps[k], ad) = Read(Cells(ps[k]), ad)
    BY <1>2, SliceIs
  <2>5. h[k] = Read(Cat(a, Cells(ps[k])), ad) /\ h[k - 1] = Read(a, ad)
    BY <1>1, <2>1
  <2> HIDE DEF a, h
  <2>6. Read(Cat(a, Cells(ps[k])), ad) = Cat(Read(a, ad), Read(Cells(ps[k]), ad))
    BY <2>3, <2>4, ReadCat
  <2> QED
    BY <2>4, <2>5, <2>6
<1>5. h[n] = Read(Refs(ps), ad)
  BY <1>1, SubSeqFull
<1>6. h = [k \in 0..n |-> h[k]]
  OBVIOUS
<1> HIDE DEF h, n
<1>7. ASSUME NEW k \in 0..n
      PROVE  h[k] = Step(h, k)
  <2>1. k = 0 \/ k \in 1..n
    BY <1>1
  <2> QED
    BY <1>3, <1>4, <2>1
<1>8. h = [k \in 0..n |-> Step(h, k)]
  BY <1>6, <1>7
<1>9. acc = [k \in 0..n |-> Step(acc, k)]
  BY <1>8, Zenon
<1>10. Text(ps, ad) = acc[n]
  BY DEF Text, Along, n, Cat
<1> HIDE DEF acc
<1>11. InStep(acc, h, n)
  BY <1>1, <1>3, <1>4, <1>9 DEF InStep
<1>12. acc[n] = h[n]
  BY <1>1, <1>11, Agree
<1>13. Read(Refs(ps), ad) \in Texts
  BY RefsFit, ReadAt
<1> QED
  BY <1>5, <1>10, <1>12, <1>13
-----------------------------------------------------------------------------
(* Places in a document: where each piece starts, and the piece at an offset. *)

LEMMA Starts ==
  ASSUME NEW ps \in Seq(AnyPiece)
  PROVE  /\ Len(ps) \in Nat
         /\ \A k \in 1..Len(ps) + 1 : LogicalStart(ps, k) \in Nat
         /\ LogicalStart(ps, 1) = 0 /\ LogicalStart(ps, Len(ps) + 1) = Len(Refs(ps))
         /\ \A k \in 1..Len(ps) :
              /\ ps[k] \in AnyPiece /\ ps[k].len \in Nat
              /\ LogicalStart(ps, k + 1) = LogicalStart(ps, k) + ps[k].len
         /\ \A k \in 1..Len(ps) : LogicalStart(ps, k) = Len(Refs(SubSeq(ps, 1, k - 1)))
<1>1. Len(ps) \in Nat
  BY LenProperties
<1>2. ASSUME NEW k \in 1..Len(ps) + 1
      PROVE  LogicalStart(ps, k) = Len(Refs(SubSeq(ps, 1, k - 1))) /\ LogicalStart(ps, k) \in Nat
  <2>1. k - 1 \in 0..Len(ps)
    BY <1>1
  <2>2. SubSeq(ps, 1, k - 1) \in Seq(AnyPiece)
    BY <2>1, PrefixAt
  <2> QED
    BY <2>2, TotalLenIs DEF LogicalStart
<1>3. LogicalStart(ps, 1) = 0
  <2>1. SubSeq(ps, 1, 0) = <<>>
    BY SubSeqEmpty
  <2>2. LogicalStart(ps, 1) = Len(Refs(SubSeq(ps, 1, 0)))
    BY <1>1, <1>2
  <2> QED
    BY <2>1, <2>2, RefsEmpty, EmptySeq
<1>4. LogicalStart(ps, Len(ps) + 1) = Len(Refs(ps))
  <2>1. SubSeq(ps, 1, Len(ps)) = ps
    BY SubSeqFull
  <2>2. Len(ps) + 1 \in 1..Len(ps) + 1 /\ (Len(ps) + 1) - 1 = Len(ps)
    BY <1>1
  <2> QED
    BY <1>2, <2>1, <2>2
<1>5. ASSUME NEW k \in 1..Len(ps)
      PROVE  /\ ps[k] \in AnyPiece /\ ps[k].len \in Nat
             /\ LogicalStart(ps, k + 1) = LogicalStart(ps, k) + ps[k].len
             /\ LogicalStart(ps, k) = Len(Refs(SubSeq(ps, 1, k - 1)))
  <2>1. k \in 1..Len(ps) + 1 /\ k + 1 \in 1..Len(ps) + 1 /\ (k + 1) - 1 = k
    BY <1>1
  <2>2. /\ LogicalStart(ps, k + 1) = Len(Refs(SubSeq(ps, 1, k)))
        /\ LogicalStart(ps, k) = Len(Refs(SubSeq(ps, 1, k - 1)))
    BY <1>2, <2>1
  <2>3. ps[k] \in AnyPiece
    BY ElementOfSeq
  <2>4. ps[k].len \in Nat
    BY <2>3 DEF AnyPiece
  <2> QED
    BY <2>2, <2>3, <2>4, RefsOfPrefix
<1> QED
  BY <1>1, <1>2, <1>3, <1>4, <1>5

LEMMA StartsGrow ==
  ASSUME NEW ps \in Seq(AnyPiece)
  PROVE  \A i, j \in 1..Len(ps) + 1 : i <= j => LogicalStart(ps, i) <= LogicalStart(ps, j)
<1> DEFINE n == Len(ps)
           LS(k) == LogicalStart(ps, k)
<1>1. /\ n \in Nat /\ \A k \in 1..n + 1 : LS(k) \in Nat
      /\ \A k \in 1..n : ps[k].len \in Nat /\ LS(k + 1) = LS(k) + ps[k].len
  BY Starts
<1> HIDE DEF LS, n
<1> SUFFICES ASSUME NEW i \in 1..n + 1
             PROVE  \A j \in 1..n + 1 : i <= j => LS(i) <= LS(j)
  BY DEF LS, n
<1> DEFINE T == {d \in Nat : i + d <= n + 1 => LS(i) <= LS(i + d)}
<1>2. 0 \in T
  BY <1>1
<1>3. ASSUME NEW d \in Nat, d \in T
      PROVE  d + 1 \in T
  <2> SUFFICES ASSUME i + (d + 1) <= n + 1
               PROVE  LS(i) <= LS(i + (d + 1))
    OBVIOUS
  <2>1. i + d \in 1..n /\ i + d \in 1..n + 1 /\ i + (d + 1) = (i + d) + 1
    BY <1>1
  <2>2. LS((i + d) + 1) = LS(i + d) + ps[i + d].len /\ ps[i + d].len \in Nat
    BY <1>1, <2>1
  <2>3. LS(i) <= LS(i + d) /\ LS(i) \in Nat /\ LS(i + d) \in Nat
    BY <1>1, <1>3, <2>1
  <2>4. LS(i + (d + 1)) = LS((i + d) + 1)
    BY <2>1
  <2> QED
    BY <2>2, <2>3, <2>4
<1>4. Nat \subseteq T
  <2> HIDE DEF T
  <2> QED
    BY <1>2, <1>3, Induction
<1>5. ASSUME NEW j \in 1..n + 1, i <= j
      PROVE  LS(i) <= LS(j)
  <2>1. j - i \in Nat /\ i + (j - i) = j
    BY <1>1, <1>5
  <2>2. j - i \in T
    BY <1>4, <2>1
  <2>3. LS(i) <= LS(i + (j - i))
    BY <1>1, <2>1, <2>2
  <2> QED
    BY <2>1, <2>3
<1> QED
  BY <1>5

LEMMA LocateIs ==
  ASSUME NEW ps \in Seq(AnyPiece), ps # <<>>, NEW off \in 0..Len(Refs(ps))
  PROVE  /\ Locate(ps, off) \in 1..Len(ps)
         /\ LogicalStart(ps, Locate(ps, off)) <= off
         /\ off <= LogicalStart(ps, Locate(ps, off)) + ps[Locate(ps, off)].len
         /\ off < Len(Refs(ps)) =>
              off < LogicalStart(ps, Locate(ps, off)) + ps[Locate(ps, off)].len
<1> DEFINE n == Len(ps)
           LS(k) == LogicalStart(ps, k)
           Good(i) == LS(i) <= off /\ (off < LS(i) + ps[i].len \/ i = n)
           T == {i \in 1..n : LS(i) <= off}
<1>1. /\ n \in Nat /\ \A k \in 1..n + 1 : LS(k) \in Nat
      /\ LS(1) = 0 /\ LS(n + 1) = Len(Refs(ps))
      /\ \A k \in 1..n : ps[k].len \in Nat /\ LS(k + 1) = LS(k) + ps[k].len
  BY Starts
<1>2. n # 0 /\ off \in Nat /\ Len(Refs(ps)) \in Nat /\ off <= Len(Refs(ps))
  <2>1. Len(Refs(ps)) \in Nat
    BY RefsIn, LenProperties
  <2> QED
    BY <2>1, EmptySeq
<1>3. Locate(ps, off) = CHOOSE i \in 1..n : Good(i)
  BY DEF Locate
<1> HIDE DEF LS, n
<1>4. PICK m \in T : \A j \in T : j <= m
  <2>1. 1 \in T /\ T \in SUBSET (1..n)
    BY <1>1, <1>2
  <2> HIDE DEF T
  <2> QED
    BY <1>1, <2>1, GreatestPlace
<1>5. m \in 1..n /\ Good(m)
  <2>1. CASE m = n
    BY <2>1
  <2>2. CASE m # n
    <3>1. m + 1 \in 1..n /\ m + 1 \notin T
      BY <1>1, <1>4, <2>2
    <3>2. ~(LS(m + 1) <= off) /\ m \in 1..n /\ m \in 1..n + 1 /\ m + 1 \in 1..n + 1 /\ LS(m) <= off
      BY <1>1, <3>1
    <3>3. LS(m) \in Nat /\ LS(m + 1) \in Nat /\ ps[m].len \in Nat /\ LS(m + 1) = LS(m) + ps[m].len
      BY <1>1, <3>2
    <3> QED
      BY <1>2, <3>2, <3>3
  <2> QED
    BY <2>1, <2>2
<1>6. Locate(ps, off) \in 1..n /\ Good(Locate(ps, off))
  BY <1>3, <1>5
<1> DEFINE i == Locate(ps, off)
<1> HIDE DEF i
<1>7. /\ i \in 1..n /\ LS(i) <= off /\ LS(i) \in Nat /\ ps[i].len \in Nat
      /\ off < LS(i) + ps[i].len \/ i = n
  <2>1. i \in 1..n /\ Good(i)
    BY <1>6 DEF i
  <2>2. i \in 1..n + 1
    BY <1>1, <2>1
  <2> QED
    BY <1>1, <2>1, <2>2
<1>8. off <= LS(i) + ps[i].len /\ (off < Len(Refs(ps)) => off < LS(i) + ps[i].len)
  <2>1. CASE i = n
    <3>1. Len(Refs(ps)) = LS(i) + ps[i].len
      BY <1>1, <1>7, <2>1
    <3> QED
      BY <1>2, <3>1
  <2>2. CASE off < LS(i) + ps[i].len
    BY <1>2, <1>7, <2>2
  <2> QED
    BY <1>7, <2>1, <2>2
<1> QED
  BY <1>7, <1>8 DEF i, n, LS

LEMMA PieceOf ==
  ASSUME NEW p \in AnyPiece
  PROVE  /\ p = [src |-> p.src, start |-> p.start, len |-> p.len]
         /\ p.src \in Sources /\ p.start \in Nat /\ p.len \in Nat
  BY DEF AnyPiece

LEMMA PartIs ==
  ASSUME NEW p \in AnyPiece, NEW a \in 0..p.len, NEW b \in a..p.len
  PROVE  /\ Part(p, a, b) \in AnyPiece /\ Part(p, a, b).len = b - a
         /\ Part(p, a, b).src = p.src /\ Part(p, a, b).start = p.start + a
         /\ \A k \in 1..b - a : Cells(Part(p, a, b))[k] = Cells(p)[a + k]
<1>1. p.len \in Nat /\ p.start \in Nat /\ p.src \in Sources /\ a \in Nat /\ b \in Nat /\ a <= b /\ b <= p.len
  BY DEF AnyPiece
<1>2. /\ Part(p, a, b) = [src |-> p.src, start |-> p.start + a, len |-> b - a]
  BY DEF Part, Piece
<1> DEFINE q == Part(p, a, b)
<1>3. q \in AnyPiece /\ q.len = b - a /\ q.src = p.src /\ q.start = p.start + a
  BY <1>1, <1>2 DEF AnyPiece
<1> HIDE DEF q
<1>4. ASSUME NEW k \in 1..b - a
      PROVE  Cells(q)[k] = Cells(p)[a + k]
  <2>1. a + k \in 1..p.len /\ k \in 1..q.len
    BY <1>1, <1>3
  <2>2. Cells(q)[k] = <<q.src, q.start + (k - 1)>> /\ Cells(p)[a + k] = <<p.src, p.start + ((a + k) - 1)>>
    BY <1>3, <2>1, CellsAt
  <2>3. q.start + (k - 1) = p.start + ((a + k) - 1)
    BY <1>1, <1>3
  <2> QED
    BY <1>3, <2>2, <2>3
<1> QED
  BY <1>3, <1>4 DEF q

\* A piece is what is left of a place in it and what is right of it.
LEMMA CellsSplit ==
  ASSUME NEW p \in AnyPiece, NEW a \in 0..p.len, NEW b \in a..p.len, NEW c \in b..p.len
  PROVE  Cells(Part(p, a, c)) = Cat(Cells(Part(p, a, b)), Cells(Part(p, b, c)))
<1>1. p.len \in Nat /\ a \in Nat /\ b \in Nat /\ c \in Nat /\ a <= b /\ b <= c /\ c <= p.len
  BY DEF AnyPiece
<1> DEFINE x == Cells(Part(p, a, b))
           y == Cells(Part(p, b, c))
           z == Cells(Part(p, a, c))
<1>2. x \in Seq(Ref) /\ Len(x) = b - a /\ \A k \in 1..b - a : x[k] = Cells(p)[a + k]
  <2>1. a \in 0..p.len /\ b \in a..p.len
    BY <1>1
  <2>2. Part(p, a, b) \in AnyPiece /\ Part(p, a, b).len = b - a
    BY <2>1, PartIs
  <2> QED
    BY <2>1, <2>2, PartIs, CellsAt
<1>3. y \in Seq(Ref) /\ Len(y) = c - b /\ \A k \in 1..c - b : y[k] = Cells(p)[b + k]
  <2>1. b \in 0..p.len /\ c \in b..p.len
    BY <1>1
  <2>2. Part(p, b, c) \in AnyPiece /\ Part(p, b, c).len = c - b
    BY <2>1, PartIs
  <2> QED
    BY <2>1, <2>2, PartIs, CellsAt
<1>4. z \in Seq(Ref) /\ Len(z) = c - a /\ \A k \in 1..c - a : z[k] = Cells(p)[a + k]
  <2>1. a \in 0..p.len /\ c \in a..p.len
    BY <1>1
  <2>2. Part(p, a, c) \in AnyPiece /\ Part(p, a, c).len = c - a
    BY <2>1, PartIs
  <2> QED
    BY <2>1, <2>2, PartIs, CellsAt
<1> HIDE DEF x, y, z
<1>5. \A i \in 1..Len(x) : z[i] = x[i]
  BY <1>1, <1>2, <1>4
<1>6. ASSUME NEW i \in 1..Len(y)
      PROVE  z[Len(x) + i] = y[i]
  <2>1. Len(x) + i \in 1..c - a /\ a + (Len(x) + i) = b + i /\ i \in 1..c - b
    BY <1>1, <1>2, <1>3
  <2> QED
    BY <1>3, <1>4, <2>1
<1>7. Len(z) = Len(x) + Len(y)
  BY <1>1, <1>2, <1>3, <1>4
<1>8. z = Cat(x, y)
  BY <1>2, <1>3, <1>4, <1>5, <1>6, <1>7, IsCat
<1> QED
  BY <1>8 DEF x, y, z

LEMMA PartWhole ==
  ASSUME NEW p \in AnyPiece
  PROVE  Part(p, 0, p.len) = p
<1>1. 0 \in 0..p.len /\ p.len \in 0..p.len /\ p.start + 0 = p.start /\ p.len - 0 = p.len
  BY PieceOf
<1>2. Part(p, 0, p.len) \in AnyPiece /\ Part(p, 0, p.len).len = p.len - 0
      /\ Part(p, 0, p.len).src = p.src /\ Part(p, 0, p.len).start = p.start + 0
  BY <1>1, PartIs
<1> DEFINE q == Part(p, 0, p.len)
<1> HIDE DEF q
<1>3. q \in AnyPiece /\ q.len = p.len /\ q.src = p.src /\ q.start = p.start
  BY <1>1, <1>2 DEF q
<1> QED
  BY <1>3, PieceOf DEF q
-----------------------------------------------------------------------------
(* Neighbours merged, and runs of pieces replaced. *)

Longer(p, len) == [p EXCEPT !.len = @ + len]

LEMMA JoinedIs ==
  ASSUME NEW p \in AnyPiece, NEW q \in AnyPiece, Adjacent(p, q)
  PROVE  /\ Longer(p, q.len) \in AnyPiece /\ Longer(p, q.len).len = p.len + q.len
         /\ Longer(p, q.len) = Piece(p.src, p.start, p.len + q.len)
         /\ Cells(Longer(p, q.len)) = Cat(Cells(p), Cells(q))
<1> DEFINE r == Longer(p, q.len)
           x == Cells(p)
           y == Cells(q)
           z == Cells(r)
<1>1. /\ p.len \in Nat /\ p.start \in Nat /\ p.src \in Sources /\ q.len \in Nat /\ q.start \in Nat
      /\ p.src = q.src /\ p.start + p.len = q.start
  BY DEF AnyPiece, Adjacent
<1>2. r = [src |-> p.src, start |-> p.start, len |-> p.len + q.len]
  BY DEF AnyPiece, Longer
<1>3. r \in AnyPiece /\ r.len = p.len + q.len /\ r.src = p.src /\ r.start = p.start
  BY <1>1, <1>2 DEF AnyPiece
<1>4. /\ x \in Seq(Ref) /\ Len(x) = p.len
      /\ \A k \in 1..p.len : x[k] = <<p.src, p.start + (k - 1)>>
  BY CellsAt
<1>5. /\ y \in Seq(Ref) /\ Len(y) = q.len
      /\ \A k \in 1..q.len : y[k] = <<q.src, q.start + (k - 1)>>
  BY CellsAt
<1>6. /\ z \in Seq(Ref) /\ Len(z) = r.len
      /\ \A k \in 1..r.len : z[k] = <<r.src, r.start + (k - 1)>>
  BY <1>3, CellsAt
<1>7. Longer(p, q.len) = Piece(p.src, p.start, p.len + q.len)
  BY <1>2 DEF Piece
<1> HIDE DEF r, x, y, z
<1>8. ASSUME NEW i \in 1..Len(x)
      PROVE  z[i] = x[i]
  <2>1. i \in 1..p.len /\ i \in 1..r.len
    BY <1>1, <1>3, <1>4
  <2> QED
    BY <1>3, <1>4, <1>6, <2>1
<1>9. ASSUME NEW i \in 1..Len(y)
      PROVE  z[Len(x) + i] = y[i]
  <2>1. /\ i \in 1..q.len /\ Len(x) + i \in 1..r.len
        /\ r.start + ((Len(x) + i) - 1) = q.start + (i - 1)
    <3>1. Len(x) = p.len /\ Len(y) = q.len /\ r.len = p.len + q.len /\ r.start = p.start
      BY <1>3, <1>4, <1>5
    <3>2. i \in 1..q.len
      BY <3>1
    <3>3. p.start \in Nat /\ p.len \in Nat /\ q.len \in Nat /\ p.start + p.len = q.start
      BY <1>1
    <3> QED
      BY <3>1, <3>2, <3>3, SMTT(30)
  <2> QED
    BY <1>1, <1>3, <1>5, <1>6, <2>1
<1>10. Len(z) = Len(x) + Len(y)
  BY <1>1, <1>3, <1>4, <1>5, <1>6
<1>11. z = Cat(x, y)
  BY <1>4, <1>5, <1>6, <1>8, <1>9, <1>10, IsCat
<1> QED
  BY <1>3, <1>7, <1>11 DEF r, x, y, z

Lengthen(ps, i, len) == [ps EXCEPT ![i].len = @ + len]

LEMMA LongerAt ==
  ASSUME NEW ps \in Seq(AnyPiece), NEW i \in 1..Len(ps), NEW p \in AnyPiece, Adjacent(ps[i], p)
  PROVE  /\ Lengthen(ps, i, p.len) \in Seq(AnyPiece)
         /\ Len(Lengthen(ps, i, p.len)) = Len(ps)
         /\ \A k \in 1..Len(ps) :
              Lengthen(ps, i, p.len)[k] = IF k = i THEN Longer(ps[i], p.len) ELSE ps[k]
         /\ Refs(Lengthen(ps, i, p.len))
              = Cat(Cat(Refs(SubSeq(ps, 1, i - 1)), Cat(Cells(ps[i]), Cells(p))), Refs(SubSeq(ps, i + 1, Len(ps))))
<1> DEFINE e == Longer(ps[i], p.len)
           t == [ps EXCEPT ![i] = e]
<1>1. ps[i] \in AnyPiece
  BY ElementOfSeq
<1>2. e \in AnyPiece /\ Cells(e) = Cat(Cells(ps[i]), Cells(p))
  BY <1>1, JoinedIs
<1>3. Lengthen(ps, i, p.len) = t
  BY DEF Longer, Lengthen
<1> HIDE DEF e
<1>4. /\ t \in Seq(AnyPiece) /\ Len(t) = Len(ps)
      /\ \A j \in 1..Len(ps) : t[j] = IF j = i THEN e ELSE ps[j]
  BY <1>2, ExceptSeq
<1>5. /\ SubSeq(t, i, i) = <<e>> /\ SubSeq(t, 1, i - 1) = SubSeq(ps, 1, i - 1)
      /\ SubSeq(t, i + 1, Len(t)) = SubSeq(ps, i + 1, Len(ps))
  BY <1>2, OneChanged
<1> HIDE DEF t
<1>6. i \in 1..Len(t) /\ i \in i..Len(t)
  BY <1>4
<1>7. Refs(t) = Cat(Cat(Refs(SubSeq(t, 1, i - 1)), Refs(SubSeq(t, i, i))), Refs(SubSeq(t, i + 1, Len(t))))
  BY <1>4, <1>6, RefsAround
<1>8. Refs(<<e>>) = Cells(e)
  BY <1>2, RefsOne
<1> QED
  BY <1>2, <1>3, <1>4, <1>5, <1>7, <1>8 DEF e

Solid == {p \in AnyPiece : p.len > 0}

LEMMA NoCells ==
  ASSUME NEW p \in AnyPiece, p.len = 0
  PROVE  Cells(p) = <<>>
<1>1. Cells(p) \in Seq(Ref) /\ Len(Cells(p)) = p.len
  BY CellsAt
<1> DEFINE x == Cells(p)
<1> HIDE DEF x
<1>2. x \in Seq(Ref) /\ Len(x) = 0
  BY <1>1 DEF x
<1>3. x = <<>>
  BY <1>2, EmptySeq
<1> QED
  BY <1>3 DEF x

LEMMA MergedIs ==
  ASSUME NEW m \in Seq(Solid), NEW p \in AnyPiece
  PROVE  Merged(m, p) \in Seq(Solid) /\ Refs(Merged(m, p)) = Cat(Refs(m), Cells(p))
<1>1. /\ Solid \subseteq AnyPiece /\ m \in Seq(AnyPiece) /\ p.len \in Nat
      /\ Refs(m) \in Seq(Ref) /\ Cells(p) \in Seq(Ref)
  <2>1. Solid \subseteq AnyPiece
    BY DEF Solid
  <2> QED
    BY <2>1, SeqMonotonic, RefsIn, CellsAt DEF AnyPiece
<1>2. CASE p.len = 0
  <2>1. Cells(p) = <<>> /\ Merged(m, p) = m
    BY <1>2, NoCells DEF Merged
  <2> QED
    BY <1>1, <2>1, CatEmpty
<1>3. CASE p.len # 0 /\ m # <<>> /\ Adjacent(Last(m), p)
  <2>1. Len(m) \in 1..Len(m) /\ Last(m) = m[Len(m)] /\ m[Len(m)] \in Solid
    <3>1. Len(m) \in Nat \ {0} /\ Last(m) = m[Len(m)]
      BY <1>3, FrontAt
    <3> QED
      BY <3>1, ElementOfSeq
  <2> DEFINE i == Len(m)
             t == Lengthen(m, i, p.len)
  <2>2. Merged(m, p) = t
    BY <1>3 DEF Merged, Lengthen
  <2>9. i \in 1..Len(m) /\ Adjacent(m[i], p) /\ m \in Seq(AnyPiece)
    BY <1>1, <1>3, <2>1
  <2>3. /\ t \in Seq(AnyPiece) /\ Len(t) = Len(m)
        /\ \A k \in 1..Len(m) : t[k] = IF k = i THEN Longer(m[i], p.len) ELSE m[k]
        /\ Refs(t) = Cat(Cat(Refs(SubSeq(m, 1, i - 1)), Cat(Cells(m[i]), Cells(p))), Refs(SubSeq(m, i + 1, Len(m))))
    <3> HIDE DEF i
    <3> QED
      BY <2>9, LongerAt
  <2>4. Longer(m[i], p.len) \in Solid
    <3>1. /\ Longer(m[i], p.len) \in AnyPiece
          /\ Longer(m[i], p.len).len = m[i].len + p.len
      BY <1>1, <1>3, <2>1, JoinedIs
    <3>2. m[i].len \in Nat
      BY <1>1, <2>1 DEF AnyPiece
    <3> QED
      BY <1>1, <1>3, <3>1, <3>2 DEF Solid
  <2> HIDE DEF t
  <2>5. t \in Seq(Solid)
    <3>1. \A k \in 1..Len(m) : t[k] \in Solid
      BY <2>3, <2>4, ElementOfSeq
    <3>2. t \in [1..Len(m) -> Solid]
      BY <2>3, <3>1, LenProperties
    <3> QED
      BY <3>2, LenProperties
  <2>6. Refs(SubSeq(m, i + 1, Len(m))) = <<>>
    <3>1. SubSeq(m, i + 1, Len(m)) = <<>>
      BY <2>1, SubSeqEmpty
    <3> QED
      BY <3>1, RefsEmpty
  <2>7. Refs(m) = Cat(Refs(SubSeq(m, 1, i - 1)), Cells(m[i])) /\ SubSeq(m, 1, i - 1) \in Seq(AnyPiece)
    <3>1. SubSeq(m, 1, i) = m
      BY SubSeqFull
    <3> QED
      BY <1>1, <2>1, <3>1, RefsOfPrefix
  <2>8. Refs(t) = Cat(Refs(m), Cells(p))
    <3> DEFINE a == Refs(SubSeq(m, 1, i - 1))
               b == Cells(m[i])
               c == Cells(p)
    <3>1. a \in Seq(Ref) /\ b \in Seq(Ref) /\ c \in Seq(Ref)
      BY <1>1, <2>1, <2>7, RefsIn, CellsAt
    <3>2. Refs(t) = Cat(Cat(a, Cat(b, c)), <<>>) /\ Refs(m) = Cat(a, b)
      BY <2>3, <2>6, <2>7
    <3> HIDE DEF a, b, c
    <3>3. Cat(a, Cat(b, c)) \in Seq(Ref) /\ Cat(Cat(a, b), c) = Cat(a, Cat(b, c))
      BY <3>1, CatOf, CatIn
    <3>4. Refs(t) = Cat(Cat(a, b), c)
      BY <3>2, <3>3, CatEmpty
    <3> QED
      BY <3>2, <3>4 DEF c
  <2> QED
    BY <2>2, <2>5, <2>8
<1>4. CASE p.len # 0 /\ ~(m # <<>> /\ Adjacent(Last(m), p))
  <2>1. p \in Solid
    BY <1>1, <1>4 DEF Solid
  <2>2. Merged(m, p) = Append(m, p)
    BY <1>4 DEF Merged
  <2> QED
    BY <1>1, <2>1, <2>2, AppendProperties, RefsAppend
<1> QED
  BY <1>2, <1>3, <1>4

Merging == [x \in Seq(Solid) \X AnyPiece |-> Merged(x[1], x[2])]
NoPieces == <<>>

LEMMA CoalesceIs ==
  ASSUME NEW ps \in Seq(AnyPiece)
  PROVE  /\ Coalesce(ps) \in Seq(Solid \cup {EmptyPiece}) /\ Coalesce(ps) # <<>>
         /\ Refs(Coalesce(ps)) = Refs(ps)
<1> DEFINE n == Len(ps)
           Step(f, k) == IF k = 0 THEN <<>> ELSE Merged(f[k - 1], ps[k])
           acc == CHOOSE f : f = [k \in 0..n |-> Step(f, k)]
           G == [k \in 1..n |-> [x \in Seq(Solid) |-> Merged(x, ps[k])]]
           V == [k \in 0..n |-> {x \in Seq(Solid) : Refs(x) = Refs(SubSeq(ps, 1, k))}]
<1>1. /\ n \in Nat /\ 0 \in 0..n /\ n \in 0..n
      /\ \A k \in 1..n : k \in 0..n /\ k # 0 /\ k - 1 \in 0..n /\ ps[k] \in AnyPiece
  BY LenProperties, ElementOfSeq
<1>2. <<>> \in V[0]
  <2>1. SubSeq(ps, 1, 0) = <<>> /\ <<>> \in Seq(Solid)
    BY SubSeqEmpty, EmptySeq
  <2> QED
    BY <1>1, <2>1
<1>3. \A k \in 1..n : \A x \in V[k - 1] : G[k][x] = Merged(x, ps[k]) /\ G[k][x] \in V[k]
  <2> SUFFICES ASSUME NEW k \in 1..n, NEW x \in Seq(Solid), Refs(x) = Refs(SubSeq(ps, 1, k - 1))
               PROVE  G[k][x] = Merged(x, ps[k]) /\ G[k][x] \in V[k]
    BY <1>1
  <2>1. Merged(x, ps[k]) \in Seq(Solid) /\ Refs(Merged(x, ps[k])) = Cat(Refs(x), Cells(ps[k]))
    BY <1>1, MergedIs
  <2>2. Refs(SubSeq(ps, 1, k)) = Cat(Refs(SubSeq(ps, 1, k - 1)), Cells(ps[k]))
    BY RefsOfPrefix
  <2> QED
    BY <1>1, <2>1, <2>2
<1>4. PICK h : StepsAre(n, V, NoPieces, G, h)
  <2>1. StepsIn(n, V, NoPieces, G)
    BY <1>2, <1>3 DEF StepsIn, NoPieces
  <2> HIDE DEF G, V, n
  <2> QED
    BY <1>1, <2>1, StepsExist
<1>5. ASSUME NEW k \in 1..n
      PROVE  h[k] = Merged(h[k - 1], ps[k])
  <2> HIDE DEF G, V, n
  <2> QED
    BY <1>1, <1>3, <1>4 DEF StepsAre
<1>6. h[n] \in Seq(Solid) /\ Refs(h[n]) = Refs(ps)
  <2>1. h[n] \in V[n]
    BY <1>1, <1>4 DEF StepsAre
  <2>2. SubSeq(ps, 1, n) = ps
    BY SubSeqFull
  <2> QED
    BY <1>1, <2>1, <2>2
<1> HIDE DEF G, V, n
<1>7. ASSUME NEW k \in 0..n
      PROVE  h[k] = Step(h, k)
  <2>1. k = 0 \/ k \in 1..n
    BY <1>1
  <2> QED
    BY <1>4, <1>5, <2>1 DEF StepsAre, NoPieces
<1>8. h = [k \in 0..n |-> Step(h, k)]
  BY <1>4, <1>7 DEF StepsAre
<1>9. acc = [k \in 0..n |-> Step(acc, k)]
  BY <1>8, Zenon
<1> DEFINE done == acc[n]
<1>10. Coalesce(ps) = IF done = <<>> THEN <<EmptyPiece>> ELSE done
  BY DEF Coalesce, Along, n
<1> HIDE DEF acc
<1>11. InStep(acc, h, n)
  BY <1>1, <1>4, <1>5, <1>9 DEF InStep, StepsAre, NoPieces
<1>12. done = h[n]
  BY <1>1, <1>11, Agree
<1> HIDE DEF done
<1>13. done \in Seq(Solid \cup {EmptyPiece})
  BY <1>6, <1>12, SeqMonotonic
<1>14. /\ <<EmptyPiece>> \in Seq(Solid \cup {EmptyPiece}) /\ <<EmptyPiece>> # <<>>
       /\ Refs(<<EmptyPiece>>) = <<>>
  <2>1. EmptyPiece \in AnyPiece /\ EmptyPiece.len = 0
    BY DEF EmptyPiece, Piece, AnyPiece, Sources
  <2>2. Refs(<<EmptyPiece>>) = Cells(EmptyPiece) /\ Cells(EmptyPiece) = <<>>
    BY <2>1, RefsOne, NoCells
  <2> QED
    BY <2>2
<1>15. CASE done = <<>>
  BY <1>6, <1>10, <1>12, <1>14, <1>15, RefsEmpty
<1>16. CASE done # <<>>
  BY <1>6, <1>10, <1>12, <1>13, <1>16
<1> QED
  BY <1>15, <1>16
\* What a document and the history hold: pieces that are not empty, or that stand
\* for an empty document.
Kept == {p \in AnyPiece : p.len > 0 \/ p.start = 0}
Docs == {ps \in Seq(Kept) : ps # <<>>}

LEMMA KeptIn ==
  /\ Kept \subseteq AnyPiece /\ EmptyPiece \in Kept /\ Seq(Kept) \subseteq Seq(AnyPiece)
  /\ Docs \subseteq Seq(AnyPiece)
<1>1. Kept \subseteq AnyPiece
  BY DEF Kept
<1>3. EmptyPiece \in Kept
  BY DEF Kept, EmptyPiece, Piece, AnyPiece, Sources
<1>2. \A ps \in Seq(Kept) : ps \in Seq(AnyPiece)
  BY <1>1, SeqMonotonic
<1> QED
  BY <1>1, <1>2, <1>3 DEF Docs

LEMMA ReplaceRunIs ==
  ASSUME NEW ps \in Docs, NEW first \in 1..Len(ps), NEW last \in first..Len(ps),
         NEW new \in Seq(AnyPiece)
  PROVE  /\ ReplaceRun(ps, first, last, new) \in Docs
         /\ Refs(ReplaceRun(ps, first, last, new))
              = Cat(Cat(Refs(SubSeq(ps, 1, first - 1)), Refs(new)), Refs(SubSeq(ps, last + 1, Len(ps))))
<1> DEFINE n == Len(ps)
           lo == IF first > 1 THEN first - 1 ELSE first
           hi == IF last < Len(ps) THEN last + 1 ELSE last
           a == SubSeq(ps, 1, lo - 1)
           b == SubSeq(ps, lo, first - 1)
           c == SubSeq(ps, last + 1, hi)
           d == SubSeq(ps, hi + 1, Len(ps))
           mid == Coalesce(Cat(Cat(b, new), c))
<1>1. ps \in Seq(Kept) /\ ps # <<>> /\ ps \in Seq(AnyPiece) /\ n \in Nat
  BY KeptIn, LenProperties DEF Docs
<1>2. /\ lo \in 1..n /\ lo - 1 \in 0..n /\ first - 1 \in (lo - 1)..n /\ hi \in last..n /\ lo <= first
      /\ 1 \in 1..n + 1 /\ lo - 1 \in (1 - 1)..n /\ lo \in 1..n + 1
      /\ last + 1 \in 1..n + 1 /\ hi \in (last + 1 - 1)..n /\ hi + 1 \in 1..n + 1
      /\ n \in (hi + 1 - 1)..n /\ (lo - 1) + 1 = lo /\ n \in hi..n
  BY <1>1
<1>3. ReplaceRun(ps, first, last, new) = Cat(Cat(a, mid), d)
  BY DEF ReplaceRun, Cat
<1> HIDE DEF lo, hi
<1>4. a \in Seq(Kept) /\ b \in Seq(Kept) /\ c \in Seq(Kept) /\ d \in Seq(Kept)
  BY <1>1, <1>2, RangeIn
<1>5. Cat(a, b) = SubSeq(ps, 1, first - 1)
  <2>1. Cat(SubSeq(ps, 1, lo - 1), SubSeq(ps, (lo - 1) + 1, first - 1)) = SubSeq(ps, 1, first - 1)
    BY <1>1, <1>2, CatAdjacent
  <2> QED
    BY <1>2, <2>1
<1>6. Cat(c, d) = SubSeq(ps, last + 1, Len(ps))
  <2>1. last + 1 \in 1..Len(ps) + 1 /\ hi \in (last + 1) - 1..Len(ps) /\ Len(ps) \in hi..Len(ps)
    BY <1>1, <1>2
  <2>2. Cat(SubSeq(ps, last + 1, hi), SubSeq(ps, hi + 1, Len(ps))) = SubSeq(ps, last + 1, Len(ps))
    BY <1>1, <2>1, CatAdjacent
  <2> QED
    BY <2>2
<1> HIDE DEF a, b, c, d
<1>7. a \in Seq(AnyPiece) /\ b \in Seq(AnyPiece) /\ c \in Seq(AnyPiece) /\ d \in Seq(AnyPiece)
  BY <1>4, KeptIn
<1>8. Cat(b, new) \in Seq(AnyPiece) /\ Cat(Cat(b, new), c) \in Seq(AnyPiece)
  BY <1>7, CatIn
<1>9. mid \in Seq(Kept) /\ mid # <<>> /\ Refs(mid) = Refs(Cat(Cat(b, new), c))
  <2>1. Solid \cup {EmptyPiece} \subseteq Kept
    BY KeptIn DEF Kept, Solid
  <2> QED
    BY <1>8, <2>1, CoalesceIs, SeqMonotonic
<1> HIDE DEF mid
<1>10. mid \in Seq(AnyPiece) /\ Cat(a, mid) \in Seq(AnyPiece) /\ Cat(a, mid) \in Seq(Kept)
       /\ Cat(Cat(a, mid), d) \in Seq(Kept)
  BY <1>4, <1>7, <1>9, KeptIn, CatIn
<1>11. Cat(Cat(a, mid), d) # <<>>
  <2>1. Len(Cat(Cat(a, mid), d)) = Len(Cat(a, mid)) + Len(d) /\ Len(Cat(a, mid)) = Len(a) + Len(mid)
    BY <1>4, <1>9, <1>10, CatIn
  <2>2. Len(a) \in Nat /\ Len(d) \in Nat /\ Len(mid) \in Nat \ {0}
    BY <1>4, <1>9, EmptySeq, LenProperties
  <2>3. Len(Cat(Cat(a, mid), d)) # 0
    BY <2>1, <2>2
  <2> QED
    BY <1>10, <2>3, EmptySeq
<1>12. /\ Refs(Cat(Cat(a, mid), d)) = Cat(Cat(Refs(a), Refs(mid)), Refs(d))
       /\ Refs(mid) = Cat(Cat(Refs(b), Refs(new)), Refs(c))
       /\ Refs(Cat(a, b)) = Cat(Refs(a), Refs(b)) /\ Refs(Cat(c, d)) = Cat(Refs(c), Refs(d))
  BY <1>7, <1>8, <1>9, <1>10, RefsCat
<1>13. Cat(Cat(Refs(a), Cat(Cat(Refs(b), Refs(new)), Refs(c))), Refs(d))
          = Cat(Cat(Cat(Refs(a), Refs(b)), Refs(new)), Cat(Refs(c), Refs(d)))
  BY <1>7, RefsIn, CatsOfFive
<1>14. Refs(Cat(Cat(a, mid), d)) = Cat(Cat(Refs(Cat(a, b)), Refs(new)), Refs(Cat(c, d)))
  BY <1>12, <1>13
<1> QED
  BY <1>3, <1>5, <1>6, <1>10, <1>11, <1>14 DEF Docs

-----------------------------------------------------------------------------
(* Insertions and deletions of references. *)

\* The document e is d with t inserted at an offset.
Inserts(d, at, t, e) ==
  \E a, b \in Seq(Ref) : Len(a) = at /\ d = Cat(a, b) /\ e = Cat(Cat(a, t), b)

LEMMA InsertsNone ==
  ASSUME NEW d \in Seq(Ref), NEW at \in 0..Len(d)
  PROVE  Inserts(d, at, <<>>, d)
<1> DEFINE a == SubSeq(d, 1, at)
           b == SubSeq(d, at + 1, Len(d))
<1>1. a \in Seq(Ref) /\ Len(a) = at /\ b \in Seq(Ref) /\ d = Cat(a, b)
  BY PrefixAt, SuffixAt, SplitIsCat
<1> HIDE DEF a, b
<1>2. Cat(a, <<>>) = a
  BY <1>1, CatEmpty
<1>3. d = Cat(Cat(a, <<>>), b)
  BY <1>1, <1>2
<1> QED
  BY <1>1, <1>3 DEF Inserts

LEMMA InsertsSize ==
  ASSUME NEW d \in Seq(Ref), NEW t \in Seq(Ref), NEW at, NEW e, Inserts(d, at, t, e)
  PROVE  e \in Seq(Ref) /\ Len(e) = Len(d) + Len(t) /\ at \in 0..Len(d)
<1>1. PICK a \in Seq(Ref), b \in Seq(Ref) : Len(a) = at /\ d = Cat(a, b) /\ e = Cat(Cat(a, t), b)
  BY DEF Inserts
<1>2. Len(a) \in Nat /\ Len(b) \in Nat /\ Len(t) \in Nat
  BY LenProperties
<1>3. Len(d) = Len(a) + Len(b)
  BY <1>1, CatIn
<1>4. Cat(a, t) \in Seq(Ref) /\ Len(Cat(a, t)) = Len(a) + Len(t)
  BY CatIn
<1>5. e \in Seq(Ref) /\ Len(e) = Len(Cat(a, t)) + Len(b)
  BY <1>1, <1>4, CatIn
<1> QED
  BY <1>1, <1>2, <1>3, <1>4, <1>5

\* There is one result of an insertion.
LEMMA InsertsOnce ==
  ASSUME NEW at, NEW d, NEW t, NEW e, NEW f, Inserts(d, at, t, e), Inserts(d, at, t, f)
  PROVE  e = f
<1>1. PICK a \in Seq(Ref), b \in Seq(Ref) : Len(a) = at /\ d = Cat(a, b) /\ e = Cat(Cat(a, t), b)
  BY DEF Inserts
<1>2. PICK x \in Seq(Ref), y \in Seq(Ref) : Len(x) = at /\ d = Cat(x, y) /\ f = Cat(Cat(x, t), y)
  BY DEF Inserts
<1>3. Cat(a, b) = Cat(x, y) /\ Len(a) = Len(x)
  BY <1>1, <1>2
<1>4. a = x /\ b = y
  <2>1. \A p, q, r, s \in Seq(Ref) : Cat(p, q) = Cat(r, s) /\ Len(p) = Len(r) => p = r /\ q = s
    BY CatOnce
  <2> QED
    BY <1>3, <2>1, Zenon
<1> QED
  BY <1>1, <1>2, <1>4

\* And one document and one text of a size that were there before.
LEMMA RemovesOnce ==
  ASSUME NEW at, NEW d, NEW c, NEW t \in Seq(Ref), NEW u \in Seq(Ref), NEW e,
         Inserts(d, at, t, e), Inserts(c, at, u, e), Len(t) = Len(u)
  PROVE  d = c /\ t = u
<1>1. PICK a \in Seq(Ref), b \in Seq(Ref) : Len(a) = at /\ d = Cat(a, b) /\ e = Cat(Cat(a, t), b)
  BY DEF Inserts
<1>2. PICK x \in Seq(Ref), y \in Seq(Ref) : Len(x) = at /\ c = Cat(x, y) /\ e = Cat(Cat(x, u), y)
  BY DEF Inserts
<1>3. \A p, q, r, s \in Seq(Ref) : Cat(p, q) = Cat(r, s) /\ Len(p) = Len(r) => p = r /\ q = s
  BY CatOnce
<1>4. /\ Cat(a, t) \in Seq(Ref) /\ Len(Cat(a, t)) = Len(a) + Len(t)
      /\ Cat(x, u) \in Seq(Ref) /\ Len(Cat(x, u)) = Len(x) + Len(u)
  BY CatIn
<1>5. Cat(Cat(a, t), b) = Cat(Cat(x, u), y) /\ Len(Cat(a, t)) = Len(Cat(x, u)) /\ Len(a) = Len(x)
  BY <1>1, <1>2, <1>4
<1>6. Cat(a, t) = Cat(x, u) /\ b = y
  BY <1>3, <1>4, <1>5, Zenon
<1>7. a = x /\ t = u
  BY <1>3, <1>5, <1>6, Zenon
<1> QED
  BY <1>1, <1>2, <1>6, <1>7
LEMMA InsertsInside ==
  ASSUME NEW l \in Seq(Ref), NEW x \in Seq(Ref), NEW y \in Seq(Ref), NEW r \in Seq(Ref),
         NEW t \in Seq(Ref)
  PROVE  Inserts(Cat(Cat(l, Cat(x, y)), r), Len(l) + Len(x), t, Cat(Cat(l, Cat(Cat(x, t), y)), r))
<1> DEFINE a == Cat(l, x)
           b == Cat(y, r)
           d == Cat(Cat(l, Cat(x, y)), r)
           e == Cat(Cat(l, Cat(Cat(x, t), y)), r)
<1>1. a \in Seq(Ref) /\ b \in Seq(Ref) /\ Len(a) = Len(l) + Len(x)
  BY CatIn
<1>2. d = Cat(a, b)
  BY CatsOfFour
<1>3. e = Cat(Cat(a, t), b)
  BY CatsOfFive
<1> HIDE DEF a, b, d, e
<1>4. Inserts(d, Len(a), t, e)
  BY <1>1, <1>2, <1>3 DEF Inserts
<1> QED
  BY <1>1, <1>4 DEF d, e

\* What stands around one piece, and around an offset in it.
LEMMA AroundPiece ==
  ASSUME NEW ps \in Seq(AnyPiece), NEW i \in 1..Len(ps)
  PROVE  /\ SubSeq(ps, 1, i - 1) \in Seq(AnyPiece) /\ SubSeq(ps, i + 1, Len(ps)) \in Seq(AnyPiece)
         /\ ps[i] \in AnyPiece
         /\ Refs(ps) = Cat(Cat(Refs(SubSeq(ps, 1, i - 1)), Cells(ps[i])), Refs(SubSeq(ps, i + 1, Len(ps))))
         /\ Len(Refs(SubSeq(ps, 1, i - 1))) = LogicalStart(ps, i)
<1>1. Len(ps) \in Nat /\ i \in i..Len(ps) /\ ps[i] \in AnyPiece
  BY LenProperties, ElementOfSeq
<1>2. SubSeq(ps, i, i) = <<ps[i]>>
  <2> DEFINE x == SubSeq(ps, i, i)
             y == <<ps[i]>>
  <2>1. /\ x \in Seq(AnyPiece) /\ Len(x) = i - i + 1
        /\ \A k \in 1..(i - i + 1) : x[k] = ps[i + k - 1]
    BY <1>1, ThreeCats
  <2>2. y \in Seq(AnyPiece) /\ Len(y) = 1 /\ y[1] = ps[i]
    BY <1>1
  <2> HIDE DEF x, y
  <2>3. Len(x) = Len(y) /\ \A k \in 1..Len(x) : x[k] = y[k]
    <3>1. i - i + 1 = 1 /\ \A k \in 1..1 : k = 1 /\ i + k - 1 = i
      BY <1>1
    <3> QED
      BY <2>1, <2>2, <3>1
  <2>4. x = y
    BY <2>1, <2>2, <2>3, SeqEqual
  <2> QED
    BY <2>4 DEF x, y
<1>3. /\ SubSeq(ps, 1, i - 1) \in Seq(AnyPiece) /\ SubSeq(ps, i + 1, Len(ps)) \in Seq(AnyPiece)
      /\ Refs(ps) = Cat(Cat(Refs(SubSeq(ps, 1, i - 1)), Refs(SubSeq(ps, i, i))), Refs(SubSeq(ps, i + 1, Len(ps))))
  BY <1>1, RefsAround
<1>4. Refs(<<ps[i]>>) = Cells(ps[i])
  BY <1>1, RefsOne
<1>5. Len(Refs(SubSeq(ps, 1, i - 1))) = LogicalStart(ps, i)
  BY Starts
<1> QED
  BY <1>1, <1>2, <1>3, <1>4, <1>5

LEMMA InsertPiecesIs ==
  ASSUME NEW ps \in Docs, NEW at \in 0..Len(Refs(ps)), NEW new \in Seq(AnyPiece)
  PROVE  /\ InsertPieces(ps, at, new) \in Docs
         /\ Inserts(Refs(ps), at, Refs(new), Refs(InsertPieces(ps, at, new)))
<1>1. ps \in Seq(AnyPiece) /\ ps # <<>> /\ Refs(ps) \in Seq(Ref) /\ Refs(new) \in Seq(Ref)
  BY KeptIn, RefsIn DEF Docs
<1>2. CASE new = <<>>
  <2>1. InsertPieces(ps, at, new) = ps /\ Refs(new) = <<>>
    BY <1>2, RefsEmpty DEF InsertPieces
  <2> QED
    BY <1>1, <2>1, InsertsNone
<1>3. CASE new # <<>>
  <2> DEFINE i == Locate(ps, at)
             s == LogicalStart(ps, i)
             p == ps[i]
             p1 == Part(p, 0, at - s)
             p2 == Part(p, at - s, p.len)
             run == Cat(Cat(<<p1>>, new), <<p2>>)
             l == Refs(SubSeq(ps, 1, i - 1))
             r == Refs(SubSeq(ps, i + 1, Len(ps)))
             x == Cells(p1)
             y == Cells(p2)
  <2>1. i \in 1..Len(ps) /\ s <= at /\ at <= s + p.len
    BY <1>1, LocateIs
  <2>2. InsertPieces(ps, at, new) = ReplaceRun(ps, i, i, run)
    BY <1>3 DEF InsertPieces, Cat
  <2> HIDE DEF i
  <2>3. /\ SubSeq(ps, 1, i - 1) \in Seq(AnyPiece) /\ SubSeq(ps, i + 1, Len(ps)) \in Seq(AnyPiece)
        /\ p \in AnyPiece /\ Refs(ps) = Cat(Cat(l, Cells(p)), r) /\ Len(l) = s
    BY <1>1, <2>1, AroundPiece
  <2>4. l \in Seq(Ref) /\ r \in Seq(Ref) /\ Len(ps) \in Nat /\ i \in i..Len(ps) /\ s \in Nat
    <3>1. l \in Seq(Ref) /\ r \in Seq(Ref)
      BY <2>3, RefsIn
    <3>2. Len(ps) \in Nat /\ s = Len(l)
      BY <1>1, <2>3, LenProperties
    <3> QED
      BY <2>1, <3>1, <3>2, LenProperties
  <2> HIDE DEF p, s
  <2>5. /\ p.len \in Nat /\ at \in Nat /\ 0 \in 0..p.len /\ at - s \in 0..p.len /\ at - s \in Nat
        /\ p.len \in (at - s)..p.len
    <3> DEFINE m == p.len
    <3>1. m \in Nat
      BY <2>3 DEF AnyPiece
    <3>2. at \in Nat /\ s <= at /\ at <= s + m /\ s \in Nat
      BY <1>1, <2>1, <2>4, LenProperties
    <3> HIDE DEF m
    <3>3. 0 \in 0..m /\ at - s \in 0..m /\ at - s \in Nat /\ m \in (at - s)..m
      BY <3>1, <3>2
    <3> QED
      BY <3>1, <3>2, <3>3 DEF m
  <2>6. p1 \in AnyPiece /\ p1.len = at - s /\ p2 \in AnyPiece
    <3>1. p1 \in AnyPiece /\ p1.len = (at - s) - 0
      BY <2>3, <2>5, PartIs
    <3>2. p2 \in AnyPiece
      BY <2>3, <2>5, PartIs
    <3> QED
      BY <2>5, <3>1, <3>2
  <2>7. Cells(p) = Cat(x, y)
    <3>1. Cells(Part(p, 0, p.len)) = Cat(Cells(p1), Cells(p2))
      BY <2>3, <2>5, CellsSplit
    <3> QED
      BY <2>3, <3>1, PartWhole
  <2> HIDE DEF p1, p2, l, r
  <2>8. x \in Seq(Ref) /\ y \in Seq(Ref) /\ Len(x) = at - s
    BY <2>6, CellsAt
  <2>9. run \in Seq(AnyPiece) /\ Refs(run) = Cat(Cat(x, Refs(new)), y)
    <3>1. <<p1>> \in Seq(AnyPiece) /\ <<p2>> \in Seq(AnyPiece) /\ Refs(<<p1>>) = x /\ Refs(<<p2>>) = y
      BY <2>6, RefsOne
    <3>2. Cat(<<p1>>, new) \in Seq(AnyPiece) /\ run \in Seq(AnyPiece)
      BY <3>1, CatIn
    <3>3. Refs(Cat(<<p1>>, new)) = Cat(Refs(<<p1>>), Refs(new))
      BY <3>1, RefsCat
    <3>4. Refs(run) = Cat(Refs(Cat(<<p1>>, new)), Refs(<<p2>>))
      BY <3>1, <3>2, RefsCat
    <3> QED
      BY <3>1, <3>2, <3>3, <3>4
  <2> HIDE DEF run, x, y
  <2>10. /\ ReplaceRun(ps, i, i, run) \in Docs
         /\ Refs(ReplaceRun(ps, i, i, run)) = Cat(Cat(l, Refs(run)), r)
    <3>1. /\ ReplaceRun(ps, i, i, run) \in Docs
          /\ Refs(ReplaceRun(ps, i, i, run))
               = Cat(Cat(Refs(SubSeq(ps, 1, i - 1)), Refs(run)), Refs(SubSeq(ps, i + 1, Len(ps))))
      BY <2>1, <2>4, <2>9, ReplaceRunIs
    <3> QED
      BY <3>1 DEF l, r
  <2>11. Inserts(Cat(Cat(l, Cat(x, y)), r), Len(l) + Len(x), Refs(new), Cat(Cat(l, Cat(Cat(x, Refs(new)), y)), r))
    BY <1>1, <2>4, <2>8, InsertsInside
  <2>12. Len(l) + Len(x) = at
    BY <2>3, <2>4, <2>5, <2>8 DEF s
  <2> QED
    BY <2>2, <2>3, <2>7, <2>9, <2>10, <2>11, <2>12
<1> QED
  BY <1>2, <1>3
\* A scalar typed behind a piece of the add buffer makes that piece longer.
LEMMA InsertScalarIs ==
  ASSUME NEW ps \in Docs, NEW at \in 0..Len(Refs(ps)), NEW p \in Solid
  PROVE  /\ InsertScalar(ps, at, p) \in Docs
         /\ Inserts(Refs(ps), at, Cells(p), Refs(InsertScalar(ps, at, p)))
<1> DEFINE before == {i \in 1..Len(ps) : LogicalStart(ps, i) + ps[i].len = at /\ ps[i].len > 0}
           Joins == \E i \in before : ps[i].src = "Add" /\ Adjacent(ps[i], p)
<1>1. /\ ps \in Seq(AnyPiece) /\ ps \in Seq(Kept) /\ p \in AnyPiece /\ p.len \in Nat /\ p.len > 0
      /\ Len(ps) \in Nat /\ ps # <<>>
  BY KeptIn, LenProperties DEF Docs, Solid, AnyPiece
<1>2. CASE ~Joins
  <2>1. InsertScalar(ps, at, p) = InsertPieces(ps, at, <<p>>)
    BY <1>2 DEF InsertScalar
  <2>2. <<p>> \in Seq(AnyPiece) /\ Refs(<<p>>) = Cells(p)
    BY <1>1, RefsOne
  <2>3. /\ InsertPieces(ps, at, <<p>>) \in Docs
        /\ Inserts(Refs(ps), at, Refs(<<p>>), Refs(InsertPieces(ps, at, <<p>>)))
    BY <2>2, InsertPiecesIs
  <2> QED
    BY <2>1, <2>2, <2>3
<1>3. CASE Joins
  <2> DEFINE i == CHOOSE j \in before : TRUE
  <2>1. PICK k \in before : ps[k].src = "Add" /\ Adjacent(ps[k], p)
    BY <1>3
  <2>2. InsertScalar(ps, at, p) = Lengthen(ps, i, p.len)
    BY <1>3 DEF InsertScalar, Lengthen
  <2>3. i \in before
    BY <2>1
  <2> HIDE DEF i
  <2>4. \A j \in 1..Len(ps) : /\ j + 1 \in 1..Len(ps) + 1 /\ j \in 1..Len(ps) + 1
                              /\ LogicalStart(ps, j) \in Nat /\ ps[j].len \in Nat
                              /\ LogicalStart(ps, j + 1) = LogicalStart(ps, j) + ps[j].len
    <3>1. \A j \in 1..Len(ps) : j + 1 \in 1..Len(ps) + 1 /\ j \in 1..Len(ps) + 1
      BY <1>1
    <3>2. /\ \A j \in 1..Len(ps) + 1 : LogicalStart(ps, j) \in Nat
          /\ \A j \in 1..Len(ps) : /\ ps[j].len \in Nat
                                    /\ LogicalStart(ps, j + 1) = LogicalStart(ps, j) + ps[j].len
      BY <1>1, Starts
    <3> QED
      BY <3>1, <3>2
  <2>5. ASSUME NEW a \in before, NEW b \in before, a < b
        PROVE  FALSE
    <3>1. a + 1 \in 1..Len(ps) + 1 /\ b \in 1..Len(ps) + 1 /\ a + 1 <= b
      BY <1>1, <2>5
    <3>2. LogicalStart(ps, a + 1) <= LogicalStart(ps, b)
      BY <1>1, <3>1, StartsGrow
    <3>3. LogicalStart(ps, a + 1) = at
      BY <2>4
    <3>4. /\ LogicalStart(ps, b) + ps[b].len = at /\ ps[b].len > 0
          /\ LogicalStart(ps, b) \in Nat /\ ps[b].len \in Nat
      BY <2>4
    <3> QED
      BY <3>2, <3>3, <3>4
  <2>6. i = k
    <3>1. ~(i < k) /\ ~(k < i)
      BY <2>3, <2>5
    <3>2. i \in Nat /\ k \in Nat
      BY <2>3
    <3> QED
      BY <3>1, <3>2
  <2> DEFINE l == Refs(SubSeq(ps, 1, i - 1))
             r == Refs(SubSeq(ps, i + 1, Len(ps)))
             x == Cells(ps[i])
             y == Cells(p)
             e == Lengthen(ps, i, p.len)
  <2>7. /\ i \in 1..Len(ps) /\ Adjacent(ps[i], p) /\ LogicalStart(ps, i) + ps[i].len = at
        /\ ps[i].len > 0 /\ ps[i] \in Kept
    BY <1>1, <2>1, <2>3, <2>6, ElementOfSeq
  <2>8. /\ SubSeq(ps, 1, i - 1) \in Seq(AnyPiece) /\ SubSeq(ps, i + 1, Len(ps)) \in Seq(AnyPiece)
        /\ ps[i] \in AnyPiece
        /\ Refs(ps) = Cat(Cat(l, x), r) /\ Len(l) = LogicalStart(ps, i)
    BY <1>1, <2>7, AroundPiece
  <2>9. /\ e \in Seq(AnyPiece) /\ Len(e) = Len(ps)
        /\ \A j \in 1..Len(ps) : e[j] = IF j = i THEN Longer(ps[i], p.len) ELSE ps[j]
        /\ Refs(e) = Cat(Cat(l, Cat(x, y)), r)
    BY <1>1, <2>7, LongerAt
  <2>10. l \in Seq(Ref) /\ r \in Seq(Ref) /\ x \in Seq(Ref) /\ y \in Seq(Ref) /\ Len(x) = ps[i].len
    BY <1>1, <2>8, RefsIn, CellsAt
  <2>11. Longer(ps[i], p.len) \in Kept
    <3>1. Longer(ps[i], p.len) \in AnyPiece /\ Longer(ps[i], p.len).len = ps[i].len + p.len
      BY <1>1, <2>7, <2>8, JoinedIs
    <3>2. ps[i].len \in Nat
      BY <2>4, <2>7
    <3> QED
      BY <1>1, <3>1, <3>2 DEF Kept, Solid
  <2> HIDE DEF e, l, r, x, y
  <2>12. e \in Docs
    <3>1. \A j \in 1..Len(ps) : e[j] \in Kept
      BY <1>1, <2>9, <2>11, ElementOfSeq
    <3>2. e \in Seq(Kept)
      BY <1>1, <2>9, <3>1, IsASeq
    <3>3. e # <<>>
      BY <1>1, <2>9, EmptySeq
    <3> QED
      BY <3>2, <3>3 DEF Docs
  <2>13. Inserts(Refs(ps), at, y, Refs(e))
    <3>1. Cat(l, x) \in Seq(Ref) /\ Len(Cat(l, x)) = Len(l) + Len(x)
      BY <2>10, CatIn
    <3>2. Len(Cat(l, x)) = at
      BY <2>7, <2>8, <2>10, <3>1
    <3>3. Cat(l, Cat(x, y)) = Cat(Cat(l, x), y)
      BY <2>10, CatOf
    <3> QED
      BY <2>8, <2>9, <2>10, <3>1, <3>2, <3>3 DEF Inserts
  <2> QED
    BY <2>2, <2>12, <2>13 DEF e, y
<1> QED
  BY <1>2, <1>3
\* Where the part of piece i that a deletion removes begins, and where it ends.
CutLo(ps, i, start) == IF start > LogicalStart(ps, i) THEN start - LogicalStart(ps, i) ELSE 0
CutHi(ps, i, end) ==
  IF end < LogicalStart(ps, i) + ps[i].len THEN end - LogicalStart(ps, i) ELSE ps[i].len

LEMMA CutIs ==
  ASSUME NEW ps \in Seq(AnyPiece), NEW i \in 1..Len(ps), NEW start \in Nat, NEW end \in Nat,
         ps[i] \in Kept, start < end, LogicalStart(ps, i) < end, LogicalStart(ps, i) + ps[i].len > start
  PROVE  /\ Cut(ps, i, start, end).kept_left \in AnyPiece
         /\ Cut(ps, i, start, end).removed \in Kept
         /\ Cut(ps, i, start, end).kept_right \in AnyPiece
         /\ Len(Cells(Cut(ps, i, start, end).kept_left)) = CutLo(ps, i, start)
         /\ Len(Cells(Cut(ps, i, start, end).kept_right)) = ps[i].len - CutHi(ps, i, end)
         /\ Cells(ps[i]) = Cat(Cat(Cells(Cut(ps, i, start, end).kept_left),
                                   Cells(Cut(ps, i, start, end).removed)),
                               Cells(Cut(ps, i, start, end).kept_right))
<1> DEFINE p == ps[i]
           lo == CutLo(ps, i, start)
           hi == CutHi(ps, i, end)
           a == Part(p, 0, lo)
           b == Part(p, lo, hi)
           c == Part(p, hi, p.len)
<1>1. Cut(ps, i, start, end) = [kept_left |-> a, removed |-> b, kept_right |-> c]
  BY DEF Cut, CutLo, CutHi
<1>2. p \in AnyPiece /\ p.len \in Nat /\ LogicalStart(ps, i) \in Nat
  <2>1. Len(ps) \in Nat /\ i \in 1..Len(ps) + 1
    BY LenProperties
  <2> QED
    BY <2>1, Starts
<1>3. /\ lo \in 0..p.len /\ hi \in lo..p.len /\ (hi = lo => p.len = 0 /\ lo = 0) /\ 0 \in 0..p.len /\ hi \in 0..p.len
      /\ p.len \in hi..p.len /\ lo \in Nat /\ hi \in Nat /\ lo \in 0..hi /\ hi \in 0..p.len
  <2> DEFINE L == LogicalStart(ps, i)
             w == p.len
  <2>1. /\ L \in Nat /\ w \in Nat /\ L < end /\ L + w > start
        /\ lo = (IF start > L THEN start - L ELSE 0)
        /\ hi = (IF end < L + w THEN end - L ELSE w)
    BY <1>2 DEF CutLo, CutHi
  <2> HIDE DEF L, w, lo, hi, p
  <2>2. lo \in Nat /\ L + lo < end /\ lo <= w /\ (L + lo >= start) /\ (lo # 0 => lo < w)
    BY <2>1
  <2>3. hi \in Nat /\ lo <= hi /\ hi <= w /\ (hi = lo => w = 0 /\ lo = 0)
    <3>1. CASE end < L + w
      BY <2>1, <2>2, <3>1
    <3>2. CASE ~(end < L + w)
      BY <2>1, <2>2, <3>2
    <3> QED
      BY <3>1, <3>2
  <2> QED
    BY <2>1, <2>2, <2>3 DEF w
<1> HIDE DEF lo, hi, p
<1>4. a \in AnyPiece /\ a.len = lo - 0
  BY <1>2, <1>3, PartIs
<1>5. b \in AnyPiece /\ b.len = hi - lo /\ b.start = p.start + lo
  BY <1>2, <1>3, PartIs
<1>6. c \in AnyPiece /\ c.len = p.len - hi
  BY <1>2, <1>3, PartIs
<1>7. Cells(p) = Cat(Cat(Cells(a), Cells(b)), Cells(c))
  <2>1. Cells(Part(p, 0, p.len)) = Cat(Cells(Part(p, 0, hi)), Cells(c))
    BY <1>2, <1>3, CellsSplit
  <2>2. 0 \in 0..p.len /\ lo \in 0..p.len /\ hi \in lo..p.len
    BY <1>3
  <2>3. Cells(Part(p, 0, hi)) = Cat(Cells(a), Cells(b))
    BY <1>2, <2>2, CellsSplit
  <2> QED
    BY <1>2, <2>1, <2>3, PartWhole
<1> HIDE DEF a, b, c
<1>8. b \in Kept /\ Len(Cells(a)) = lo /\ Len(Cells(c)) = p.len - hi
  <2>1. Len(Cells(a)) = a.len /\ Len(Cells(c)) = c.len
    BY <1>4, <1>6, CellsAt
  <2>2. a.len = lo
    BY <1>3, <1>4
  <2>3. p \in Kept
    BY DEF p
  <2>4. b.len > 0 \/ b.start = 0
    BY <1>2, <1>3, <1>5, <2>3, PieceOf DEF Kept
  <2> QED
    BY <1>5, <1>6, <2>1, <2>2, <2>4 DEF Kept
<1> QED
  BY <1>1, <1>4, <1>6, <1>7, <1>8 DEF p, lo, hi

\* A deletion hits consecutive pieces, from the one start falls into to the one
\* that holds what is in front of end.
Hit(ps, start, end) ==
  {i \in 1..Len(ps) : LogicalStart(ps, i) < end /\ LogicalStart(ps, i) + ps[i].len > start}

LEMMA HitIs ==
  ASSUME NEW ps \in Seq(AnyPiece), NEW start \in Nat, NEW end \in Nat, start < end,
         end <= Len(Refs(ps))
  PROVE  \E first \in Hit(ps, start, end), last \in Hit(ps, start, end) :
           /\ \A j \in Hit(ps, start, end) : first <= j /\ j <= last
           /\ \A j \in first..last : j \in Hit(ps, start, end)
           /\ LogicalStart(ps, first) <= start
           /\ end <= LogicalStart(ps, last) + ps[last].len
           /\ \A j \in first..last : j > first => CutLo(ps, j, start) = 0
           /\ \A j \in first..last : j < last => CutHi(ps, j, end) = ps[j].len
<1> DEFINE n == Len(ps)
           LS(k) == LogicalStart(ps, k)
           hit == {i \in 1..n : LS(i) < end /\ LS(i) + ps[i].len > start}
<1>1. /\ n \in Nat /\ \A k \in 1..n + 1 : LS(k) \in Nat
      /\ \A k \in 1..n : ps[k].len \in Nat /\ LS(k + 1) = LS(k) + ps[k].len
  BY Starts
<1>2. \A i, j \in 1..n + 1 : i <= j => LS(i) <= LS(j)
  BY StartsGrow
<1>3. Len(Refs(ps)) \in Nat /\ ps # <<>>
  <2>1. Len(Refs(ps)) \in Nat
    BY RefsIn, LenProperties
  <2>2. Len(Refs(ps)) # 0
    BY <2>1
  <2>3. Len(Refs(<<>>)) = 0
    BY RefsEmpty, EmptySeq
  <2> QED
    BY <2>1, <2>2, <2>3
<1>4. PICK s \in 1..n : LS(s) <= start /\ start < LS(s) + ps[s].len
  <2>1. start \in 0..Len(Refs(ps)) /\ start < Len(Refs(ps))
    BY <1>3
  <2> QED
    BY <1>3, <2>1, LocateIs
<1>5. PICK e \in 1..n : LS(e) <= end - 1 /\ end - 1 < LS(e) + ps[e].len
  <2>1. end - 1 \in 0..Len(Refs(ps)) /\ end - 1 < Len(Refs(ps))
    BY <1>3
  <2> QED
    BY <1>3, <2>1, LocateIs
<1>6. Hit(ps, start, end) = hit
  BY DEF Hit
<1> HIDE DEF LS, n
<1>7. \A k \in 1..n : /\ k \in 1..n + 1 /\ k + 1 \in 1..n + 1 /\ LS(k) \in Nat /\ LS(k + 1) \in Nat
                      /\ ps[k].len \in Nat /\ LS(k + 1) = LS(k) + ps[k].len
  <2>1. \A k \in 1..n : k \in 1..n + 1 /\ k + 1 \in 1..n + 1
    BY <1>1
  <2> QED
    BY <1>1, <2>1
<1>8. s \in hit /\ e \in hit /\ hit \in SUBSET (1..n)
  BY <1>4, <1>5, <1>7, SMTT(60)
<1> HIDE DEF hit
<1>9. PICK first \in hit : \A j \in hit : first <= j
  BY <1>1, <1>8, LeastPlace
<1>10. PICK last \in hit : \A j \in hit : j <= last
  BY <1>1, <1>8, GreatestPlace
<1>11. /\ first \in 1..n /\ last \in 1..n /\ first <= s /\ e <= last
       /\ LS(first) + ps[first].len > start /\ LS(last) < end
  BY <1>8, <1>9, <1>10 DEF hit
<1>12. LS(first) <= start
  <2>1. LS(first) <= LS(s)
    BY <1>2, <1>7, <1>11
  <2> QED
    BY <1>4, <1>7, <1>11, <2>1, SMTT(60)
<1>13. end <= LS(last) + ps[last].len
  <2>1. LS(e + 1) <= LS(last + 1)
    <3>1. e + 1 <= last + 1
      BY <1>11
    <3> QED
      BY <1>2, <1>7, <1>11, <3>1
  <2>2. /\ LS(e) \in Nat /\ ps[e].len \in Nat /\ LS(e + 1) = LS(e) + ps[e].len
        /\ LS(last) \in Nat /\ ps[last].len \in Nat /\ LS(last + 1) = LS(last) + ps[last].len
    BY <1>7, <1>11
  <2> QED
    BY <1>5, <2>1, <2>2, SMTT(60)
<1>14. ASSUME NEW j \in first..last
       PROVE  /\ j \in hit /\ (j > first => CutLo(ps, j, start) = 0)
              /\ (j < last => CutHi(ps, j, end) = ps[j].len)
  <2>1. j \in 1..n /\ first <= j /\ j <= last
    BY <1>1, <1>11
  <2>2. /\ LS(j) \in Nat /\ ps[j].len \in Nat /\ LS(j + 1) = LS(j) + ps[j].len
        /\ LS(last) \in Nat /\ LS(first + 1) = LS(first) + ps[first].len
        /\ LS(first) \in Nat /\ ps[first].len \in Nat /\ LS(first + 1) \in Nat
    BY <1>7, <1>11, <2>1
  <2>3. LS(j) <= LS(last)
    BY <1>2, <1>7, <1>11, <2>1
  <2>4. LS(first + 1) <= LS(j + 1)
    <3>1. first + 1 <= j + 1
      BY <1>11, <2>1
    <3> QED
      BY <1>2, <1>7, <1>11, <2>1, <3>1
  <2>5. j \in hit
    BY <1>11, <2>1, <2>2, <2>3, <2>4, SMTT(60) DEF hit
  <2>6. ASSUME j > first
        PROVE  CutLo(ps, j, start) = 0
    <3>1. first + 1 <= j
      BY <1>11, <2>1, <2>6
    <3>2. LS(first + 1) <= LS(j)
      BY <1>2, <1>7, <1>11, <2>1, <3>1
    <3>3. ~(start > LS(j))
      BY <1>11, <2>2, <3>2
    <3> QED
      BY <3>3 DEF CutLo, LS
  <2>7. ASSUME j < last
        PROVE  CutHi(ps, j, end) = ps[j].len
    <3>1. j + 1 <= last
      BY <1>11, <2>1, <2>7
    <3>2. LS(j + 1) <= LS(last)
      BY <1>2, <1>7, <1>11, <2>1, <3>1
    <3>3. ~(end < LS(j) + ps[j].len)
      BY <1>11, <2>2, <3>2, SMTT(60)
    <3> QED
      BY <3>3 DEF CutHi, LS
  <2> QED
    BY <2>5, <2>6, <2>7
<1>15. /\ \A j \in first..last : j \in hit
       /\ \A j \in first..last : j > first => CutLo(ps, j, start) = 0
       /\ \A j \in first..last : j < last => CutHi(ps, j, end) = ps[j].len
  BY <1>14
<1> QED
  BY <1>6, <1>9, <1>10, <1>12, <1>13, <1>15 DEF LS
\* What a deletion removes, put back at start, is the document there was.
LEMMA DeleteRangeIs ==
  ASSUME NEW ps \in Docs, NEW start \in Nat, NEW end \in Nat, start < end, end <= Len(Refs(ps))
  PROVE  /\ DeleteRange(ps, start, end).pieces \in Docs
         /\ DeleteRange(ps, start, end).removed \in Seq(Kept)
         /\ DeleteRange(ps, start, end).removed # <<>>
         /\ Len(Refs(DeleteRange(ps, start, end).removed)) = end - start
         /\ Inserts(Refs(DeleteRange(ps, start, end).pieces), start,
                    Refs(DeleteRange(ps, start, end).removed), Refs(ps))
<1> DEFINE hit == Hit(ps, start, end)
           first == CHOOSE i \in hit : \A j \in hit : i <= j
           last == CHOOSE i \in hit : \A j \in hit : j <= i
           cut(i) == Cut(ps, i, start, end)
           N == last - first + 1
           cuts == [n \in 1..N |-> cut(first + n - 1)]
           removed == [n \in 1..Len(cuts) |-> cuts[n].removed]
           kl == cuts[1].kept_left
           kr == cuts[Len(cuts)].kept_right
           run == <<kl, kr>>
           LS(k) == LogicalStart(ps, k)
<1>1. /\ ps \in Seq(AnyPiece) /\ ps \in Seq(Kept) /\ Len(ps) \in Nat /\ hit \in SUBSET (1..Len(ps))
      /\ \A i \in hit : LS(i) < end /\ LS(i) + ps[i].len > start
  BY KeptIn, LenProperties DEF Docs, Hit
<1>2. PICK f \in hit, g \in hit :
        /\ \A j \in hit : f <= j /\ j <= g
        /\ \A j \in f..g : j \in hit
        /\ LS(f) <= start
        /\ end <= LS(g) + ps[g].len
        /\ \A j \in f..g : j > f => CutLo(ps, j, start) = 0
        /\ \A j \in f..g : j < g => CutHi(ps, j, end) = ps[j].len
  BY <1>1, HitIs
<1>3. DeleteRange(ps, start, end)
        = [pieces |-> ReplaceRun(ps, first, last, run), removed |-> removed]
  <2>1. ~(start >= end)
    OBVIOUS
  <2> QED
    BY <2>1 DEF DeleteRange, Hit
<1>4. first = f /\ last = g
  <2>1. f \in 1..Len(ps) /\ g \in 1..Len(ps)
    BY <1>1
  <2>2. first \in hit /\ \A j \in hit : first <= j
    BY <1>2
  <2>3. last \in hit /\ \A j \in hit : j <= last
    BY <1>2
  <2> HIDE DEF first, last
  <2>4. first <= f /\ f <= first /\ last <= g /\ g <= last /\ first \in Nat /\ last \in Nat
    BY <1>1, <1>2, <2>2, <2>3
  <2> QED
    BY <2>1, <2>4
<1> HIDE DEF first, last, hit
<1>5. /\ f \in 1..Len(ps) /\ g \in f..Len(ps) /\ g \in 1..Len(ps) /\ f <= g /\ f \in Nat /\ g \in Nat
      /\ N \in Nat /\ N = g - f + 1 /\ N >= 1
  BY <1>1, <1>2, <1>4
<1>6. /\ Len(cuts) = N /\ \A n \in 1..N : cuts[n] = cut(f + n - 1) /\ f + n - 1 \in f..g
      /\ Len(removed) = N /\ \A n \in 1..N : removed[n] = cut(f + n - 1).removed
  <2> HIDE DEF N
  <2>1. Len(cuts) = N /\ \A n \in 1..N : cuts[n] = cut(first + n - 1)
    BY <1>5
  <2>2. ASSUME NEW n \in 1..N
        PROVE  f + n - 1 \in f..g
    BY <1>5
  <2> HIDE DEF cuts
  <2>3. Len(removed) = N /\ \A n \in 1..N : removed[n] = cuts[n].removed
    BY <1>5, <2>1
  <2> QED
    BY <1>4, <2>1, <2>2, <2>3
<1> HIDE DEF cuts, removed, N, cut
<1>7. ASSUME NEW i \in f..g
      PROVE  /\ cut(i).kept_left \in AnyPiece /\ cut(i).removed \in Kept /\ cut(i).kept_right \in AnyPiece
             /\ Len(Cells(cut(i).kept_left)) = CutLo(ps, i, start)
             /\ Len(Cells(cut(i).kept_right)) = ps[i].len - CutHi(ps, i, end)
             /\ Cells(ps[i]) = Cat(Cat(Cells(cut(i).kept_left), Cells(cut(i).removed)),
                                   Cells(cut(i).kept_right))
             /\ i \in 1..Len(ps) /\ ps[i] \in AnyPiece /\ ps[i].len \in Nat
  <2>1. i \in hit
    BY <1>2
  <2>2. i \in 1..Len(ps) /\ LS(i) < end /\ LS(i) + ps[i].len > start /\ ps[i] \in Kept
    BY <1>1, <2>1, ElementOfSeq
  <2>3. ps[i] \in AnyPiece /\ ps[i].len \in Nat
    BY <2>2, KeptIn, PieceOf
  <2> QED
    BY <1>1, <2>2, <2>3, CutIs DEF cut
<1> HIDE DEF LS
<1>8. removed \in Seq(Kept) /\ removed # <<>> /\ removed \in Seq(AnyPiece)
  <2>1. \A n \in 1..N : removed[n] \in Kept
    BY <1>6, <1>7
  <2>2. removed \in Seq(Kept)
    BY <1>5, <1>6, <2>1, IsASeq DEF removed
  <2>3. removed # <<>>
    BY <1>5, <1>6, <2>2, EmptySeq
  <2> QED
    BY <2>2, <2>3, KeptIn
<1> DEFINE l == Refs(SubSeq(ps, 1, f - 1))
           L == Cat(l, Cells(kl))
           Rem(n) == Refs(SubSeq(removed, 1, n))
           Pre(i) == Refs(SubSeq(ps, 1, i))
           T == {n \in Nat : n + 1 <= N =>
                   Pre(f + n) = Cat(Cat(L, Rem(n + 1)), Cells(cut(f + n).kept_right))}
<1>9. /\ f \in f..g /\ g \in f..g /\ 1 \in 1..N /\ N \in 1..N /\ kl = cut(f).kept_left /\ kr = cut(g).kept_right
      /\ f + 0 = f /\ f + (N - 1) = g
  <2>1. /\ f \in f..g /\ g \in f..g /\ 1 \in 1..N /\ N \in 1..N /\ f + 1 - 1 = f /\ f + N - 1 = g
        /\ f + 0 = f /\ f + (N - 1) = g
    BY <1>5
  <2> QED
    BY <1>6, <2>1
<1>10. kl \in AnyPiece /\ kr \in AnyPiece /\ Cells(kl) \in Seq(Ref) /\ Cells(kr) \in Seq(Ref)
  BY <1>7, <1>9, CellsAt
<1> HIDE DEF kl, kr
<1>11. /\ \A i \in f..g : /\ Pre(i) \in Seq(Ref) /\ Pre(i) = Cat(Pre(i - 1), Cells(ps[i]))
                          /\ Pre(i - 1) \in Seq(Ref)
       /\ l \in Seq(Ref) /\ Len(l) = LS(f) /\ LS(f) \in Nat /\ L \in Seq(Ref) /\ l = Pre(f - 1)
  <2>1. ASSUME NEW i \in f..g
        PROVE  Pre(i) \in Seq(Ref) /\ Pre(i) = Cat(Pre(i - 1), Cells(ps[i])) /\ Pre(i - 1) \in Seq(Ref)
    <3>1. i \in 1..Len(ps)
      BY <1>7
    <3> QED
      BY <1>1, <3>1, RefsOfPrefix, RefsIn
  <2>2. l \in Seq(Ref) /\ l = Pre(f - 1)
    BY <1>9, <2>1
  <2>3. Len(l) = LS(f) /\ LS(f) \in Nat
    BY <1>1, <1>5, <2>2, Starts, LenProperties DEF LS
  <2> QED
    BY <1>10, <2>1, <2>2, <2>3, CatIn
<1>12. /\ \A n \in 1..N : Rem(n) \in Seq(Ref)
       /\ Rem(1) = Cells(cut(f).removed)
       /\ \A n \in 1..N : n + 1 <= N => Rem(n + 1) = Cat(Rem(n), Cells(cut(f + n).removed))
  <2>1. \A n \in 1..N : /\ Rem(n) \in Seq(Ref) /\ Rem(n - 1) \in Seq(Ref)
                        /\ Rem(n) = Cat(Rem(n - 1), Cells(removed[n])) /\ Cells(removed[n]) \in Seq(Ref)
    BY <1>6, <1>8, RefsOfPrefix, RefsIn, CellsAt
  <2>2. Rem(0) = <<>>
    <3>1. SubSeq(removed, 1, 0) = <<>>
      BY SubSeqEmpty
    <3> QED
      BY <3>1, RefsEmpty
  <2>3. Rem(1) = Cells(removed[1])
    <3> DEFINE x == Cells(removed[1])
    <3>1. 1 - 1 = 0 /\ 1 \in 1..N
      BY <1>9
    <3>2. Rem(1) = Cat(Rem(0), x) /\ x \in Seq(Ref)
      BY <2>1, <3>1
    <3> HIDE DEF x, Rem
    <3>3. Rem(1) = Cat(<<>>, x)
      BY <2>2, <3>2
    <3> QED
      BY <3>2, <3>3, CatEmpty DEF x
  <2>4. ASSUME NEW n \in 1..N, n + 1 <= N
        PROVE  Rem(n + 1) = Cat(Rem(n), Cells(cut(f + n).removed))
    <3>1. n + 1 \in 1..N /\ (n + 1) - 1 = n /\ f + (n + 1) - 1 = f + n
      BY <1>5, <2>4
    <3>2. Rem(n + 1) = Cat(Rem((n + 1) - 1), Cells(removed[n + 1]))
      BY <2>1, <3>1
    <3>3. removed[n + 1] = cut(f + n).removed
      BY <1>6, <3>1
    <3> QED
      BY <3>1, <3>2, <3>3
  <2>5. removed[1] = cut(f).removed
    BY <1>6, <1>9, <1>5
  <2> QED
    BY <2>1, <2>3, <2>4, <2>5
<1>13. /\ \A i \in f..g : /\ Cells(cut(i).kept_left) \in Seq(Ref) /\ Cells(cut(i).removed) \in Seq(Ref)
                          /\ Cells(cut(i).kept_right) \in Seq(Ref)
       /\ Cells(kl) = Cells(cut(f).kept_left) /\ L = Cat(l, Cells(kl))
  <2>1. \A i \in f..g : cut(i).removed \in AnyPiece
    BY <1>7, KeptIn
  <2> QED
    BY <1>7, <1>9, <2>1, CellsAt
<1> HIDE DEF Pre, L, l
<1>14. 0 \in T
  <2> DEFINE b == Cells(kl)
             c == Cells(cut(f).removed)
             d == Cells(cut(f).kept_right)
  <2>1. l \in Seq(Ref) /\ b \in Seq(Ref) /\ c \in Seq(Ref) /\ d \in Seq(Ref)
    BY <1>9, <1>10, <1>11, <1>13
  <2>2. Pre(f) = Cat(l, Cat(Cat(b, c), d))
    BY <1>7, <1>9, <1>11, <1>13
  <2>3. Rem(1) = c /\ L = Cat(l, b)
    BY <1>12, <1>13
  <2> HIDE DEF b, c, Rem
  <2>4. Pre(f) = Cat(Cat(Cat(l, b), c), d)
    BY <2>1, <2>2, CatsInside
  <2>5. Pre(f + 0) = Cat(Cat(L, Rem(0 + 1)), Cells(cut(f + 0).kept_right))
    BY <1>9, <2>3, <2>4
  <2> QED
    BY <2>5
<1>15. ASSUME NEW n \in Nat, n \in T
       PROVE  n + 1 \in T
  <2> HIDE DEF Rem
  <2> SUFFICES ASSUME (n + 1) + 1 <= N
               PROVE  Pre(f + (n + 1)) = Cat(Cat(L, Rem((n + 1) + 1)), Cells(cut(f + (n + 1)).kept_right))
    OBVIOUS
  <2> DEFINE i == f + n
             j == f + (n + 1)
             c == Cells(cut(j).removed)
             d == Cells(cut(j).kept_right)
             x == Cells(cut(i).kept_right)
             y == Cells(cut(j).kept_left)
  <2>1. /\ i \in f..g /\ j \in f..g /\ i < g /\ j > f /\ j - 1 = i /\ n + 1 \in 1..N /\ n + 1 <= N
        /\ f + (n + 1) = j
    BY <1>5
  <2>2. Pre(i) = Cat(Cat(L, Rem(n + 1)), x)
    BY <1>15, <2>1
  <2> HIDE DEF i, j
  <2>3. /\ Len(x) = 0 /\ Len(y) = 0 /\ x \in Seq(Ref) /\ y \in Seq(Ref) /\ c \in Seq(Ref) /\ d \in Seq(Ref)
        /\ Cells(ps[j]) = Cat(Cat(y, c), d)
    <3>1. CutHi(ps, i, end) = ps[i].len /\ CutLo(ps, j, start) = 0
      BY <1>2, <2>1
    <3>2. Len(x) = ps[i].len - CutHi(ps, i, end) /\ Len(y) = CutLo(ps, j, start) /\ ps[i].len \in Nat
      BY <1>7, <2>1
    <3> QED
      BY <1>7, <1>13, <2>1, <3>1, <3>2
  <2>4. Rem(n + 1) \in Seq(Ref) /\ L \in Seq(Ref) /\ Rem((n + 1) + 1) = Cat(Rem(n + 1), c)
    BY <1>11, <1>12, <2>1
  <2>5. Pre(j) = Cat(Pre(i), Cells(ps[j]))
    BY <1>11, <2>1
  <2> HIDE DEF c, d, x, y
  <2>6. Pre(i) = Cat(L, Rem(n + 1)) /\ Cat(Cat(y, c), d) = Cat(c, d)
    <3>1. Cat(L, Rem(n + 1)) \in Seq(Ref)
      BY <2>4, CatIn
    <3>2. Cat(Cat(L, Rem(n + 1)), x) = Cat(L, Rem(n + 1))
      BY <2>3, <3>1, NoCat
    <3>3. Cat(y, c) = c
      BY <2>3, NoCat
    <3> QED
      BY <2>2, <3>2, <3>3
  <2>7. Cat(Cat(L, Cat(Rem(n + 1), c)), d) = Cat(Cat(L, Rem(n + 1)), Cat(c, d))
    BY <2>3, <2>4, CatsOfFour
  <2> QED
    BY <2>1, <2>3, <2>4, <2>5, <2>6, <2>7 DEF d
<1>16. Nat \subseteq T
  <2> HIDE DEF T
  <2> QED
    BY <1>14, <1>15, Induction
<1>17. Pre(g) = Cat(Cat(L, Refs(removed)), Cells(kr))
  <2>1. N - 1 \in T /\ (N - 1) + 1 = N
    <3> HIDE DEF T
    <3>1. N - 1 \in Nat /\ (N - 1) + 1 = N
      BY <1>5
    <3> QED
      BY <1>16, <3>1
  <2>2. Pre(g) = Cat(Cat(L, Rem(N)), Cells(kr))
    BY <1>9, <2>1
  <2>3. SubSeq(removed, 1, N) = removed
    BY <1>6, <1>8, SubSeqFull
  <2> QED
    BY <2>2, <2>3
<1> HIDE DEF T, Rem
<1> DEFINE r == Refs(SubSeq(ps, g + 1, Len(ps)))
<1>18. Refs(ps) = Cat(Pre(g), r) /\ r \in Seq(Ref) /\ Pre(g) \in Seq(Ref)
  <2>1. g \in 0..Len(ps)
    BY <1>1, <1>5
  <2>2. ps = Cat(SubSeq(ps, 1, g), SubSeq(ps, g + 1, Len(ps)))
    BY <1>1, <2>1, SplitIsCat
  <2>3. SubSeq(ps, 1, g) \in Seq(AnyPiece) /\ SubSeq(ps, g + 1, Len(ps)) \in Seq(AnyPiece)
    BY <1>1, <2>1, PrefixAt, SuffixAt
  <2>4. Refs(Cat(SubSeq(ps, 1, g), SubSeq(ps, g + 1, Len(ps)))) = Cat(Pre(g), r)
    BY <2>3, RefsCat DEF Pre
  <2> QED
    BY <2>2, <2>3, <2>4, RefsIn DEF Pre
<1>19. run \in Seq(AnyPiece) /\ Refs(run) = Cat(Cells(kl), Cells(kr))
  <2>1. <<kl>> \in Seq(AnyPiece) /\ <<kr>> \in Seq(AnyPiece) /\ Refs(<<kl>>) = Cells(kl) /\ Refs(<<kr>>) = Cells(kr)
    BY <1>10, RefsOne
  <2>2. run = Cat(<<kl>>, <<kr>>)
    BY <1>10, PairIsCat
  <2>3. Cat(<<kl>>, <<kr>>) \in Seq(AnyPiece)
    BY <2>1, CatIn
  <2>4. Refs(Cat(<<kl>>, <<kr>>)) = Cat(Refs(<<kl>>), Refs(<<kr>>))
    BY <2>1, RefsCat
  <2> HIDE DEF run
  <2> QED
    BY <2>1, <2>2, <2>3, <2>4
<1> HIDE DEF run
<1>20. /\ ReplaceRun(ps, f, g, run) \in Docs
       /\ Refs(ReplaceRun(ps, f, g, run)) = Cat(Cat(l, Refs(run)), r)
  <2>1. /\ ReplaceRun(ps, f, g, run) \in Docs
        /\ Refs(ReplaceRun(ps, f, g, run))
             = Cat(Cat(Refs(SubSeq(ps, 1, f - 1)), Refs(run)), Refs(SubSeq(ps, g + 1, Len(ps))))
    BY <1>5, <1>19, ReplaceRunIs
  <2> QED
    BY <2>1 DEF l
<1> DEFINE q == Refs(ReplaceRun(ps, f, g, run))
           t == Refs(removed)
           b == Cat(Cells(kr), r)
<1> HIDE DEF q, r
<1>21. /\ L = Cat(l, Cells(kl)) /\ l \in Seq(Ref) /\ L \in Seq(Ref) /\ t \in Seq(Ref) /\ b \in Seq(Ref)
       /\ Len(L) = start
  <2>1. t \in Seq(Ref) /\ b \in Seq(Ref)
    BY <1>8, <1>10, <1>18, RefsIn, CatIn
  <2>2. Len(L) = LS(f) + CutLo(ps, f, start)
    <3>1. Len(Cells(kl)) = CutLo(ps, f, start)
      BY <1>7, <1>9, <1>13
    <3>2. Len(Cat(l, Cells(kl))) = Len(l) + Len(Cells(kl))
      BY <1>10, <1>11, CatIn
    <3> QED
      BY <1>11, <1>13, <3>1, <3>2
  <2>3. LS(f) + CutLo(ps, f, start) = start
    BY <1>2, <1>11 DEF CutLo, LS
  <2> QED
    BY <1>11, <1>13, <2>1, <2>2, <2>3
<1>22. Refs(ps) = Cat(Cat(L, t), b)
  <2>1. Cat(L, t) \in Seq(Ref)
    BY <1>21, CatIn
  <2>2. Cat(Cat(Cat(L, t), Cells(kr)), r) = Cat(Cat(L, t), Cat(Cells(kr), r))
    BY <1>10, <1>18, <2>1, CatOf
  <2> QED
    BY <1>17, <1>18, <2>2
<1>23. q = Cat(L, b)
  <2>1. q = Cat(Cat(l, Cat(Cells(kl), Cells(kr))), r)
    BY <1>19, <1>20 DEF q
  <2>2. Cat(Cat(l, Cat(Cells(kl), Cells(kr))), r) = Cat(Cat(l, Cells(kl)), Cat(Cells(kr), r))
    BY <1>10, <1>18, <1>21, CatsOfFour
  <2> QED
    BY <1>21, <2>1, <2>2
<1> HIDE DEF t, b
<1>24. Inserts(q, start, t, Refs(ps))
  BY <1>21, <1>22, <1>23 DEF Inserts
<1>25. Len(t) = end - start
  <2>1. Len(Pre(g)) = LS(g) + ps[g].len /\ LS(g) \in Nat
    <3>1. g \in 1..Len(ps)
      BY <1>5
    <3>2. /\ Len(Refs(SubSeq(ps, 1, g))) = Len(Refs(SubSeq(ps, 1, g - 1))) + ps[g].len
      BY <1>1, <3>1, RefsOfPrefix
    <3>3. LS(g) = Len(Refs(SubSeq(ps, 1, g - 1)))
      BY <1>1, <3>1, Starts DEF LS
    <3>4. Len(Refs(SubSeq(ps, 1, g - 1))) \in Nat
      BY <1>1, <3>1, RefsOfPrefix, RefsIn, LenProperties
    <3> QED
      BY <3>2, <3>3, <3>4 DEF Pre
  <2>2. Len(Pre(g)) = (start + Len(t)) + Len(Cells(kr)) /\ Len(t) \in Nat
    <3>1. Cat(L, t) \in Seq(Ref) /\ Len(Cat(L, t)) = start + Len(t) /\ Len(t) \in Nat
      BY <1>21, CatIn
    <3>2. Pre(g) = Cat(Cat(L, t), Cells(kr))
      BY <1>17 DEF t
    <3>3. Len(Cat(Cat(L, t), Cells(kr))) = Len(Cat(L, t)) + Len(Cells(kr))
      BY <1>10, <3>1, CatIn
    <3> QED
      BY <3>1, <3>2, <3>3
  <2>3. Len(Cells(kr)) = ps[g].len - CutHi(ps, g, end) /\ ps[g].len \in Nat
    BY <1>7, <1>9
  <2>4. CutHi(ps, g, end) = end - LS(g)
    BY <1>2, <2>1, <2>3 DEF CutHi, LS
  <2>5. (start + Len(t)) + (ps[g].len - (end - LS(g))) = LS(g) + ps[g].len
    BY <2>1, <2>2, <2>3, <2>4
  <2> DEFINE z == Len(t)
             w == ps[g].len
             v == LS(g)
  <2>6. (start + z) + (w - (end - v)) = v + w /\ z \in Nat /\ w \in Nat /\ v \in Nat
    BY <2>1, <2>2, <2>3, <2>5
  <2> HIDE DEF z, w, v
  <2>7. z = end - start
    BY <2>6
  <2> QED
    BY <2>7 DEF z
<1> QED
  BY <1>3, <1>4, <1>8, <1>20, <1>24, <1>25 DEF q, t
\* Merging two neighbours at a boundary keeps what the pieces refer to.
LEMMA MergeBoundaryIs ==
  ASSUME NEW ps \in Seq(Kept), ps # <<>>, NEW right \in Nat
  PROVE  /\ MergeBoundary(ps, right) \in Seq(Kept) /\ MergeBoundary(ps, right) # <<>>
         /\ Refs(MergeBoundary(ps, right)) = Refs(ps)
<1> DEFINE Merges == right > 1 /\ right <= Len(ps) /\ Adjacent(ps[right - 1], ps[right])
<1>1. CASE ~Merges
  BY <1>1 DEF MergeBoundary
<1>2. CASE Merges
  <2> DEFINE p == ps[right - 1]
             q == ps[right]
             e == Longer(p, q.len)
             a == SubSeq(ps, 1, right - 2)
             b == SubSeq(ps, right + 1, Len(ps))
             A == Refs(a)
             B == Refs(b)
  <2>1. /\ right \in 1..Len(ps) /\ right - 1 \in 1..Len(ps) /\ (right - 1) - 1 = right - 2
        /\ right - 2 \in 0..Len(ps) /\ right \in 0..Len(ps) /\ Len(ps) \in Nat
    BY <1>2, LenProperties
  <2>2. ps \in Seq(AnyPiece) /\ p \in Kept /\ q \in Kept /\ p \in AnyPiece /\ q \in AnyPiece
    BY <2>1, KeptIn, ElementOfSeq
  <2>3. MergeBoundary(ps, right) = Cat(Cat(a, <<e>>), b)
    BY <1>2 DEF MergeBoundary, Longer, Cat
  <2>4. /\ Refs(SubSeq(ps, 1, right - 1)) = Cat(A, Cells(p))
        /\ Refs(SubSeq(ps, 1, right)) = Cat(Refs(SubSeq(ps, 1, right - 1)), Cells(q))
    BY <2>1, <2>2, RefsOfPrefix
  <2>5. a \in Seq(Kept) /\ b \in Seq(Kept) /\ a \in Seq(AnyPiece) /\ b \in Seq(AnyPiece)
    BY <2>1, KeptIn, PrefixAt, SuffixAt
  <2>6. Refs(ps) = Cat(Refs(SubSeq(ps, 1, right)), B)
    <3>1. ps = Cat(SubSeq(ps, 1, right), b)
      BY <2>1, SplitIsCat
    <3>2. SubSeq(ps, 1, right) \in Seq(AnyPiece)
      BY <2>1, <2>2, PrefixAt
    <3>3. Refs(Cat(SubSeq(ps, 1, right), b)) = Cat(Refs(SubSeq(ps, 1, right)), B)
      BY <2>5, <3>2, RefsCat
    <3> QED
      BY <3>1, <3>3
  <2>7. /\ e \in AnyPiece /\ e.len = p.len + q.len /\ e = Piece(p.src, p.start, p.len + q.len)
        /\ Cells(e) = Cat(Cells(p), Cells(q)) /\ Adjacent(p, q)
    BY <1>2, <2>2, JoinedIs
  <2> HIDE DEF a, b, e, p, q
  <2>8. e \in Kept
    <3>1. e.start = p.start
      BY <2>7 DEF Piece
    <3>2. p.len \in Nat /\ q.len \in Nat /\ (p.len > 0 \/ p.start = 0)
      BY <2>2, PieceOf DEF Kept
    <3>3. e.len > 0 \/ e.start = 0
      BY <2>7, <3>1, <3>2
    <3> QED
      BY <2>7, <3>3 DEF Kept
  <2>9. /\ A \in Seq(Ref) /\ B \in Seq(Ref) /\ Cells(p) \in Seq(Ref) /\ Cells(q) \in Seq(Ref)
        /\ <<e>> \in Seq(AnyPiece) /\ <<e>> \in Seq(Kept) /\ Refs(<<e>>) = Cells(e)
    BY <2>2, <2>5, <2>7, <2>8, RefsIn, CellsAt, RefsOne
  <2>10. Cat(a, <<e>>) \in Seq(AnyPiece) /\ Cat(a, <<e>>) \in Seq(Kept) /\ Cat(Cat(a, <<e>>), b) \in Seq(Kept)
    BY <2>5, <2>9, CatIn
  <2>11. Refs(Cat(Cat(a, <<e>>), b)) = Cat(Cat(A, Cells(e)), B)
    <3>1. Refs(Cat(a, <<e>>)) = Cat(A, Cells(e))
      BY <2>5, <2>9, RefsCat
    <3>2. Refs(Cat(Cat(a, <<e>>), b)) = Cat(Refs(Cat(a, <<e>>)), B)
      BY <2>5, <2>10, RefsCat
    <3> QED
      BY <3>1, <3>2
  <2>12. Cat(A, Cat(Cells(p), Cells(q))) = Cat(Cat(A, Cells(p)), Cells(q))
    BY <2>9, CatOf
  <2>13. Cat(Cat(a, <<e>>), b) # <<>>
    <3> DEFINE x == <<e>>
    <3>1. x \in Seq(Kept) /\ Len(x) = 1
      BY <2>9
    <3> HIDE DEF x
    <3>2. Len(Cat(Cat(a, x), b)) = (Len(a) + 1) + Len(b) /\ Len(a) \in Nat /\ Len(b) \in Nat
      <4>1. Cat(a, x) \in Seq(Kept) /\ Len(Cat(a, x)) = Len(a) + 1 /\ Len(a) \in Nat
        BY <2>5, <3>1, CatIn
      <4>2. Len(Cat(Cat(a, x), b)) = Len(Cat(a, x)) + Len(b) /\ Len(b) \in Nat
        BY <2>5, <4>1, CatIn
      <4> QED
        BY <4>1, <4>2
    <3>3. Len(Cat(Cat(a, x), b)) # 0
      BY <3>2
    <3>4. Cat(Cat(a, x), b) # <<>>
      BY <3>3, EmptySeq
    <3> QED
      BY <3>4 DEF x
  <2> QED
    BY <2>3, <2>4, <2>6, <2>7, <2>10, <2>11, <2>12, <2>13
<1> QED
  BY <1>1, <1>2

-----------------------------------------------------------------------------
(* Edits, one at a time and in a row. *)

LEMMA InsertGives ==
  ASSUME NEW ps \in Docs, NEW at, NEW new \in Seq(AnyPiece), NEW d,
         Inserts(Refs(ps), at, Refs(new), d)
  PROVE  InsertPieces(ps, at, new) \in Docs /\ Refs(InsertPieces(ps, at, new)) = d
<1>1. ps \in Seq(AnyPiece) /\ Refs(ps) \in Seq(Ref) /\ Refs(new) \in Seq(Ref)
  BY KeptIn, RefsIn DEF Docs
<1>2. at \in 0..Len(Refs(ps))
  BY <1>1, InsertsSize
<1>3. /\ InsertPieces(ps, at, new) \in Docs
      /\ Inserts(Refs(ps), at, Refs(new), Refs(InsertPieces(ps, at, new)))
  BY <1>2, InsertPiecesIs
<1> QED
  BY <1>3, InsertsOnce

LEMMA DeleteGives ==
  ASSUME NEW ps \in Docs, NEW at \in Nat, NEW old \in Seq(AnyPiece), NEW d,
         Inserts(d, at, Refs(old), Refs(ps))
  PROVE  /\ DeleteRange(ps, at, at + TotalLen(old)).pieces \in Docs
         /\ Refs(DeleteRange(ps, at, at + TotalLen(old)).pieces) = d
<1> DEFINE t == Refs(old)
           end == at + TotalLen(old)
           cut == DeleteRange(ps, at, end)
<1>1. /\ ps \in Seq(AnyPiece) /\ Refs(ps) \in Seq(Ref) /\ t \in Seq(Ref) /\ Len(t) \in Nat
      /\ TotalLen(old) = Len(t)
  BY KeptIn, RefsIn, TotalLenIs, LenProperties DEF Docs
<1>2. d \in Seq(Ref) /\ Len(Refs(ps)) = Len(d) + Len(t) /\ at <= Len(d) /\ Len(d) \in Nat
  <2>1. PICK a \in Seq(Ref), b \in Seq(Ref) : Len(a) = at /\ d = Cat(a, b) /\ Refs(ps) = Cat(Cat(a, t), b)
    BY DEF Inserts
  <2>2. d \in Seq(Ref)
    BY <2>1, CatIn
  <2>3. Len(Refs(ps)) = Len(d) + Len(t) /\ at \in 0..Len(d)
    BY <1>1, <2>2, InsertsSize
  <2> QED
    BY <2>2, <2>3, LenProperties
<1> HIDE DEF t
<1>3. CASE Len(t) = 0
  <2>1. end = at
    BY <1>1, <1>3
  <2>2. DeleteRange(ps, at, at) = [pieces |-> ps, removed |-> <<>>]
    <3>1. at >= at
      OBVIOUS
    <3> QED
      BY <3>1, Zenon DEF DeleteRange
  <2>3. d = Refs(ps)
    <3>1. PICK a \in Seq(Ref), b \in Seq(Ref) : Len(a) = at /\ d = Cat(a, b) /\ Refs(ps) = Cat(Cat(a, t), b)
      BY DEF Inserts, t
    <3>2. Cat(a, t) = a
      BY <1>1, <1>3, NoCat
    <3> QED
      BY <3>1, <3>2
  <2> HIDE DEF end
  <2>4. cut = [pieces |-> ps, removed |-> <<>>]
    BY <2>1, <2>2
  <2> QED
    BY <2>3, <2>4 DEF end
<1>4. CASE Len(t) # 0
  <2>1. end \in Nat /\ at < end /\ end <= Len(Refs(ps)) /\ end - at = Len(t)
    BY <1>1, <1>2, <1>4
  <2> HIDE DEF end
  <2>2. /\ cut.pieces \in Docs /\ cut.removed \in Seq(Kept) /\ Len(Refs(cut.removed)) = Len(t)
        /\ Inserts(Refs(cut.pieces), at, Refs(cut.removed), Refs(ps))
    BY <2>1, DeleteRangeIs
  <2>3. Refs(cut.removed) \in Seq(Ref)
    BY <2>2, KeptIn, RefsIn
  <2> HIDE DEF cut
  <2>4. Inserts(d, at, t, Refs(ps))
    BY DEF t
  <2>5. Refs(cut.pieces) = d
    BY <1>1, <2>2, <2>3, <2>4, RemovesOnce
  <2> QED
    BY <2>2, <2>5 DEF cut, end
<1> QED
  BY <1>3, <1>4

Edits == [op : {"Insert", "Delete"}, at : Nat, pieces : Seq(Kept)]

\* Edit e takes the document d to the document f.
Moves(e, d, f) ==
  IF e.op = "Insert" THEN Inserts(d, e.at, Refs(e.pieces), f) ELSE Inserts(f, e.at, Refs(e.pieces), d)

LEMMA ForwardIs ==
  ASSUME NEW ps \in Docs, NEW e \in Edits, NEW d, Moves(e, Refs(ps), d)
  PROVE  Forward(ps, e) \in Docs /\ Refs(Forward(ps, e)) = d
<1>1. e.at \in Nat /\ e.pieces \in Seq(AnyPiece)
  BY KeptIn DEF Edits
<1>2. CASE e.op = "Insert"
  BY <1>1, <1>2, InsertGives DEF Moves, Forward
<1>3. CASE e.op # "Insert"
  BY <1>1, <1>3, DeleteGives DEF Moves, Forward
<1> QED
  BY <1>2, <1>3

LEMMA BackwardIs ==
  ASSUME NEW ps \in Docs, NEW e \in Edits, NEW d, Moves(e, d, Refs(ps))
  PROVE  Backward(ps, e) \in Docs /\ Refs(Backward(ps, e)) = d
<1>1. e.at \in Nat /\ e.pieces \in Seq(AnyPiece) /\ e.op \in {"Insert", "Delete"}
  BY KeptIn DEF Edits
<1>2. CASE e.op = "Insert"
  BY <1>1, <1>2, DeleteGives DEF Moves, Backward
<1>3. CASE e.op = "Delete"
  BY <1>1, <1>3, InsertGives DEF Moves, Backward
<1> QED
  BY <1>1, <1>2, <1>3
\* The edits es, one after the other, take the document d to the document f.
Leads(d, es, f) ==
  \E h : h[0] = d /\ h[Len(es)] = f /\ \A k \in 1..Len(es) : Moves(es[k], h[k - 1], h[k])

LEMMA ApplyEditsIs ==
  ASSUME NEW ps \in Docs, NEW es \in Seq(Edits), NEW d, Leads(Refs(ps), es, d)
  PROVE  ApplyEdits(ps, es) \in Docs /\ Refs(ApplyEdits(ps, es)) = d
<1> DEFINE n == Len(es)
           s == es
           Step(f, k) == IF k = 0 THEN ps ELSE Forward(f[k - 1], s[k])
           acc == CHOOSE f : f = [k \in 0..n |-> Step(f, k)]
           G == [k \in 1..n |-> [x \in Docs |-> Forward(x, s[k])]]
<1>1. /\ n \in Nat /\ 0 \in 0..n /\ n \in 0..n
      /\ \A k \in 1..n : k \in 0..n /\ k # 0 /\ k - 1 \in 0..n
  BY LenProperties
<1>2. PICK h : h[0] = Refs(ps) /\ h[n] = d /\ \A k \in 1..n : Moves(es[k], h[k - 1], h[k])
  BY DEF Leads
<1> DEFINE V == [k \in 0..n |-> {x \in Docs : Refs(x) = h[k]}]
<1>3. ps \in V[0]
  <2>1. 0 \in 0..n
    BY <1>1
  <2> QED
    BY <1>1, <1>2, <2>1
<1>4. \A k \in 1..n : \A x \in V[k - 1] : G[k][x] = Forward(x, s[k]) /\ G[k][x] \in V[k]
  <2> SUFFICES ASSUME NEW k \in 1..n, NEW x \in V[k - 1]
               PROVE  G[k][x] = Forward(x, s[k]) /\ G[k][x] \in V[k]
    OBVIOUS
  <2>2. x \in Docs /\ Refs(x) = h[k - 1]
    BY <1>1
  <2>3. s[k] \in Edits /\ Moves(s[k], Refs(x), h[k])
    BY <1>2, <2>2, ElementOfSeq
  <2> HIDE DEF s
  <2>4. Forward(x, s[k]) \in Docs /\ Refs(Forward(x, s[k])) = h[k]
    BY <2>2, <2>3, ForwardIs
  <2> QED
    BY <1>1, <2>2, <2>4
<1>5. PICK g : StepsAre(n, V, ps, G, g)
  <2>1. StepsIn(n, V, ps, G)
    BY <1>3, <1>4 DEF StepsIn
  <2> HIDE DEF G, V, n
  <2> QED
    BY <1>1, <2>1, StepsExist
<1>6. ASSUME NEW k \in 1..n
      PROVE  g[k] = Forward(g[k - 1], s[k])
  <2> HIDE DEF G, V, n, s
  <2> QED
    BY <1>1, <1>4, <1>5 DEF StepsAre
<1>7. g[n] \in Docs /\ Refs(g[n]) = d
  <2>1. g[n] \in V[n]
    BY <1>1, <1>5 DEF StepsAre
  <2>2. n \in 0..n
    BY <1>1
  <2> QED
    BY <1>1, <1>2, <2>1, <2>2
<1>8. ApplyEdits(ps, es) = acc[n]
  BY DEF ApplyEdits, Along
<1> HIDE DEF G, V, n, s
<1>9. ASSUME NEW k \in 0..n
      PROVE  g[k] = Step(g, k)
  <2>1. k = 0 \/ k \in 1..n
    BY <1>1
  <2> QED
    BY <1>5, <1>6, <2>1 DEF StepsAre
<1>10. g = [k \in 0..n |-> Step(g, k)]
  BY <1>5, <1>9 DEF StepsAre
<1>11. acc = [k \in 0..n |-> Step(acc, k)]
  BY <1>10, Zenon
<1> HIDE DEF acc
<1>12. InStep(acc, g, n)
  BY <1>1, <1>5, <1>6, <1>11 DEF InStep, StepsAre
<1>13. acc[n] = g[n]
  BY <1>1, <1>12, Agree
<1> QED
  BY <1>7, <1>8, <1>13

LEMMA RevertEditsIs ==
  ASSUME NEW ps \in Docs, NEW es \in Seq(Edits), NEW d, Leads(d, es, Refs(ps))
  PROVE  RevertEdits(ps, es) \in Docs /\ Refs(RevertEdits(ps, es)) = d
<1> DEFINE n == Len(es)
           s == Reverse(es)
           Step(f, k) == IF k = 0 THEN ps ELSE Backward(f[k - 1], s[k])
           acc == CHOOSE f : f = [k \in 0..n |-> Step(f, k)]
           G == [k \in 1..n |-> [x \in Docs |-> Backward(x, s[k])]]
<1>1. /\ n \in Nat /\ 0 \in 0..n /\ n \in 0..n
      /\ \A k \in 1..n : k \in 0..n /\ k # 0 /\ k - 1 \in 0..n
  BY LenProperties
<1>2. PICK h : h[0] = d /\ h[n] = Refs(ps) /\ \A k \in 1..n : Moves(es[k], h[k - 1], h[k])
  BY DEF Leads
<1> DEFINE V == [k \in 0..n |-> {x \in Docs : Refs(x) = h[n - k]}]
<1>3. ps \in V[0]
  <2>1. n - 0 = n
    BY <1>1
  <2> QED
    BY <1>1, <1>2, <2>1
<1>4. \A k \in 1..n : \A x \in V[k - 1] : G[k][x] = Backward(x, s[k]) /\ G[k][x] \in V[k]
  <2> SUFFICES ASSUME NEW k \in 1..n, NEW x \in V[k - 1]
               PROVE  G[k][x] = Backward(x, s[k]) /\ G[k][x] \in V[k]
    OBVIOUS
  <2>1. s[k] = es[n - k + 1] /\ n - k + 1 \in 1..n /\ (n - k + 1) - 1 = n - k /\ n - (k - 1) = n - k + 1
    BY <1>1 DEF Reverse
  <2>2. x \in Docs /\ Refs(x) = h[n - k + 1]
    BY <1>1, <2>1
  <2>3. s[k] \in Edits /\ Moves(s[k], h[n - k], Refs(x))
    BY <1>2, <2>1, <2>2, ElementOfSeq
  <2> HIDE DEF s
  <2>4. Backward(x, s[k]) \in Docs /\ Refs(Backward(x, s[k])) = h[n - k]
    BY <2>2, <2>3, BackwardIs
  <2> QED
    BY <1>1, <2>2, <2>4
<1>5. PICK g : StepsAre(n, V, ps, G, g)
  <2>1. StepsIn(n, V, ps, G)
    BY <1>3, <1>4 DEF StepsIn
  <2> HIDE DEF G, V, n
  <2> QED
    BY <1>1, <2>1, StepsExist
<1>6. ASSUME NEW k \in 1..n
      PROVE  g[k] = Backward(g[k - 1], s[k])
  <2> HIDE DEF G, V, n, s
  <2> QED
    BY <1>1, <1>4, <1>5 DEF StepsAre
<1>7. g[n] \in Docs /\ Refs(g[n]) = d
  <2>1. g[n] \in V[n]
    BY <1>1, <1>5 DEF StepsAre
  <2>2. n - n = 0
    BY <1>1
  <2> QED
    BY <1>1, <1>2, <2>1, <2>2
<1>8. RevertEdits(ps, es) = acc[n]
  <2>1. Len(s) = n
    BY <1>1 DEF Reverse
  <2> HIDE DEF s
  <2>2. Along(Backward, ps, s) = acc[n]
    BY <2>1 DEF Along
  <2> QED
    BY <2>2 DEF RevertEdits, s
<1> HIDE DEF G, V, n, s
<1>9. ASSUME NEW k \in 0..n
      PROVE  g[k] = Step(g, k)
  <2>1. k = 0 \/ k \in 1..n
    BY <1>1
  <2> QED
    BY <1>5, <1>6, <2>1 DEF StepsAre
<1>10. g = [k \in 0..n |-> Step(g, k)]
  BY <1>5, <1>9 DEF StepsAre
<1>11. acc = [k \in 0..n |-> Step(acc, k)]
  BY <1>10, Zenon
<1> HIDE DEF acc
<1>12. InStep(acc, g, n)
  BY <1>1, <1>5, <1>6, <1>11 DEF InStep, StepsAre
<1>13. acc[n] = g[n]
  BY <1>1, <1>12, Agree
<1> QED
  BY <1>7, <1>8, <1>13
-----------------------------------------------------------------------------
(* How insertions combine. *)

\* What is inserted right behind an insertion.
LEMMA InsertsBehind ==
  ASSUME NEW d, NEW at, NEW x \in Seq(Ref), NEW e, NEW y \in Seq(Ref), NEW f,
         Inserts(d, at, x, e), Inserts(e, at + Len(x), y, f)
  PROVE  Inserts(d, at, Cat(x, y), f)
<1>1. PICK a \in Seq(Ref), b \in Seq(Ref) : Len(a) = at /\ d = Cat(a, b) /\ e = Cat(Cat(a, x), b)
  BY DEF Inserts
<1>2. PICK p \in Seq(Ref), q \in Seq(Ref) :
        Len(p) = at + Len(x) /\ e = Cat(p, q) /\ f = Cat(Cat(p, y), q)
  BY DEF Inserts
<1>3. Cat(a, x) \in Seq(Ref) /\ Len(Cat(a, x)) = Len(a) + Len(x)
  BY CatIn
<1>4. Cat(Cat(a, x), b) = Cat(p, q) /\ Len(Cat(a, x)) = Len(p)
  BY <1>1, <1>2, <1>3
<1>5. \A r, s, t, u \in Seq(Ref) : Cat(r, s) = Cat(t, u) /\ Len(r) = Len(t) => r = t /\ s = u
  BY CatOnce
<1>6. Cat(a, x) = p /\ b = q
  BY <1>3, <1>4, <1>5, Zenon
<1>7. Cat(Cat(a, x), y) = Cat(a, Cat(x, y))
  BY CatOf
<1>8. f = Cat(Cat(a, Cat(x, y)), b)
  BY <1>2, <1>6, <1>7
<1> QED
  BY <1>1, <1>8 DEF Inserts

\* And what is inserted in front of what was inserted before.
LEMMA InsertsBefore ==
  ASSUME NEW d, NEW at, NEW x \in Seq(Ref), NEW e, NEW y \in Seq(Ref), NEW f,
         Inserts(d, at, y, e), Inserts(e, at, x, f)
  PROVE  Inserts(d, at, Cat(x, y), f)
<1>1. PICK a \in Seq(Ref), b \in Seq(Ref) : Len(a) = at /\ d = Cat(a, b) /\ e = Cat(Cat(a, y), b)
  BY DEF Inserts
<1>2. PICK p \in Seq(Ref), q \in Seq(Ref) : Len(p) = at /\ e = Cat(p, q) /\ f = Cat(Cat(p, x), q)
  BY DEF Inserts
<1>3. Cat(y, b) \in Seq(Ref) /\ Cat(a, x) \in Seq(Ref) /\ e = Cat(a, Cat(y, b))
  BY <1>1, CatIn, CatOf
<1>4. Cat(a, Cat(y, b)) = Cat(p, q) /\ Len(a) = Len(p)
  BY <1>1, <1>2, <1>3
<1>5. \A r, s, t, u \in Seq(Ref) : Cat(r, s) = Cat(t, u) /\ Len(r) = Len(t) => r = t /\ s = u
  BY CatOnce
<1>6. a = p /\ Cat(y, b) = q
  BY <1>3, <1>4, <1>5, Zenon
<1>7. f = Cat(Cat(a, x), Cat(y, b))
  BY <1>2, <1>6
<1>8. Cat(Cat(a, Cat(x, y)), b) = Cat(Cat(a, x), Cat(y, b))
  BY CatsOfFour
<1> QED
  BY <1>1, <1>7, <1>8 DEF Inserts

\* References that stay within a set.
LEMMA InsertsWithin ==
  ASSUME NEW Y \in SUBSET Ref, NEW at, NEW d, NEW t \in Seq(Ref), NEW e, Inserts(d, at, t, e)
  PROVE  e \in Seq(Y) <=> d \in Seq(Y) /\ t \in Seq(Y)
<1>1. PICK a \in Seq(Ref), b \in Seq(Ref) : Len(a) = at /\ d = Cat(a, b) /\ e = Cat(Cat(a, t), b)
  BY DEF Inserts
<1>2. \A r, s \in Seq(Ref) : Cat(r, s) \in Seq(Y) <=> r \in Seq(Y) /\ s \in Seq(Y)
  <2>1. \A r, s \in Seq(Ref) : Cat(r, s) \in Seq(Y) => r \in Seq(Y) /\ s \in Seq(Y)
    BY PartsIn DEF Cat
  <2>2. \A r, s \in Seq(Y) : Cat(r, s) \in Seq(Y)
    BY CatIn
  <2> QED
    BY <2>1, <2>2
<1>3. Cat(a, t) \in Seq(Ref)
  BY CatIn
<1> QED
  BY <1>1, <1>2, <1>3

LEMMA MovesWithin ==
  ASSUME NEW Y \in SUBSET Ref, NEW e \in Edits, Refs(e.pieces) \in Seq(Y), NEW d, NEW f, Moves(e, d, f)
  PROVE  d \in Seq(Y) <=> f \in Seq(Y)
<1>1. e.pieces \in Seq(AnyPiece) /\ Refs(e.pieces) \in Seq(Ref)
  BY KeptIn, RefsIn DEF Edits
<1> QED
  BY <1>1, InsertsWithin DEF Moves

\* The edits of a sequence refer to nothing outside a set.
Holds(es, Y) == \A k \in 1..Len(es) : Refs(es[k].pieces) \in Seq(Y)

LEMMA LeadsWithin ==
  ASSUME NEW Y \in SUBSET Ref, NEW es \in Seq(Edits), Holds(es, Y), NEW d, NEW f, Leads(d, es, f)
  PROVE  d \in Seq(Y) <=> f \in Seq(Y)
<1> DEFINE n == Len(es)
<1>1. n \in Nat /\ \A k \in 1..n : es[k] \in Edits /\ Refs(es[k].pieces) \in Seq(Y)
  BY LenProperties, ElementOfSeq DEF Holds
<1>2. PICK h : h[0] = d /\ h[n] = f /\ \A k \in 1..n : Moves(es[k], h[k - 1], h[k])
  BY DEF Leads
<1> HIDE DEF n
<1> DEFINE T == {k \in Nat : k <= n => (h[0] \in Seq(Y) <=> h[k] \in Seq(Y))}
<1>3. 0 \in T
  OBVIOUS
<1>4. ASSUME NEW k \in Nat, k \in T
      PROVE  k + 1 \in T
  <2> SUFFICES ASSUME k + 1 <= n
               PROVE  h[0] \in Seq(Y) <=> h[k + 1] \in Seq(Y)
    OBVIOUS
  <2>1. k + 1 \in 1..n /\ k <= n /\ (k + 1) - 1 = k
    BY <1>1
  <2>2. Moves(es[k + 1], h[k], h[k + 1])
    BY <1>2, <2>1
  <2>4. es[k + 1] \in Edits /\ Refs(es[k + 1].pieces) \in Seq(Y)
    BY <1>1, <2>1
  <2>3. h[k] \in Seq(Y) <=> h[k + 1] \in Seq(Y)
    <3> DEFINE e == es[k + 1]
               x == h[k]
               y == h[k + 1]
    <3>1. e \in Edits /\ Refs(e.pieces) \in Seq(Y) /\ Moves(e, x, y)
      BY <2>2, <2>4
    <3> HIDE DEF e, x, y
    <3>2. x \in Seq(Y) <=> y \in Seq(Y)
      BY <3>1, MovesWithin
    <3> QED
      BY <3>2 DEF x, y
  <2> QED
    BY <1>4, <2>1, <2>3
<1>5. n \in T
  <2> HIDE DEF T
  <2> QED
    BY <1>1, <1>3, <1>4, Induction
<1> QED
  BY <1>1, <1>2, <1>5

LEMMA LeadsAppend ==
  ASSUME NEW es \in Seq(Edits), NEW e \in Edits, NEW d, NEW f, NEW g, Leads(d, es, f), Moves(e, f, g)
  PROVE  Leads(d, Append(es, e), g) /\ Append(es, e) \in Seq(Edits)
<1> DEFINE n == Len(es)
           fs == Append(es, e)
<1>1. /\ n \in Nat /\ fs \in Seq(Edits) /\ Len(fs) = n + 1 /\ fs[n + 1] = e
      /\ \A k \in 1..n : fs[k] = es[k]
  BY AppendAt
<1>2. PICK h : h[0] = d /\ h[n] = f /\ \A k \in 1..n : Moves(es[k], h[k - 1], h[k])
  BY DEF Leads
<1> HIDE DEF n, fs
<1> DEFINE i == [k \in 0..n + 1 |-> IF k = n + 1 THEN g ELSE h[k]]
<1>3. i[0] = d /\ i[n + 1] = g /\ \A k \in 0..n : i[k] = h[k]
  BY <1>1, <1>2
<1> HIDE DEF i
<1>4. ASSUME NEW k \in 1..n + 1
      PROVE  Moves(fs[k], i[k - 1], i[k])
  <2>1. CASE k = n + 1
    <3>1. k - 1 = n /\ n \in 0..n
      BY <1>1, <2>1
    <3> QED
      BY <1>1, <1>2, <1>3, <2>1, <3>1
  <2>2. CASE k # n + 1
    <3>1. k \in 1..n /\ k \in 0..n /\ k - 1 \in 0..n
      BY <1>1, <2>2
    <3> QED
      BY <1>1, <1>2, <1>3, <3>1
  <2> QED
    BY <2>1, <2>2
<1>5. Leads(d, fs, g)
  BY <1>1, <1>3, <1>4 DEF Leads
<1> QED
  BY <1>1, <1>5 DEF fs

LEMMA LeadsOne ==
  ASSUME NEW e \in Edits, NEW d, NEW f
  PROVE  /\ Leads(d, <<>>, d)
         /\ Moves(e, d, f) <=> Leads(d, <<e>>, f)
<1>1. Leads(d, <<>>, d)
  <2> DEFINE h == [k \in {0} |-> d]
  <2>1. h[0] = d /\ Len(<<>>) = 0 /\ \A k \in 1..0 : FALSE
    OBVIOUS
  <2> HIDE DEF h
  <2> QED
    BY <2>1 DEF Leads
<1>2. ASSUME Moves(e, d, f)
      PROVE  Leads(d, <<e>>, f)
  <2> DEFINE h == [k \in 0..1 |-> IF k = 0 THEN d ELSE f]
  <2>1. h[0] = d /\ h[1] = f /\ \A k \in 1..1 : k = 1 /\ k - 1 = 0
    OBVIOUS
  <2> HIDE DEF h
  <2>2. Len(<<e>>) = 1 /\ <<e>>[1] = e
    OBVIOUS
  <2>3. \A k \in 1..1 : Moves(<<e>>[k], h[k - 1], h[k])
    BY <1>2, <2>1, <2>2
  <2> QED
    BY <2>1, <2>2, <2>3 DEF Leads
<1>3. ASSUME Leads(d, <<e>>, f)
      PROVE  Moves(e, d, f)
  <2>1. PICK h : h[0] = d /\ h[Len(<<e>>)] = f /\ \A k \in 1..Len(<<e>>) : Moves(<<e>>[k], h[k - 1], h[k])
    BY <1>3 DEF Leads
  <2>2. Len(<<e>>) = 1 /\ <<e>>[1] = e /\ 1 \in 1..1 /\ 1 - 1 = 0
    OBVIOUS
  <2> QED
    BY <2>1, <2>2
<1> QED
  BY <1>1, <1>2, <1>3
-----------------------------------------------------------------------------
(* Pieces that fit their sources, and a source that grows. *)

LEMMA BoundsIn ==
  ASSUME NEW ad
  PROVE  Bounds(ad) \in SUBSET Ref /\ Seq(Bounds(ad)) \subseteq Seq(Ref)
  BY DEF Bounds

LEMMA FitsAre ==
  ASSUME NEW ad \in Texts, NEW ps \in Seq(Kept), Refs(ps) \in Seq(Bounds(ad))
  PROVE  ps \in Seq(Fits(ad))
<1>1. ps \in Seq(AnyPiece) /\ Len(ps) \in Nat
  BY KeptIn
<1>2. ASSUME NEW k \in 1..Len(ps)
      PROVE  ps[k] \in Fits(ad)
  <2> DEFINE p == ps[k]
             a == Refs(SubSeq(ps, 1, k - 1))
             b == Refs(SubSeq(ps, k + 1, Len(ps)))
  <2>1. p \in Kept /\ p \in AnyPiece
    BY KeptIn, ElementOfSeq
  <2>2. SubSeq(ps, 1, k - 1) \in Seq(AnyPiece) /\ SubSeq(ps, k + 1, Len(ps)) \in Seq(AnyPiece)
        /\ Refs(ps) = Cat(Cat(a, Cells(p)), b)
    BY <1>1, AroundPiece
  <2>3. a \in Seq(Ref) /\ b \in Seq(Ref)
    BY <2>2, RefsIn
  <2> HIDE DEF a, b, p
  <2>4. Cells(p) \in Seq(Ref) /\ Len(Cells(p)) = p.len
        /\ \A j \in 1..p.len : Cells(p)[j] = <<p.src, p.start + (j - 1)>>
    BY <2>1, CellsAt
  <2>5. Cat(a, Cells(p)) \in Seq(Ref) /\ Cat(Cat(a, Cells(p)), b) \in Seq(Bounds(ad))
    BY <2>2, <2>3, <2>4, CatIn
  <2>6. Cat(a, Cells(p)) \in Seq(Bounds(ad))
    BY <2>3, <2>5, PartsIn DEF Cat
  <2>7. Cells(p) \in Seq(Bounds(ad))
    BY <2>3, <2>4, <2>6, PartsIn DEF Cat
  <2>8. Source(p.src, ad) \in Texts /\ Len(Source(p.src, ad)) \in Nat
    BY SourceText DEF Texts
  <2>9. p.src \in Sources /\ p.start \in Nat /\ p.len \in Nat
    BY <2>1, PieceOf
  <2>10. CASE p.len = 0
    <3>1. p.start = 0
      BY <2>1, <2>10 DEF Kept
    <3> QED
      BY <2>1, <2>8, <2>10, <3>1 DEF p, Fits
  <2>11. CASE p.len # 0
    <3>1. p.len \in 1..p.len
      BY <2>9, <2>11
    <3>2. Cells(p)[p.len] \in Bounds(ad)
      BY <2>4, <2>7, <3>1, ElementOfSeq
    <3>3. <<p.src, p.start + (p.len - 1)>> \in Bounds(ad)
      BY <2>4, <3>1, <3>2
    <3>4. p.start + (p.len - 1) < Len(Source(p.src, ad))
      BY <3>3 DEF Bounds
    <3>5. p.start + p.len <= Len(Source(p.src, ad))
      BY <2>8, <2>9, <3>4
    <3> QED
      BY <2>1, <3>5 DEF p, Fits
  <2> QED
    BY <2>10, <2>11
<1> QED
  BY <1>1, <1>2, LenProperties

\* Pieces of a document, each within its source, and what they read.
Good(ps, ad) == ps \in Docs /\ Refs(ps) \in Seq(Bounds(ad))

LEMMA GoodReads ==
  ASSUME NEW ad \in Texts, NEW ps, Good(ps, ad)
  PROVE  /\ Text(ps, ad) = Read(Refs(ps), ad) /\ Text(ps, ad) \in Texts
         /\ Len(Text(ps, ad)) = Len(Refs(ps)) /\ Len(Refs(ps)) \in Nat
<1>1. ps \in Seq(Kept) /\ Refs(ps) \in Seq(Bounds(ad))
  BY DEF Good, Docs
<1>2. ps \in Seq(Fits(ad))
  BY <1>1, FitsAre
<1>3. Text(ps, ad) = Read(Refs(ps), ad) /\ Text(ps, ad) \in Texts
  BY <1>2, TextIs
<1> QED
  BY <1>1, <1>3, ReadAt, LenProperties

\* The add buffer only grows, but for a compaction: what references read stays.
LEMMA GrownReads ==
  ASSUME NEW ad \in Texts, NEW new \in Texts
  PROVE  /\ Cat(ad, new) \in Texts /\ Bounds(ad) \subseteq Bounds(Cat(ad, new))
         /\ \A d \in Seq(Bounds(ad)) : /\ d \in Seq(Bounds(Cat(ad, new)))
                                       /\ Read(d, Cat(ad, new)) = Read(d, ad)
<1> DEFINE ae == Cat(ad, new)
<1>1. ae \in Texts /\ Len(ae) = Len(ad) + Len(new) /\ Len(ad) \in Nat /\ Len(new) \in Nat
      /\ \A i \in 1..Len(ad) : ae[i] = ad[i]
  BY CatAt DEF Texts
<1> HIDE DEF ae
<1>2. ASSUME NEW r \in Bounds(ad)
      PROVE  r \in Bounds(ae) /\ Scalar(r, ae) = Scalar(r, ad)
  <2>1. r \in Ref /\ r[2] < Len(Source(r[1], ad)) /\ r[2] \in Nat
    BY DEF Bounds, Ref
  <2>2. CASE r[1] = "Add"
    <3>1. Source(r[1], ad) = ad /\ Source(r[1], ae) = ae
      BY <2>2 DEF Source
    <3>2. r[2] + 1 \in 1..Len(ad) /\ r[2] < Len(ae)
      BY <1>1, <2>1, <3>1
    <3> QED
      BY <1>1, <2>1, <3>1, <3>2 DEF Bounds, Scalar
  <2>3. CASE r[1] # "Add"
    BY <2>1, <2>3 DEF Bounds, Scalar, Source
  <2> QED
    BY <2>2, <2>3
<1>3. Bounds(ad) \subseteq Bounds(ae)
  BY <1>2
<1>4. ASSUME NEW d \in Seq(Bounds(ad))
      PROVE  d \in Seq(Bounds(ae)) /\ Read(d, ae) = Read(d, ad)
  <2>1. d \in Seq(Bounds(ae))
    BY <1>3
  <2>2. \A k \in 1..Len(d) : d[k] \in Bounds(ad)
    BY ElementOfSeq
  <2>3. \A k \in 1..Len(d) : Scalar(d[k], ae) = Scalar(d[k], ad)
    BY <1>2, <2>2
  <2> QED
    BY <2>1, <2>3 DEF Read
<1> QED
  BY <1>1, <1>3, <1>4 DEF ae
\* The piece of a text just appended to the add buffer.
LEMMA FreshIs ==
  ASSUME NEW ad \in Texts, NEW new \in Texts
  PROVE  /\ Piece("Add", Len(ad), Len(new)) \in AnyPiece
         /\ new # <<>> => Piece("Add", Len(ad), Len(new)) \in Solid
         /\ Cells(Piece("Add", Len(ad), Len(new))) \in Seq(Bounds(Cat(ad, new)))
<1> DEFINE p == Piece("Add", Len(ad), Len(new))
           ae == Cat(ad, new)
<1>1. ae \in Texts /\ Len(ae) = Len(ad) + Len(new) /\ Len(ad) \in Nat /\ Len(new) \in Nat
  BY CatAt DEF Texts
<1>2. p \in AnyPiece /\ p.src = "Add" /\ p.start = Len(ad) /\ p.len = Len(new)
  BY <1>1 DEF Piece, AnyPiece, Sources
<1>3. new # <<>> => Len(new) # 0
  BY EmptySeq DEF Texts
<1> HIDE DEF p, ae
<1>4. Source(p.src, ae) = ae
  BY <1>2 DEF Source
<1>5. p \in Fits(ae)
  BY <1>1, <1>2, <1>4 DEF Fits
<1>6. Cells(p) \in Seq(Bounds(ae))
  BY <1>1, <1>5, SliceIs
<1>7. new # <<>> => p \in Solid
  BY <1>1, <1>2, <1>3 DEF Solid
<1> QED
  BY <1>2, <1>6, <1>7 DEF p, ae

-----------------------------------------------------------------------------
(* Compaction: where it moves the references that are live. *)

Below(live, o) == {x \in live : x < o}
Rank(live, o) == Cardinality(Below(live, o))

\* The live offsets of an add buffer of n scalars.
Lives(n) == SUBSET (0..n - 1)

\* Each live offset is one more below the next.
Ranks(live) ==
  /\ Rank(live, 0) = 0 /\ \A o \in Nat : Rank(live, o) \in Nat
  /\ \A o \in Nat : Rank(live, o + 1) = IF o \in live THEN Rank(live, o) + 1 ELSE Rank(live, o)

LEMMA RankIs ==
  ASSUME NEW n \in Nat, NEW live \in Lives(n)
  PROVE  IsFiniteSet(live) /\ Ranks(live)
<1>1. IsFiniteSet(live) /\ live \subseteq Nat
  <2>1. IsFiniteSet(0..n - 1) /\ 0..n - 1 \subseteq Nat
    BY FS_Interval
  <2> QED
    BY <2>1, FS_Subset DEF Lives
<1>7. \A x \in live : x \in Nat
  BY <1>1
<1>2. Below(live, 0) = {}
  <2>1. \A x \in live : ~(x < 0)
    BY <1>7
  <2> QED
    BY <2>1 DEF Below
<1>3. Rank(live, 0) = 0
  BY <1>2, FS_EmptySet DEF Rank
<1>4. ASSUME NEW o \in Nat
      PROVE  IsFiniteSet(Below(live, o)) /\ Rank(live, o) \in Nat
  BY <1>1, FS_Subset, FS_CardinalityType DEF Below, Rank
<1>5. ASSUME NEW o \in Nat, o \in live
      PROVE  Rank(live, o + 1) = Rank(live, o) + 1
  <2>2. \A x \in live : (x < o + 1 <=> x < o \/ x = o) /\ ~(o < o)
    BY <1>7
  <2>3. o < o + 1 /\ ~(o < o)
    OBVIOUS
  <2>1. Below(live, o + 1) = Below(live, o) \cup {o} /\ o \notin Below(live, o)
    BY <1>5, <2>2, <2>3, Zenon DEF Below
  <2> QED
    BY <1>4, <2>1, FS_AddElement DEF Rank
<1>6. ASSUME NEW o \in Nat, o \notin live
      PROVE  Rank(live, o + 1) = Rank(live, o)
  <2>2. \A x \in live : x < o + 1 <=> x < o
    BY <1>6, <1>7
  <2>1. Below(live, o + 1) = Below(live, o)
    BY <2>2, Zenon DEF Below
  <2> QED
    BY <2>1 DEF Rank
<1> QED
  BY <1>1, <1>3, <1>4, <1>5, <1>6 DEF Ranks

\* The recursion of KeepLive, and what its function keeps.
KeepStep(f, ad, live, n) ==
  IF n = 0 THEN <<>> ELSE IF n - 1 \in live THEN Append(f[n - 1], ad[n]) ELSE f[n - 1]

LEMMA KeepLiveIs ==
  ASSUME NEW ad \in Texts, NEW live \in Lives(Len(ad))
  PROVE  /\ KeepLive(ad, live) \in Texts /\ Len(KeepLive(ad, live)) = Rank(live, Len(ad))
         /\ \A o \in live : Rank(live, o) + 1 \in 1..Len(KeepLive(ad, live))
                            /\ KeepLive(ad, live)[Rank(live, o) + 1] = ad[o + 1]
<1> DEFINE N == Len(ad)
           V == [k \in 0..N |->
                   {s \in Texts : Len(s) = Rank(live, k)
                      /\ \A o \in live : o < k => s[Rank(live, o) + 1] = ad[o + 1]
                                                  /\ Rank(live, o) + 1 \in 1..Len(s)}]
           G == [k \in 1..N |-> [s \in V[k - 1] |-> IF k - 1 \in live THEN Append(s, ad[k]) ELSE s]]
           kept[k \in 0..N] ==
             IF k = 0 THEN <<>> ELSE IF k - 1 \in live THEN Append(kept[k - 1], ad[k]) ELSE kept[k - 1]
<1>1. N \in Nat /\ \A k \in 1..N : ad[k] \in Chars
  BY LenProperties, ElementOfSeq DEF Texts
<1>2. live \subseteq Nat /\ \A o \in live : o < N
  BY <1>1 DEF Lives
<1>3. /\ Rank(live, 0) = 0 /\ \A o \in Nat : Rank(live, o) \in Nat
      /\ \A o \in Nat : Rank(live, o + 1) = IF o \in live THEN Rank(live, o) + 1 ELSE Rank(live, o)
  <2>1. live \in Lives(N)
    OBVIOUS
  <2> HIDE DEF N
  <2>2. Ranks(live)
    BY <1>1, <2>1, RankIs
  <2> QED
    BY <2>2 DEF Ranks
<1>4. <<>> \in V[0]
  <2>1. <<>> \in Texts /\ Len(<<>>) = 0 /\ \A o \in live : ~(o < 0)
    BY <1>2 DEF Texts
  <2>2. 0 \in 0..N
    BY <1>1
  <2>3. V[0] = {s \in Texts : Len(s) = Rank(live, 0)
                  /\ \A o \in live : o < 0 => s[Rank(live, o) + 1] = ad[o + 1]
                                                /\ Rank(live, o) + 1 \in 1..Len(s)}
    BY <2>2
  <2> QED
    BY <1>3, <2>1, <2>3, Zenon
<1>5. ASSUME NEW k \in 1..N, NEW s \in V[k - 1]
      PROVE  (IF k - 1 \in live THEN Append(s, ad[k]) ELSE s) \in V[k]
  <2>1. k - 1 \in 0..N /\ k \in 0..N /\ k - 1 \in Nat /\ (k - 1) + 1 = k
    BY <1>1
  <2>2. /\ s \in Texts /\ Len(s) = Rank(live, k - 1)
        /\ \A o \in live : o < k - 1 => s[Rank(live, o) + 1] = ad[o + 1]
                                        /\ Rank(live, o) + 1 \in 1..Len(s)
    BY <1>5, <2>1
  <2>3. \A o \in live : o < k <=> o < k - 1 \/ o = k - 1
    BY <1>2, <2>1
  <2>4. Rank(live, k) = IF k - 1 \in live THEN Rank(live, k - 1) + 1 ELSE Rank(live, k - 1)
    BY <1>3, <2>1
  <2> HIDE DEF V
  <2>5. CASE k - 1 \in live
    <3> DEFINE t == Append(s, ad[k])
    <3>1. /\ t \in Texts /\ Len(t) = Len(s) + 1 /\ Len(s) \in Nat
          /\ \A i \in 1..Len(s) : t[i] = s[i]
          /\ t[Len(s) + 1] = ad[k]
      BY <1>1, <2>2, AppendAt DEF Texts
    <3> HIDE DEF t
    <3>2. ASSUME NEW o \in live, o < k
          PROVE  t[Rank(live, o) + 1] = ad[o + 1] /\ Rank(live, o) + 1 \in 1..Len(t)
      <4>1. CASE o < k - 1
        <5>1. s[Rank(live, o) + 1] = ad[o + 1] /\ Rank(live, o) + 1 \in 1..Len(s)
          BY <2>2, <4>1
        <5> QED
          BY <3>1, <5>1
      <4>2. CASE o = k - 1
        <5>1. Rank(live, o) + 1 = Len(s) + 1 /\ o + 1 = k
          BY <2>1, <2>2, <4>2
        <5> QED
          BY <3>1, <5>1
      <4> QED
        BY <2>3, <3>2, <4>1, <4>2
    <3>3. t \in V[k]
      BY <2>1, <2>2, <2>4, <2>5, <3>1, <3>2 DEF V
    <3> QED
      BY <2>5, <3>3 DEF t
  <2>6. CASE k - 1 \notin live
    <3>1. \A o \in live : o < k => o < k - 1
      BY <2>3, <2>6
    <3>2. s \in V[k]
      BY <2>1, <2>2, <2>4, <2>6, <3>1 DEF V
    <3> QED
      BY <2>6, <3>2
  <2> QED
    BY <2>5, <2>6
<1>6. \A k \in 1..N : \A s \in V[k - 1] :
        G[k][s] = (IF k - 1 \in live THEN Append(s, ad[k]) ELSE s) /\ G[k][s] \in V[k]
  <2> HIDE DEF V
  <2> QED
    BY <1>5
<1>7. PICK g : StepsAre(N, V, <<>>, G, g)
  <2> HIDE DEF V, G, N
  <2>1. StepsIn(N, V, NoPieces, G)
    BY <1>4, <1>6 DEF StepsIn, NoPieces
  <2>2. \E g : StepsAre(N, V, NoPieces, G, g)
    BY <1>1, <2>1, StepsExist
  <2> QED
    BY <2>2 DEF NoPieces
<1>8. ASSUME NEW k \in 1..N
      PROVE  g[k] = IF k - 1 \in live THEN Append(g[k - 1], ad[k]) ELSE g[k - 1]
  <2> HIDE DEF G, V, N
  <2>1. k - 1 \in 0..N
    BY <1>1
  <2> QED
    BY <1>6, <1>7, <2>1 DEF StepsAre
<1>9. g[N] \in V[N]
  <2> HIDE DEF G, V, N
  <2> QED
    BY <1>1, <1>7 DEF StepsAre
<1>10. KeepLive(ad, live) = kept[N]
  BY DEF KeepLive
<1>11. \A s \in V[N] : s \in Texts /\ Len(s) = Rank(live, N)
         /\ \A o \in live : o < N => s[Rank(live, o) + 1] = ad[o + 1] /\ Rank(live, o) + 1 \in 1..Len(s)
  BY <1>1
<1> HIDE DEF G, V
<1>12. ASSUME NEW k \in 0..N
       PROVE  g[k] = KeepStep(g, ad, live, k)
  <2> HIDE DEF N
  <2>1. k = 0 \/ (k \in 1..N /\ k # 0)
    BY <1>1
  <2>2. g[0] = <<>>
    BY <1>7 DEF StepsAre
  <2> QED
    BY <1>8, <2>1, <2>2 DEF KeepStep
<1>13. g = [k \in 0..N |-> KeepStep(g, ad, live, k)]
  <2> HIDE DEF N
  <2> QED
    BY <1>7, <1>12 DEF StepsAre
<1>14. kept = [k \in 0..N |-> KeepStep(kept, ad, live, k)]
  BY <1>13, Zenon DEF KeepStep
<1> HIDE DEF kept
<1>15. InStep(kept, g, N)
  <2>1. kept[0] = g[0]
    BY <1>1, <1>12, <1>14 DEF KeepStep
  <2>2. ASSUME NEW k \in 1..N, kept[k - 1] = g[k - 1]
        PROVE  kept[k] = g[k]
    <3>1. k \in 0..N
      BY <1>1
    <3>2. kept[k] = KeepStep(kept, ad, live, k) /\ g[k] = KeepStep(g, ad, live, k)
      BY <1>12, <1>14, <3>1
    <3> QED
      BY <2>2, <3>2 DEF KeepStep
  <2> QED
    BY <2>1, <2>2 DEF InStep
<1>16. kept[N] = g[N]
  BY <1>1, <1>15, Agree
<1>17. KeepLive(ad, live) \in V[N]
  BY <1>9, <1>10, <1>16
<1> QED
  BY <1>2, <1>11, <1>17
\* References taken one by one to where m puts them.
Renames == [Ref -> Ref]
Via(m, d) == [k \in 1..Len(d) |-> m[d[k]]]

LEMMA ViaIs ==
  ASSUME NEW m \in Renames, NEW d \in Seq(Ref)
  PROVE  /\ Via(m, d) \in Seq(Ref) /\ Len(Via(m, d)) = Len(d) /\ Len(d) \in Nat
         /\ \A k \in 1..Len(d) : d[k] \in Ref /\ Via(m, d)[k] = m[d[k]]
<1>1. Len(d) \in Nat /\ \A k \in 1..Len(d) : d[k] \in Ref
  BY LenProperties, ElementOfSeq
<1>2. \A k \in 1..Len(d) : m[d[k]] \in Ref
  BY <1>1 DEF Renames
<1>3. Via(m, d) \in [1..Len(d) -> Ref]
  BY <1>2 DEF Via
<1>4. Via(m, d) \in Seq(Ref) /\ Len(Via(m, d)) = Len(d)
  BY <1>1, <1>3, LenProperties
<1> QED
  BY <1>1, <1>4 DEF Via

LEMMA ViaCat ==
  ASSUME NEW m \in Renames
  PROVE  \A a, b \in Seq(Ref) : Via(m, Cat(a, b)) = Cat(Via(m, a), Via(m, b))
<1> SUFFICES ASSUME NEW a \in Seq(Ref), NEW b \in Seq(Ref)
             PROVE  Via(m, Cat(a, b)) = Cat(Via(m, a), Via(m, b))
  OBVIOUS
<1> DEFINE c == Cat(a, b)
           s == Via(m, a)
           t == Via(m, b)
           u == Via(m, c)
<1>1. /\ c \in Seq(Ref) /\ Len(c) = Len(a) + Len(b)
      /\ \A i \in 1..Len(a) : c[i] = a[i]
      /\ \A i \in 1..Len(b) : c[Len(a) + i] = b[i]
      /\ Len(a) \in Nat /\ Len(b) \in Nat
  BY CatAt
<1> HIDE DEF c
<1>2. s \in Seq(Ref) /\ Len(s) = Len(a) /\ \A i \in 1..Len(a) : s[i] = m[a[i]]
  BY ViaIs
<1>3. t \in Seq(Ref) /\ Len(t) = Len(b) /\ \A i \in 1..Len(b) : t[i] = m[b[i]]
  BY ViaIs
<1>4. u \in Seq(Ref) /\ Len(u) = Len(c) /\ \A i \in 1..Len(c) : u[i] = m[c[i]]
  BY <1>1, ViaIs
<1> HIDE DEF s, t, u
<1>5. \A i \in 1..Len(s) : u[i] = s[i]
  <2> SUFFICES ASSUME NEW i \in 1..Len(s)
               PROVE  u[i] = s[i]
    OBVIOUS
  <2>1. i \in 1..Len(a) /\ i \in 1..Len(c)
    BY <1>1, <1>2
  <2> QED
    BY <1>1, <1>2, <1>4, <2>1
<1>6. \A i \in 1..Len(t) : u[Len(s) + i] = t[i]
  <2> SUFFICES ASSUME NEW i \in 1..Len(t)
               PROVE  u[Len(s) + i] = t[i]
    OBVIOUS
  <2>1. i \in 1..Len(b) /\ Len(a) + i \in 1..Len(c) /\ Len(s) = Len(a)
    BY <1>1, <1>2, <1>3
  <2> QED
    <3>1. u[Len(a) + i] = m[c[Len(a) + i]] /\ c[Len(a) + i] = b[i] /\ t[i] = m[b[i]]
      BY <1>1, <1>3, <1>4, <2>1
    <3> QED
      BY <2>1, <3>1
<1>7. Len(u) = Len(s) + Len(t)
  BY <1>1, <1>2, <1>3, <1>4
<1>8. u = Cat(s, t)
  BY <1>2, <1>3, <1>4, <1>5, <1>6, <1>7, IsCat
<1> QED
  BY <1>8 DEF u, s, t, c

LEMMA ViaInserts ==
  ASSUME NEW m \in Renames, NEW d, NEW at, NEW t \in Seq(Ref), NEW e, Inserts(d, at, t, e)
  PROVE  Inserts(Via(m, d), at, Via(m, t), Via(m, e))
<1>1. PICK a \in Seq(Ref), b \in Seq(Ref) : Len(a) = at /\ d = Cat(a, b) /\ e = Cat(Cat(a, t), b)
  BY DEF Inserts
<1>2. Cat(a, t) \in Seq(Ref)
  BY CatIn
<1>3. Via(m, d) = Cat(Via(m, a), Via(m, b))
  BY <1>1, ViaCat
<1>4. Via(m, e) = Cat(Via(m, Cat(a, t)), Via(m, b)) /\ Via(m, Cat(a, t)) = Cat(Via(m, a), Via(m, t))
  BY <1>1, <1>2, ViaCat
<1>5. Via(m, a) \in Seq(Ref) /\ Via(m, b) \in Seq(Ref) /\ Len(Via(m, a)) = at
  BY <1>1, ViaIs
<1> QED
  BY <1>3, <1>4, <1>5 DEF Inserts

\* The references a compaction that keeps the offsets in live leaves readable, and
\* where it takes every reference.
Stay(live) == {r \in Ref : IF r[1] = "Add" THEN r[2] \in live ELSE r[2] < Len(Original)}
Shift(live) == [r \in Ref |-> IF r[1] = "Add" THEN <<"Add", Rank(live, r[2])>> ELSE r]

LEMMA ShiftIs ==
  ASSUME NEW live, Ranks(live)
  PROVE  Shift(live) \in Renames /\ \A r \in Ref :
           Shift(live)[r] = IF r[1] = "Add" THEN <<"Add", Rank(live, r[2])>> ELSE r
<1>1. \A r \in Ref : r[2] \in Nat /\ r[1] \in Sources
  BY DEF Ref
<1>2. \A r \in Ref : Rank(live, r[2]) \in Nat
  BY <1>1 DEF Ranks
<1>3. "Add" \in Sources
  BY DEF Sources
<1>4. \A r \in Ref : <<"Add", Rank(live, r[2])>> \in Ref
  BY <1>2, <1>3 DEF Ref
<1> QED
  BY <1>4 DEF Shift, Renames

LEMMA RebaseIs ==
  ASSUME NEW live, Ranks(live), NEW p \in Kept, Cells(p) \in Seq(Stay(live))
  PROVE  Rebase(p, live) \in Kept /\ Cells(Rebase(p, live)) = Via(Shift(live), Cells(p))
<1> DEFINE m == Shift(live)
           c == Cells(p)
           q == Rebase(p, live)
<1>1. p \in AnyPiece /\ p.src \in Sources /\ p.start \in Nat /\ p.len \in Nat
  BY PieceOf DEF Kept
<1>2. c \in Seq(Ref) /\ Len(c) = p.len /\ \A k \in 1..p.len : c[k] = <<p.src, p.start + (k - 1)>>
  BY <1>1, CellsAt
<1>3. m \in Renames /\ \A r \in Ref : m[r] = IF r[1] = "Add" THEN <<"Add", Rank(live, r[2])>> ELSE r
  BY ShiftIs
<1>4. CASE p.src = "Add" /\ p.len > 0
  <2>1. q = [p EXCEPT !.start = Rank(live, p.start)]
    BY <1>4 DEF Rebase, Rank, Below
  <2>2. Rank(live, p.start) \in Nat
    BY <1>1 DEF Ranks
  <2>3. q \in Kept /\ q.src = "Add" /\ q.start = Rank(live, p.start) /\ q.len = p.len
    BY <1>1, <1>4, <2>1, <2>2 DEF Kept, AnyPiece
  <2>4. \A k \in 1..p.len : p.start + (k - 1) \in live
    <3> SUFFICES ASSUME NEW k \in 1..p.len
                 PROVE  p.start + (k - 1) \in live
      OBVIOUS
    <3>1. c[k] \in Stay(live)
      BY <1>2, ElementOfSeq
    <3>2. <<"Add", p.start + (k - 1)>> \in Stay(live)
      BY <1>2, <1>4, <3>1
    <3> QED
      BY <3>2 DEF Stay
  <2> DEFINE T == {k \in Nat : k < p.len => Rank(live, p.start + k) = Rank(live, p.start) + k}
  <2>5. 0 \in T
    BY <1>1, <2>2
  <2>6. ASSUME NEW k \in Nat, k \in T
        PROVE  k + 1 \in T
    <3> SUFFICES ASSUME k + 1 < p.len
                 PROVE  Rank(live, p.start + (k + 1)) = Rank(live, p.start) + (k + 1)
      OBVIOUS
    <3>1. Rank(live, p.start + k) = Rank(live, p.start) + k
      BY <1>1, <2>6
    <3>2. k + 1 \in 1..p.len /\ p.start + ((k + 1) - 1) = p.start + k /\ p.start + k \in Nat
          /\ p.start + (k + 1) = (p.start + k) + 1
      BY <1>1
    <3>3. p.start + k \in live
      BY <2>4, <3>2
    <3>4. Rank(live, (p.start + k) + 1) = Rank(live, p.start + k) + 1
      BY <3>2, <3>3 DEF Ranks
    <3> QED
      BY <2>2, <3>1, <3>2, <3>4
  <2>7. Nat \subseteq T
    <3> HIDE DEF T
    <3> QED
      BY <2>5, <2>6, Induction
  <2>8. \A k \in 1..p.len : Rank(live, p.start + (k - 1)) = Rank(live, p.start) + (k - 1)
    <3> SUFFICES ASSUME NEW k \in 1..p.len
                 PROVE  Rank(live, p.start + (k - 1)) = Rank(live, p.start) + (k - 1)
      OBVIOUS
    <3>1. k - 1 \in Nat /\ k - 1 < p.len
      BY <1>1
    <3> QED
      BY <2>7, <3>1
  <2>9. Cells(q) = [k \in 1..p.len |-> <<"Add", Rank(live, p.start) + (k - 1)>>]
    BY <2>3 DEF Cells
  <2> HIDE DEF m, c, q
  <2>10. ASSUME NEW k \in 1..p.len
         PROVE  m[c[k]] = <<"Add", Rank(live, p.start) + (k - 1)>>
    <3>1. c[k] = <<"Add", p.start + (k - 1)>> /\ c[k] \in Ref
      BY <1>2, <1>4, ElementOfSeq
    <3>2. c[k][1] = "Add" /\ c[k][2] = p.start + (k - 1)
      BY <3>1
    <3>3. m[c[k]] = <<"Add", Rank(live, p.start + (k - 1))>>
      BY <1>3, <3>1, <3>2
    <3> QED
      BY <2>8, <3>3
  <2>11. Via(m, c) = [k \in 1..p.len |-> <<"Add", Rank(live, p.start) + (k - 1)>>]
    BY <1>2, <2>10 DEF Via
  <2> QED
    BY <2>3, <2>9, <2>11 DEF m, c, q
<1>5. CASE ~(p.src = "Add" /\ p.len > 0)
  <2>1. q = p
    BY <1>5, Zenon DEF Rebase
  <2> HIDE DEF m, c, q
  <2>2. ASSUME NEW k \in 1..p.len
        PROVE  m[c[k]] = c[k]
    <3>1. p.src # "Add"
      BY <1>1, <1>5
    <3>2. c[k] = <<p.src, p.start + (k - 1)>> /\ c[k] \in Ref
      BY <1>2, ElementOfSeq
    <3> QED
      BY <1>3, <3>1, <3>2
  <2>3. Via(m, c) = [k \in 1..Len(c) |-> c[k]]
    BY <1>2, <2>2 DEF Via
  <2>4. c = [k \in 1..Len(c) |-> c[k]]
    BY <1>2
  <2> QED
    BY <2>1, <2>3, <2>4 DEF m, c, q
<1> QED
  BY <1>4, <1>5
LEMMA RebaseAllIs ==
  ASSUME NEW live, Ranks(live), NEW ps \in Seq(Kept), Refs(ps) \in Seq(Stay(live))
  PROVE  /\ RebaseAll(ps, live) \in Seq(Kept) /\ Len(RebaseAll(ps, live)) = Len(ps)
         /\ Refs(RebaseAll(ps, live)) = Via(Shift(live), Refs(ps))
<1> DEFINE m == Shift(live)
           Moved(s) == /\ RebaseAll(s, live) \in Seq(Kept) /\ Len(RebaseAll(s, live)) = Len(s)
                       /\ Refs(RebaseAll(s, live)) = Via(m, Refs(s))
           T == {s \in Seq(Kept) : Refs(s) \in Seq(Stay(live)) => Moved(s)}
<1>1. m \in Renames
  BY ShiftIs
<1> HIDE DEF m
<1>2. NoPieces \in T
  <2>1. RebaseAll(NoPieces, live) = NoPieces
    BY DEF RebaseAll, NoPieces
  <2>2. Refs(NoPieces) = <<>> /\ Via(m, <<>>) = <<>>
    BY RefsEmpty DEF NoPieces, Via
  <2>3. NoPieces \in Seq(Kept)
    BY DEF NoPieces
  <2> QED
    BY <2>1, <2>2, <2>3
<1>3. ASSUME NEW s \in Seq(Kept), NEW e \in Kept, s \in T
      PROVE  Append(s, e) \in T
  <2>1. s \in Seq(AnyPiece) /\ e \in AnyPiece
    BY KeptIn
  <2>2. /\ Append(s, e) \in Seq(Kept) /\ Len(s) \in Nat /\ Len(Append(s, e)) = Len(s) + 1
        /\ \A i \in 1..Len(s) : Append(s, e)[i] = s[i]
        /\ Append(s, e)[Len(s) + 1] = e
    BY AppendAt
  <2> SUFFICES ASSUME Refs(Append(s, e)) \in Seq(Stay(live))
               PROVE  Moved(Append(s, e))
    BY <2>2
  <2>3. Refs(s) \in Seq(Ref) /\ Refs(Append(s, e)) = Cat(Refs(s), Cells(e)) /\ Cells(e) \in Seq(Ref)
    BY <2>1, RefsAppend, CellsAt
  <2>4. Refs(s) \in Seq(Stay(live)) /\ Cells(e) \in Seq(Stay(live))
    BY <2>3, PartsIn DEF Cat
  <2>5. Moved(s)
    BY <1>3, <2>4
  <2>6. Rebase(e, live) \in Kept /\ Cells(Rebase(e, live)) = Via(m, Cells(e))
    BY <2>4, RebaseIs DEF m
  <2> DEFINE r == RebaseAll(s, live)
             t == RebaseAll(Append(s, e), live)
             f == Rebase(e, live)
  <2>7. /\ Append(r, f) \in Seq(Kept) /\ Len(Append(r, f)) = Len(s) + 1
        /\ \A i \in 1..Len(s) : Append(r, f)[i] = r[i]
        /\ Append(r, f)[Len(s) + 1] = f
    BY <2>5, <2>6, AppendAt
  <2>8. t = Append(r, f)
    <3>1. t = [i \in 1..Len(s) + 1 |-> Rebase(Append(s, e)[i], live)]
      BY <2>2 DEF RebaseAll
    <3>2. \A i \in 1..Len(s) : r[i] = Rebase(s[i], live)
      BY DEF RebaseAll
    <3> HIDE DEF r, f, t
    <3>3. \A i \in 1..Len(s) + 1 : Rebase(Append(s, e)[i], live) = Append(r, f)[i]
      <4> SUFFICES ASSUME NEW i \in 1..Len(s) + 1
                   PROVE  Rebase(Append(s, e)[i], live) = Append(r, f)[i]
        OBVIOUS
      <4>1. CASE i \in 1..Len(s)
        BY <2>2, <2>7, <3>2, <4>1
      <4>2. CASE i = Len(s) + 1
        BY <2>2, <2>7, <4>2 DEF f
      <4>3. Len(s) \in Nat
        BY <2>2
      <4>4. i \in 1..Len(s) \/ i = Len(s) + 1
        BY <4>3
      <4> QED
        BY <4>1, <4>2, <4>4
    <3>4. Append(r, f) = [i \in 1..Len(s) + 1 |-> Append(r, f)[i]]
      <4> DEFINE u == Append(r, f)
      <4>1. u \in Seq(Kept) /\ Len(u) = Len(s) + 1
        BY <2>7
      <4> HIDE DEF u
      <4>2. u = [i \in 1..Len(u) |-> u[i]]
        BY <4>1
      <4>3. u = [i \in 1..Len(s) + 1 |-> u[i]]
        BY <4>1, <4>2
      <4> QED
        BY <4>3 DEF u
    <3> QED
      BY <3>1, <3>3, <3>4
  <2>9. r \in Seq(AnyPiece) /\ f \in AnyPiece
    BY <2>5, <2>6, KeptIn
  <2>10. Refs(Append(r, f)) = Cat(Refs(r), Cells(f))
    BY <2>9, RefsAppend
  <2>11. Refs(t) = Cat(Via(m, Refs(s)), Via(m, Cells(e)))
    BY <2>5, <2>6, <2>8, <2>10
  <2>12. Via(m, Cat(Refs(s), Cells(e))) = Cat(Via(m, Refs(s)), Via(m, Cells(e)))
    BY <1>1, <2>3, ViaCat
  <2> QED
    BY <2>2, <2>3, <2>7, <2>8, <2>11, <2>12
<1>4. Seq(Kept) \subseteq T
  <2> HIDE DEF T
  <2>1. <<>> \in T
    BY <1>2 DEF NoPieces
  <2> QED
    BY <1>3, <2>1, SeqInduction
<1>5. Moved(ps)
  BY <1>4
<1> QED
  BY <1>5 DEF m

\* What stays readable reads the same in the compacted add buffer.
LEMMA StayReads ==
  ASSUME NEW ad \in Texts, NEW live \in Lives(Len(ad))
  PROVE  /\ Ranks(live) /\ Stay(live) \subseteq Bounds(ad) /\ Stay(live) \in SUBSET Ref
         /\ KeepLive(ad, live) \in Texts
         /\ \A d \in Seq(Stay(live)) :
              /\ Via(Shift(live), d) \in Seq(Bounds(KeepLive(ad, live)))
              /\ Read(Via(Shift(live), d), KeepLive(ad, live)) = Read(d, ad)
<1> DEFINE m == Shift(live)
           ae == KeepLive(ad, live)
           N == Len(ad)
<1>1. N \in Nat /\ live \in Lives(N)
  BY LenProperties DEF Texts
<1> HIDE DEF N
<1>2. Ranks(live)
  BY <1>1, RankIs
<1>3. /\ ae \in Texts
      /\ \A o \in live : Rank(live, o) + 1 \in 1..Len(ae) /\ ae[Rank(live, o) + 1] = ad[o + 1]
  BY KeepLiveIs
<1>4. m \in Renames /\ \A r \in Ref : m[r] = IF r[1] = "Add" THEN <<"Add", Rank(live, r[2])>> ELSE r
  BY <1>2, ShiftIs
<1> HIDE DEF m, ae
<1>5. \A o \in live : o \in Nat /\ o < N
  BY <1>1 DEF Lives
<1>6. Stay(live) \subseteq Bounds(ad)
  <2> SUFFICES ASSUME NEW r \in Stay(live)
               PROVE  r \in Bounds(ad)
    OBVIOUS
  <2>1. r \in Ref /\ IF r[1] = "Add" THEN r[2] \in live ELSE r[2] < Len(Original)
    BY DEF Stay
  <2>2. CASE r[1] = "Add"
    BY <1>5, <2>1, <2>2 DEF Bounds, Source, N
  <2>3. CASE r[1] # "Add"
    BY <2>1, <2>3 DEF Bounds, Source
  <2> QED
    BY <2>2, <2>3
<1>7. ASSUME NEW r \in Stay(live)
      PROVE  m[r] \in Bounds(ae) /\ Scalar(m[r], ae) = Scalar(r, ad)
  <2>1. r \in Ref /\ IF r[1] = "Add" THEN r[2] \in live ELSE r[2] < Len(Original)
    BY DEF Stay
  <2>2. m[r] \in Ref
    BY <1>4, <2>1 DEF Renames
  <2>3. CASE r[1] = "Add"
    <3>1. r[2] \in live /\ m[r] = <<"Add", Rank(live, r[2])>>
      BY <1>4, <2>1, <2>3
    <3>2. Rank(live, r[2]) + 1 \in 1..Len(ae) /\ ae[Rank(live, r[2]) + 1] = ad[r[2] + 1]
          /\ Rank(live, r[2]) \in Nat
      BY <1>2, <1>3, <1>5, <3>1 DEF Ranks
    <3>3. m[r][1] = "Add" /\ m[r][2] = Rank(live, r[2])
      BY <3>1
    <3>4. Len(ae) \in Nat
      BY <1>3, LenProperties DEF Texts
    <3>5. Rank(live, r[2]) < Len(ae)
      BY <3>2, <3>4
    <3> QED
      BY <2>2, <2>3, <3>2, <3>3, <3>5 DEF Bounds, Scalar, Source
  <2>4. CASE r[1] # "Add"
    <3>1. m[r] = r
      BY <1>4, <2>1, <2>4
    <3> QED
      BY <2>1, <2>4, <3>1 DEF Bounds, Scalar, Source
  <2> QED
    BY <2>3, <2>4
<1>8. Stay(live) \in SUBSET Ref
  BY DEF Stay
<1>9. ASSUME NEW d \in Seq(Stay(live))
      PROVE  Via(m, d) \in Seq(Bounds(ae)) /\ Read(Via(m, d), ae) = Read(d, ad)
  <2>1. d \in Seq(Ref) /\ Len(d) \in Nat /\ \A k \in 1..Len(d) : d[k] \in Stay(live)
    BY <1>8, LenProperties, ElementOfSeq
  <2>2. /\ Via(m, d) \in Seq(Ref) /\ Len(Via(m, d)) = Len(d)
        /\ \A k \in 1..Len(d) : Via(m, d)[k] = m[d[k]]
    BY <1>4, <2>1, ViaIs
  <2> DEFINE v == Via(m, d)
  <2> HIDE DEF v
  <2>3. \A k \in 1..Len(d) : v[k] \in Bounds(ae) /\ Scalar(v[k], ae) = Scalar(d[k], ad)
    BY <1>7, <2>1, <2>2 DEF v
  <2>4. v \in [1..Len(d) -> Bounds(ae)]
    BY <2>2, <2>3 DEF v
  <2>5. v \in Seq(Bounds(ae))
    BY <2>1, <2>4
  <2>6. Read(v, ae) = Read(d, ad)
    BY <2>2, <2>3 DEF Read, v
  <2> QED
    BY <2>5, <2>6 DEF v
<1> QED
  BY <1>2, <1>3, <1>6, <1>8, <1>9 DEF m, ae

\* An edit and a list of edits, rebased.
Rebased(e, live) == [e EXCEPT !.pieces = RebaseAll(@, live)]
RebasedEdits(es, live) == [j \in 1..Len(es) |-> Rebased(es[j], live)]

LEMMA MovesRebased ==
  ASSUME NEW live, Ranks(live), NEW e \in Edits, Refs(e.pieces) \in Seq(Stay(live))
  PROVE  /\ Rebased(e, live) \in Edits /\ Refs(Rebased(e, live).pieces) = Via(Shift(live), Refs(e.pieces))
         /\ \A d, f : Moves(e, d, f) => Moves(Rebased(e, live), Via(Shift(live), d), Via(Shift(live), f))
<1>1. e.pieces \in Seq(Kept) /\ e.pieces \in Seq(AnyPiece)
  BY KeptIn DEF Edits
<1>2. RebaseAll(e.pieces, live) \in Seq(Kept)
      /\ Refs(RebaseAll(e.pieces, live)) = Via(Shift(live), Refs(e.pieces))
  BY <1>1, RebaseAllIs
<1>3. /\ Rebased(e, live) \in Edits /\ Rebased(e, live).op = e.op /\ Rebased(e, live).at = e.at
      /\ Rebased(e, live).pieces = RebaseAll(e.pieces, live)
  BY <1>2 DEF Rebased, Edits
<1>4. Shift(live) \in Renames /\ Refs(e.pieces) \in Seq(Ref)
  BY <1>1, ShiftIs, RefsIn
<1>5. ASSUME NEW d, NEW f, Moves(e, d, f)
      PROVE  Moves(Rebased(e, live), Via(Shift(live), d), Via(Shift(live), f))
  <2>1. CASE e.op = "Insert"
    <3>1. Inserts(d, e.at, Refs(e.pieces), f)
      BY <1>5, <2>1 DEF Moves
    <3>2. Inserts(Via(Shift(live), d), e.at, Via(Shift(live), Refs(e.pieces)), Via(Shift(live), f))
      BY <1>4, <3>1, ViaInserts
    <3> QED
      BY <1>2, <1>3, <2>1, <3>2 DEF Moves
  <2>2. CASE e.op # "Insert"
    <3>1. Inserts(f, e.at, Refs(e.pieces), d)
      BY <1>5, <2>2 DEF Moves
    <3>2. Inserts(Via(Shift(live), f), e.at, Via(Shift(live), Refs(e.pieces)), Via(Shift(live), d))
      BY <1>4, <3>1, ViaInserts
    <3> QED
      BY <1>2, <1>3, <2>2, <3>2 DEF Moves
  <2> QED
    BY <2>1, <2>2
<1> QED
  BY <1>2, <1>3, <1>5

LEMMA LeadsRebased ==
  ASSUME NEW live, Ranks(live), NEW es \in Seq(Edits), Holds(es, Stay(live))
  PROVE  /\ RebasedEdits(es, live) \in Seq(Edits) /\ Len(RebasedEdits(es, live)) = Len(es)
         /\ \A k \in 1..Len(es) : Refs(RebasedEdits(es, live)[k].pieces) = Via(Shift(live), Refs(es[k].pieces))
         /\ \A d, f : Leads(d, es, f)
              => Leads(Via(Shift(live), d), RebasedEdits(es, live), Via(Shift(live), f))
<1> DEFINE m == Shift(live)
           rs == RebasedEdits(es, live)
<1>1. Len(es) \in Nat /\ \A k \in 1..Len(es) : es[k] \in Edits /\ Refs(es[k].pieces) \in Seq(Stay(live))
  BY LenProperties, ElementOfSeq DEF Holds
<1>2. ASSUME NEW k \in 1..Len(es)
      PROVE  /\ rs[k] \in Edits /\ Refs(rs[k].pieces) = Via(m, Refs(es[k].pieces))
             /\ \A d, f : Moves(es[k], d, f) => Moves(rs[k], Via(m, d), Via(m, f))
  <2> DEFINE e == es[k]
  <2>1. e \in Edits /\ Refs(e.pieces) \in Seq(Stay(live)) /\ rs[k] = Rebased(e, live)
    BY <1>1 DEF RebasedEdits
  <2> HIDE DEF e, rs, m
  <2> QED
    BY <2>1, MovesRebased DEF e, m
<1>3. rs \in Seq(Edits) /\ Len(rs) = Len(es)
  <2>1. rs = [k \in 1..Len(es) |-> rs[k]]
    BY DEF RebasedEdits
  <2> HIDE DEF rs
  <2>2. rs \in [1..Len(es) -> Edits]
    BY <1>2, <2>1
  <2> QED
    BY <1>1, <2>2, LenProperties
<1> HIDE DEF rs, m
<1>4. ASSUME NEW d, NEW f, Leads(d, es, f)
      PROVE  Leads(Via(m, d), rs, Via(m, f))
  <2>1. PICK h : h[0] = d /\ h[Len(es)] = f /\ \A k \in 1..Len(es) : Moves(es[k], h[k - 1], h[k])
    BY <1>4 DEF Leads
  <2> DEFINE i == [k \in 0..Len(es) |-> Via(m, h[k])]
  <2>2. i[0] = Via(m, d) /\ i[Len(rs)] = Via(m, f)
    BY <1>1, <1>3, <2>1
  <2>3. ASSUME NEW k \in 1..Len(rs)
        PROVE  Moves(rs[k], i[k - 1], i[k])
    <3>1. k \in 1..Len(es) /\ k - 1 \in 0..Len(es) /\ k \in 0..Len(es)
      BY <1>1, <1>3
    <3>2. i[k - 1] = Via(m, h[k - 1]) /\ i[k] = Via(m, h[k])
      BY <3>1
    <3> QED
      BY <1>2, <2>1, <3>1, <3>2
  <2> HIDE DEF i
  <2> QED
    BY <2>2, <2>3 DEF Leads
<1> QED
  BY <1>2, <1>3, <1>4 DEF m, rs
-----------------------------------------------------------------------------
(* Transactions, and the documents they link. *)

Tx == [id : Nat, before : Nat, after : Nat, edits : Seq(Edits), bytes : Nat, addBytes : Nat,
       docBefore : Texts, docAfter : Texts]

\* The edits of t take the document d to the document f, and t says what both read.
Links(t, d, f, ad) ==
  /\ d \in Seq(Bounds(ad)) /\ f \in Seq(Bounds(ad)) /\ Holds(t.edits, Bounds(ad))
  /\ Leads(d, t.edits, f)
  /\ Read(d, ad) = t.docBefore /\ Read(f, ad) = t.docAfter
  /\ t.before \in 0..Len(d) /\ t.after \in 0..Len(f)

\* Of two neighbours, the one the history holds is the older one on the undo side and
\* the newer one on the redo side.
Joins(side, t, d, f, ad) == IF side = "undo" THEN Links(t, d, f, ad) ELSE Links(t, f, d, ad)

\* The transactions of one side link a row of documents that ends with d, the present.
Chain(side, ts, d, ad) ==
  \E W : W[Len(ts)] = d /\ \A i \in 1..Len(ts) : Joins(side, ts[i], W[i - 1], W[i], ad)

LEMMA ChainNone ==
  ASSUME NEW side, NEW d, NEW ad
  PROVE  Chain(side, <<>>, d, ad)
<1> DEFINE W == [k \in {0} |-> d]
<1>1. W[0] = d /\ Len(<<>>) = 0 /\ \A i \in 1..0 : FALSE
  OBVIOUS
<1> HIDE DEF W
<1> QED
  BY <1>1 DEF Chain

LEMMA ChainPush ==
  ASSUME NEW side, NEW ts \in Seq(Tx), NEW t \in Tx, NEW d, NEW f, NEW ad,
         Chain(side, ts, d, ad), Joins(side, t, d, f, ad)
  PROVE  Chain(side, Append(ts, t), f, ad)
<1> DEFINE n == Len(ts)
           us == Append(ts, t)
<1>1. n \in Nat /\ Len(us) = n + 1 /\ us[n + 1] = t /\ \A i \in 1..n : us[i] = ts[i]
  BY AppendAt
<1>2. PICK W : W[n] = d /\ \A i \in 1..n : Joins(side, ts[i], W[i - 1], W[i], ad)
  BY DEF Chain
<1> HIDE DEF n, us
<1> DEFINE V == [i \in 0..n + 1 |-> IF i = n + 1 THEN f ELSE W[i]]
<1>3. V[n + 1] = f /\ \A i \in 0..n : V[i] = W[i]
  BY <1>1
<1> HIDE DEF V
<1>4. ASSUME NEW i \in 1..n + 1
      PROVE  Joins(side, us[i], V[i - 1], V[i], ad)
  <2>1. CASE i = n + 1
    <3>1. i - 1 = n /\ n \in 0..n
      BY <1>1, <2>1
    <3> QED
      BY <1>1, <1>2, <1>3, <2>1, <3>1
  <2>2. CASE i # n + 1
    <3>1. i \in 1..n /\ i \in 0..n /\ i - 1 \in 0..n
      BY <1>1, <2>2
    <3> QED
      BY <1>1, <1>2, <1>3, <3>1
  <2> QED
    BY <2>1, <2>2
<1>5. Chain(side, us, f, ad)
  BY <1>1, <1>3, <1>4 DEF Chain
<1> QED
  BY <1>5 DEF us

LEMMA ChainPop ==
  ASSUME NEW side, NEW ts \in Seq(Tx), ts # <<>>, NEW f, NEW ad, Chain(side, ts, f, ad)
  PROVE  \E d : Joins(side, Last(ts), d, f, ad) /\ Chain(side, Front(ts), d, ad)
<1> DEFINE n == Len(ts)
           us == Front(ts)
<1>1. n \in Nat \ {0} /\ Last(ts) = ts[n] /\ Len(us) = n - 1 /\ \A i \in 1..n - 1 : us[i] = ts[i]
  BY FrontAt
<1>2. PICK W : W[n] = f /\ \A i \in 1..n : Joins(side, ts[i], W[i - 1], W[i], ad)
  BY DEF Chain
<1> HIDE DEF n, us
<1>3. n \in 1..n /\ \A i \in 1..n - 1 : i \in 1..n
  BY <1>1
<1>4. Joins(side, Last(ts), W[n - 1], f, ad)
  BY <1>1, <1>2, <1>3
<1>5. W[Len(us)] = W[n - 1] /\ \A i \in 1..Len(us) : Joins(side, us[i], W[i - 1], W[i], ad)
  BY <1>1, <1>2, <1>3
<1>6. Chain(side, us, W[n - 1], ad)
  BY <1>5 DEF Chain
<1> QED
  BY <1>4, <1>6 DEF us

LEMMA ChainSuffix ==
  ASSUME NEW side, NEW ts \in Seq(Tx), NEW d, NEW ad, NEW k \in 0..Len(ts), Chain(side, ts, d, ad)
  PROVE  Chain(side, SubSeq(ts, k + 1, Len(ts)), d, ad)
<1> DEFINE n == Len(ts)
           us == SubSeq(ts, k + 1, n)
<1>1. n \in Nat /\ Len(us) = n - k /\ \A i \in 1..n - k : us[i] = ts[k + i]
  BY SuffixAt, LenProperties
<1>2. PICK W : W[n] = d /\ \A i \in 1..n : Joins(side, ts[i], W[i - 1], W[i], ad)
  BY DEF Chain
<1>7. k \in 0..n
  OBVIOUS
<1> HIDE DEF n, us
<1> DEFINE V == [i \in 0..n - k |-> W[k + i]]
<1>3. V[n - k] = d /\ \A i \in 0..n - k : V[i] = W[k + i]
  BY <1>1, <1>2, <1>7
<1> HIDE DEF V
<1>4. ASSUME NEW i \in 1..n - k
      PROVE  Joins(side, us[i], V[i - 1], V[i], ad)
  <2>1. i \in 0..n - k /\ i - 1 \in 0..n - k /\ k + i \in 1..n /\ k + (i - 1) = (k + i) - 1
    BY <1>1, <1>7
  <2>2. Joins(side, ts[k + i], W[(k + i) - 1], W[k + i], ad)
    BY <1>2, <2>1
  <2>3. V[i] = W[k + i] /\ V[i - 1] = W[(k + i) - 1] /\ us[i] = ts[k + i]
    BY <1>1, <1>3, <2>1
  <2> QED
    BY <2>2, <2>3
<1>5. Chain(side, us, d, ad)
  BY <1>1, <1>3, <1>4 DEF Chain
<1> QED
  BY <1>5 DEF us, n

LEMMA HoldsMore ==
  ASSUME NEW Y, NEW Z, Y \subseteq Z, NEW es, Holds(es, Y)
  PROVE  Holds(es, Z)
BY DEF Holds

\* What is typed or pasted does not touch the documents of the history.
LEMMA ChainGrown ==
  ASSUME NEW ad \in Texts, NEW new \in Texts, NEW side, NEW ts, NEW d, Chain(side, ts, d, ad)
  PROVE  Chain(side, ts, d, Cat(ad, new))
<1> DEFINE ae == Cat(ad, new)
<1>1. /\ Bounds(ad) \subseteq Bounds(ae)
      /\ \A x \in Seq(Bounds(ad)) : x \in Seq(Bounds(ae)) /\ Read(x, ae) = Read(x, ad)
  BY GrownReads
<1> HIDE DEF ae
<1>2. ASSUME NEW t, NEW x, NEW y, Links(t, x, y, ad)
      PROVE  Links(t, x, y, ae)
  <2>1. Holds(t.edits, Bounds(ae))
    BY <1>1, <1>2, HoldsMore DEF Links
  <2>2. x \in Seq(Bounds(ad)) /\ y \in Seq(Bounds(ad))
    BY <1>2 DEF Links
  <2> QED
    BY <1>1, <1>2, <2>1, <2>2 DEF Links
<1>3. \A t, x, y : Joins(side, t, x, y, ad) => Joins(side, t, x, y, ae)
  BY <1>2 DEF Joins
<1>4. Chain(side, ts, d, ae)
  BY <1>3 DEF Chain
<1> QED
  BY <1>4 DEF ae

\* A compaction that keeps what a transaction and the document after it refer to.
Packed(t, live) == [t EXCEPT !.edits = RebasedEdits(@, live)]

LEMMA LinksPacked ==
  ASSUME NEW ad \in Texts, NEW live \in Lives(Len(ad)), NEW t \in Tx, NEW d, NEW f,
         Links(t, d, f, ad), Holds(t.edits, Stay(live)), f \in Seq(Stay(live))
  PROVE  /\ d \in Seq(Stay(live)) /\ Packed(t, live) \in Tx
         /\ Links(Packed(t, live), Via(Shift(live), d), Via(Shift(live), f), KeepLive(ad, live))
<1> DEFINE m == Shift(live)
           ae == KeepLive(ad, live)
           u == Packed(t, live)
           rs == RebasedEdits(t.edits, live)
<1>1. /\ Ranks(live) /\ Stay(live) \in SUBSET Ref /\ ae \in Texts
      /\ \A x \in Seq(Stay(live)) : Via(m, x) \in Seq(Bounds(ae)) /\ Read(Via(m, x), ae) = Read(x, ad)
  BY StayReads
<1>2. t.edits \in Seq(Edits) /\ Leads(d, t.edits, f)
  BY DEF Tx, Links
<1>3. d \in Seq(Stay(live))
  BY <1>1, <1>2, LeadsWithin
<1>4. /\ rs \in Seq(Edits) /\ Len(rs) = Len(t.edits)
      /\ \A k \in 1..Len(t.edits) : Refs(rs[k].pieces) = Via(m, Refs(t.edits[k].pieces))
      /\ \A x, y : Leads(x, t.edits, y) => Leads(Via(m, x), rs, Via(m, y))
  BY <1>1, <1>2, LeadsRebased
<1>5. u \in Tx /\ u.edits = rs /\ u.docBefore = t.docBefore /\ u.docAfter = t.docAfter
      /\ u.before = t.before /\ u.after = t.after
  BY <1>4 DEF Packed, Tx
<1> HIDE DEF m, ae, rs, u
<1>6. Holds(rs, Bounds(ae))
  <2> SUFFICES ASSUME NEW k \in 1..Len(t.edits)
               PROVE  Refs(rs[k].pieces) \in Seq(Bounds(ae))
    BY <1>4 DEF Holds
  <2>1. Refs(t.edits[k].pieces) \in Seq(Stay(live))
    BY DEF Holds
  <2> QED
    BY <1>1, <1>4, <2>1
<1>7. Leads(Via(m, d), rs, Via(m, f))
  BY <1>2, <1>4
<1>8. Len(Via(m, d)) = Len(d) /\ Len(Via(m, f)) = Len(f)
  <2>1. d \in Seq(Ref) /\ f \in Seq(Ref) /\ m \in Renames
    BY <1>1, <1>3, ShiftIs DEF m
  <2> QED
    BY <2>1, ViaIs
<1>9. Links(u, Via(m, d), Via(m, f), ae)
  BY <1>1, <1>3, <1>5, <1>6, <1>7, <1>8 DEF Links
<1> QED
  BY <1>3, <1>5, <1>9 DEF m, ae, u
\* What compaction moves, it moves in all of the history.
LEMMA ChainPacked ==
  ASSUME NEW ad \in Texts, NEW live \in Lives(Len(ad)), NEW ts \in Seq(Tx), NEW d,
         Chain("undo", ts, d, ad), d \in Seq(Stay(live)),
         \A i \in 1..Len(ts) : Holds(ts[i].edits, Stay(live))
  PROVE  /\ RebaseHistory(ts, live) \in Seq(Tx) /\ Len(RebaseHistory(ts, live)) = Len(ts)
         /\ \A i \in 1..Len(ts) : RebaseHistory(ts, live)[i] = Packed(ts[i], live)
         /\ Chain("undo", RebaseHistory(ts, live), Via(Shift(live), d), KeepLive(ad, live))
<1> DEFINE n == Len(ts)
           us == RebaseHistory(ts, live)
           m == Shift(live)
           ae == KeepLive(ad, live)
           Y == Seq(Stay(live))
<1>1. n \in Nat /\ \A i \in 1..n : ts[i] \in Tx /\ Holds(ts[i].edits, Stay(live))
  BY LenProperties, ElementOfSeq
<1>2. us = [i \in 1..n |-> Packed(ts[i], live)]
  BY DEF RebaseHistory, Packed, RebasedEdits, Rebased
<1>3. PICK W : W[n] = d /\ \A i \in 1..n : Links(ts[i], W[i - 1], W[i], ad)
  BY DEF Chain, Joins
<1> HIDE DEF n, us
<1>4. ASSUME NEW i \in 1..n, W[i] \in Y
      PROVE  /\ W[i - 1] \in Y /\ Packed(ts[i], live) \in Tx
             /\ Links(Packed(ts[i], live), Via(m, W[i - 1]), Via(m, W[i]), ae)
  <2> DEFINE t == ts[i]
             x == W[i - 1]
             y == W[i]
  <2>1. t \in Tx /\ Holds(t.edits, Stay(live)) /\ Links(t, x, y, ad) /\ y \in Seq(Stay(live))
    BY <1>1, <1>3, <1>4
  <2> HIDE DEF t, x, y
  <2>2. x \in Seq(Stay(live)) /\ Packed(t, live) \in Tx
        /\ Links(Packed(t, live), Via(Shift(live), x), Via(Shift(live), y), KeepLive(ad, live))
    BY <2>1, LinksPacked
  <2> QED
    BY <2>2 DEF t, x, y
<1> DEFINE T == {k \in Nat : k <= n => W[n - k] \in Y}
<1>5. 0 \in T
  <2>1. n - 0 = n
    BY <1>1
  <2> QED
    BY <1>3, <2>1
<1>6. ASSUME NEW k \in Nat, k \in T
      PROVE  k + 1 \in T
  <2> SUFFICES ASSUME k + 1 <= n
               PROVE  W[n - (k + 1)] \in Y
    OBVIOUS
  <2>1. n - k \in 1..n /\ (n - k) - 1 = n - (k + 1) /\ k <= n
    BY <1>1
  <2>2. W[n - k] \in Y
    BY <1>6, <2>1
  <2>3. W[(n - k) - 1] \in Y
    BY <1>4, <2>1, <2>2
  <2> QED
    BY <2>1, <2>3
<1>7. Nat \subseteq T
  <2> HIDE DEF T
  <2> QED
    BY <1>5, <1>6, Induction
<1> HIDE DEF Y, m, ae
<1>8. ASSUME NEW i \in 1..n
      PROVE  W[i] \in Y
  <2>1. n - i \in Nat /\ n - i <= n /\ n - (n - i) = i
    BY <1>1
  <2>2. W[n - (n - i)] \in Y
    BY <1>7, <2>1
  <2> QED
    BY <2>1, <2>2
<1>9. us \in Seq(Tx) /\ Len(us) = n
  <2>1. us \in [1..n -> Tx]
    BY <1>2, <1>4, <1>8
  <2> QED
    BY <1>1, <2>1, LenProperties
<1>10. \A i \in 1..n : us[i] = Packed(ts[i], live)
  BY <1>2
<1> DEFINE V == [i \in 0..n |-> Via(m, W[i])]
<1>11. V[Len(us)] = Via(m, d)
  BY <1>1, <1>3, <1>9
<1>12. ASSUME NEW i \in 1..Len(us)
       PROVE  Links(us[i], V[i - 1], V[i], ae)
  <2>1. i \in 1..n /\ i \in 0..n /\ i - 1 \in 0..n
    BY <1>1, <1>9
  <2>2. V[i] = Via(m, W[i]) /\ V[i - 1] = Via(m, W[i - 1])
    BY <2>1
  <2> HIDE DEF V
  <2>3. Links(Packed(ts[i], live), Via(m, W[i - 1]), Via(m, W[i]), ae)
    BY <1>4, <1>8, <2>1
  <2> QED
    BY <1>10, <2>1, <2>2, <2>3
<1> HIDE DEF V
<1>13. Chain("undo", us, Via(m, d), ae)
  BY <1>11, <1>12 DEF Chain, Joins
<1> QED
  BY <1>9, <1>10, <1>13 DEF us, n, m, ae

LEMMA RefsWithin ==
  ASSUME NEW Y \in SUBSET Ref, NEW Z \in SUBSET AnyPiece, \A p \in Z : Cells(p) \in Seq(Y)
  PROVE  \A ps \in Seq(Z) : Refs(ps) \in Seq(Y)
<1> DEFINE T == {s \in Seq(Z) : Refs(s) \in Seq(Y)}
<1>1. <<>> \in T
  <2>1. NoPieces \in Seq(Z) /\ NoRefs \in Seq(Y) /\ Refs(NoPieces) = NoRefs
    BY RefsEmpty DEF NoPieces, NoRefs
  <2>2. NoPieces \in T
    BY <2>1
  <2> HIDE DEF T
  <2> QED
    BY <2>2 DEF NoPieces
<1>2. ASSUME NEW s \in Seq(Z), NEW e \in Z, s \in T
      PROVE  Append(s, e) \in T
  <2>1. s \in Seq(AnyPiece) /\ e \in AnyPiece /\ Append(s, e) \in Seq(Z)
    OBVIOUS
  <2>2. Refs(Append(s, e)) = Cat(Refs(s), Cells(e))
    BY <2>1, RefsAppend
  <2>3. Refs(s) \in Seq(Y) /\ Cells(e) \in Seq(Y)
    BY <1>2
  <2>4. Cat(Refs(s), Cells(e)) \in Seq(Y)
    BY <2>3, CatIn
  <2> QED
    BY <2>1, <2>2, <2>4
<1>3. Seq(Z) \subseteq T
  <2> HIDE DEF T
  <2> QED
    BY <1>1, <1>2, SeqInduction
<1> QED
  BY <1>3

LEMMA OffsetsAre ==
  ASSUME NEW ad \in Texts, NEW all \in SUBSET Fits(ad)
  PROVE  AddOffsets(all) \in Lives(Len(ad))
<1> SUFFICES ASSUME NEW p \in all, p.src = "Add", p.len > 0, NEW o \in p.start..(p.start + p.len - 1)
             PROVE  o \in 0..Len(ad) - 1
  BY DEF AddOffsets, Lives
<1>1. p \in AnyPiece /\ p.start + p.len <= Len(ad)
  BY DEF Fits, Source
<1>2. p.start \in Nat /\ p.len \in Nat /\ Len(ad) \in Nat
  BY <1>1, PieceOf, LenProperties DEF Texts
<1> QED
  BY <1>1, <1>2

\* The pieces a compaction looks at stay readable.
LEMMA LiveStay ==
  ASSUME NEW ad \in Texts, NEW all, NEW ps \in Seq(Kept), Refs(ps) \in Seq(Bounds(ad)),
         ToSet(ps) \subseteq all
  PROVE  Refs(ps) \in Seq(Stay(AddOffsets(all)))
<1> DEFINE Y == Stay(AddOffsets(all))
           Z == {p \in Fits(ad) : p \in all}
<1>1. Y \in SUBSET Ref /\ Z \in SUBSET AnyPiece
  BY FitsAreAny DEF Stay
<1>2. ASSUME NEW p \in Z
      PROVE  Cells(p) \in Seq(Y)
  <2>1. p \in AnyPiece /\ p \in all /\ p.start + p.len <= Len(Source(p.src, ad))
    BY DEF Fits
  <2>2. p.src \in Sources /\ p.start \in Nat /\ p.len \in Nat
    BY <2>1, PieceOf
  <2>3. /\ Cells(p) \in Seq(Ref) /\ Len(Cells(p)) = p.len
        /\ \A k \in 1..p.len : Cells(p)[k] = <<p.src, p.start + (k - 1)>>
    BY <2>1, CellsAt
  <2>4. ASSUME NEW k \in 1..p.len
        PROVE  <<p.src, p.start + (k - 1)>> \in Y
    <3>1. p.start + (k - 1) \in Nat /\ p.start + (k - 1) < p.start + p.len /\ p.len > 0
          /\ p.start + (k - 1) \in p.start..(p.start + p.len - 1)
      BY <2>2
    <3>2. <<p.src, p.start + (k - 1)>> \in Ref
      BY <2>2, <3>1 DEF Ref
    <3>3. CASE p.src = "Add"
      <4>1. p.start + (k - 1) \in AddOffsets(all)
        BY <2>1, <3>1, <3>3 DEF AddOffsets
      <4> QED
        BY <3>2, <3>3, <4>1 DEF Stay
    <3>4. CASE p.src # "Add"
      <4>1. p.start + p.len <= Len(Original)
        BY <2>1, <3>4 DEF Source
      <4>2. Len(Original) \in Nat
        BY PieceTableAssumption, LenProperties
      <4>3. p.start + (k - 1) < Len(Original)
        BY <2>2, <3>1, <4>1, <4>2
      <4> QED
        BY <3>2, <3>4, <4>3 DEF Stay
    <3> QED
      BY <3>3, <3>4
  <2> HIDE DEF Y
  <2> DEFINE c == Cells(p)
  <2>6. c = [k \in 1..p.len |-> <<p.src, p.start + (k - 1)>>]
    BY DEF Cells
  <2> HIDE DEF c
  <2>5. c \in [1..p.len -> Y]
    BY <2>4, <2>6
  <2> QED
    BY <2>2, <2>5 DEF c
<1>3. ps \in Seq(Z)
  <2>1. ps \in Seq(Fits(ad))
    BY FitsAre
  <2>2. Len(ps) \in Nat /\ \A k \in 1..Len(ps) : ps[k] \in Fits(ad) /\ ps[k] \in ToSet(ps)
    BY <2>1, LenProperties, ElementOfSeq DEF ToSet
  <2>3. \A k \in 1..Len(ps) : ps[k] \in Z
    BY <2>2
  <2> QED
    BY <2>3, AllIn
<1> HIDE DEF Y, Z
<1>4. Refs(ps) \in Seq(Y)
  BY <1>1, <1>2, <1>3, RefsWithin
<1> QED
  BY <1>4 DEF Y
-----------------------------------------------------------------------------
(* What the history is charged for. *)

TxBytes == [t \in Tx |-> t.bytes]
TxAddBytes == [t \in Tx |-> t.addBytes]

LEMMA SumBytesIs ==
  ASSUME NEW s \in Seq(Tx)
  PROVE  SumBytes(s) = Total(TxBytes, Tx, s)
<1> DEFINE n == Len(s)
           Step(f, k) == IF k = 0 THEN 0 ELSE f[k - 1] + s[k].bytes
           acc == CHOOSE f : f = [k \in 0..n |-> Step(f, k)]
<1>1. n \in Nat /\ \A k \in 1..n : s[k] \in Tx
  BY LenProperties, ElementOfSeq
<1>2. TxBytes \in Weights(Tx) /\ \A k \in 1..n : TxBytes[s[k]] = s[k].bytes
  BY <1>1 DEF TxBytes, Tx, Weights
<1>3. PICK r : r = [k \in 0..n |-> IF k = 0 THEN 0 ELSE r[k - 1] + TxBytes[s[k]]]
  BY <1>2, TotalUnfolds
<1>4. SumBytes(s) = acc[n]
  BY DEF SumBytes, SumOver
<1> HIDE DEF n
<1>5. \A k \in 0..n : k = 0 \/ (k \in 1..n /\ k # 0)
  BY <1>1
<1>6. \A k \in 0..n : Step(r, k) = IF k = 0 THEN 0 ELSE r[k - 1] + TxBytes[s[k]]
  BY <1>2, <1>5
<1> HIDE DEF Step
<1>7. r = [k \in 0..n |-> Step(r, k)]
  BY <1>3, <1>6
<1>8. acc = [k \in 0..n |-> Step(acc, k)]
  BY <1>7, Zenon
<1> HIDE DEF acc
<1>9. acc[0] = 0 /\ \A k \in 1..n : acc[k] = acc[k - 1] + TxBytes[s[k]]
  <2>1. 0 \in 0..n /\ \A k \in 1..n : k \in 0..n /\ k # 0
    BY <1>1
  <2>2. acc[0] = Step(acc, 0) /\ \A k \in 1..n : acc[k] = Step(acc, k)
    BY <1>8, <2>1
  <2>3. Step(acc, 0) = 0 /\ \A k \in 1..n : Step(acc, k) = acc[k - 1] + TxBytes[s[k]]
    BY <1>2, <2>1 DEF Step
  <2> QED
    BY <2>2, <2>3
<1>10. acc[n] = Total(TxBytes, Tx, s)
  BY <1>2, <1>9, TotalIs DEF n
<1> QED
  BY <1>4, <1>10

LEMMA SumAddBytesIs ==
  ASSUME NEW s \in Seq(Tx)
  PROVE  SumAddBytes(s) = Total(TxAddBytes, Tx, s)
<1> DEFINE n == Len(s)
           Step(f, k) == IF k = 0 THEN 0 ELSE f[k - 1] + s[k].addBytes
           acc == CHOOSE f : f = [k \in 0..n |-> Step(f, k)]
<1>1. n \in Nat /\ \A k \in 1..n : s[k] \in Tx
  BY LenProperties, ElementOfSeq
<1>2. TxAddBytes \in Weights(Tx) /\ \A k \in 1..n : TxAddBytes[s[k]] = s[k].addBytes
  BY <1>1 DEF TxAddBytes, Tx, Weights
<1>3. PICK r : r = [k \in 0..n |-> IF k = 0 THEN 0 ELSE r[k - 1] + TxAddBytes[s[k]]]
  BY <1>2, TotalUnfolds
<1>4. SumAddBytes(s) = acc[n]
  BY DEF SumAddBytes, SumOver
<1> HIDE DEF n
<1>5. \A k \in 0..n : k = 0 \/ (k \in 1..n /\ k # 0)
  BY <1>1
<1>6. \A k \in 0..n : Step(r, k) = IF k = 0 THEN 0 ELSE r[k - 1] + TxAddBytes[s[k]]
  BY <1>2, <1>5
<1> HIDE DEF Step
<1>7. r = [k \in 0..n |-> Step(r, k)]
  BY <1>3, <1>6
<1>8. acc = [k \in 0..n |-> Step(acc, k)]
  BY <1>7, Zenon
<1> HIDE DEF acc
<1>9. acc[0] = 0 /\ \A k \in 1..n : acc[k] = acc[k - 1] + TxAddBytes[s[k]]
  <2>1. 0 \in 0..n /\ \A k \in 1..n : k \in 0..n /\ k # 0
    BY <1>1
  <2>2. acc[0] = Step(acc, 0) /\ \A k \in 1..n : acc[k] = Step(acc, k)
    BY <1>8, <2>1
  <2>3. Step(acc, 0) = 0 /\ \A k \in 1..n : Step(acc, k) = acc[k - 1] + TxAddBytes[s[k]]
    BY <1>2, <2>1 DEF Step
  <2> QED
    BY <2>2, <2>3
<1>10. acc[n] = Total(TxAddBytes, Tx, s)
  BY <1>2, <1>9, TotalIs DEF n
<1> QED
  BY <1>4, <1>10
LEMMA SumsIn ==
  ASSUME NEW ts \in Seq(Tx)
  PROVE  SumBytes(ts) \in Nat /\ SumAddBytes(ts) \in Nat
<1>1. TxBytes \in Weights(Tx) /\ TxAddBytes \in Weights(Tx)
  BY DEF TxBytes, TxAddBytes, Tx, Weights
<1>2. Total(TxBytes, Tx, ts) \in Nat /\ Total(TxAddBytes, Tx, ts) \in Nat
  BY <1>1, TotalFacts
<1> QED
  BY <1>2, SumBytesIs, SumAddBytesIs

\* A prune comes to an end, within the limit of transactions, and spares the newest.
Enough(u, bytes, k) ==
  Len(u) - k <= MaxTransactions /\ bytes - SumBytes(SubSeq(u, 1, k)) <= MaxBytes
Pruned(u, bytes, k) ==
  /\ k \in 0..Len(u) - 1
  /\ k = Len(u) - 1 \/ Enough(u, bytes, k)
  /\ \A j \in 0..k - 1 : ~Enough(u, bytes, j)

LEMMA DropCountIs ==
  ASSUME NEW u \in Seq(Tx), u # <<>>, NEW bytes \in Int
  PROVE  /\ Pruned(u, bytes, DropCount(u, bytes)) /\ DropCount(u, bytes) \in 0..Len(u) - 1
         /\ Len(u) - DropCount(u, bytes) <= MaxTransactions
<1> DEFINE n == Len(u)
           Over(j) == \/ n - j > MaxTransactions
                      \/ bytes - SumBytes(SubSeq(u, 1, j)) > MaxBytes
           P(k) == /\ \/ k = n - 1
                      \/ n - k <= MaxTransactions /\ bytes - SumBytes(SubSeq(u, 1, k)) <= MaxBytes
                   /\ \A j \in 0..k - 1 : Over(j)
           c == DropCount(u, bytes)
<1>1. n \in Nat /\ n > 0
  BY EmptySeq, LenProperties
<1>2. MaxTransactions \in Nat /\ MaxTransactions > 0 /\ MaxBytes \in Nat
  BY PieceTableAssumption
<1>3. ASSUME NEW j \in 0..n - 1
      PROVE  Over(j) <=> ~Enough(u, bytes, j)
  <2>1. j \in 0..Len(u)
    BY <1>1
  <2>2. SubSeq(u, 1, j) \in Seq(Tx)
    BY <2>1, PrefixAt
  <2>3. SumBytes(SubSeq(u, 1, j)) \in Nat
    BY <2>2, SumsIn
  <2> DEFINE b == SumBytes(SubSeq(u, 1, j))
  <2>4. (n - j <= MaxTransactions <=> ~(n - j > MaxTransactions))
        /\ (bytes - b <= MaxBytes <=> ~(bytes - b > MaxBytes))
    <3>1. b \in Nat
      BY <2>3
    <3> HIDE DEF b, n
    <3> QED
      BY <1>1, <1>2, <3>1
  <2> QED
    BY <2>4 DEF Enough
<1>4. c = CHOOSE k \in 0..n - 1 : P(k)
  BY DEF DropCount
<1>5. ASSUME NEW k \in 0..n - 1
      PROVE  P(k) <=> Pruned(u, bytes, k)
  <2>1. \A j \in 0..k - 1 : j \in 0..n - 1
    BY <1>1
  <2>2. (\A j \in 0..k - 1 : Over(j)) <=> \A j \in 0..k - 1 : ~Enough(u, bytes, j)
    BY <1>3, <2>1
  <2> HIDE DEF Over
  <2> QED
    BY <2>2 DEF Pruned, Enough
<1> HIDE DEF P, Over
<1>6. \E k \in 0..n - 1 : Pruned(u, bytes, k)
  <2> DEFINE T == {i \in 1..n : i = n \/ Enough(u, bytes, i - 1)}
  <2>1. T \in SUBSET (1..n) /\ n \in T
    BY <1>1
  <2>2. PICK i \in T : \A j \in T : i <= j
    <3> HIDE DEF T, n
    <3> QED
      BY <1>1, <2>1, LeastPlace
  <2>3. i \in 1..n /\ (i = n \/ Enough(u, bytes, i - 1)) /\ \A j \in 1..n : j < i => ~Enough(u, bytes, j - 1)
    BY <1>1, <2>2
  <2> HIDE DEF T
  <2>4. ASSUME NEW j \in 0..(i - 1) - 1
        PROVE  ~Enough(u, bytes, j)
    <3>1. j + 1 \in 1..n /\ j + 1 < i /\ (j + 1) - 1 = j
      BY <1>1, <2>3
    <3> QED
      BY <2>3, <3>1
  <2>5. i - 1 \in 0..n - 1 /\ (i - 1 = n - 1 \/ Enough(u, bytes, i - 1))
    BY <1>1, <2>3
  <2> QED
    BY <2>4, <2>5 DEF Pruned
<1>7. \E k \in 0..n - 1 : P(k)
  BY <1>5, <1>6
<1>8. c \in 0..n - 1 /\ P(c)
  BY <1>4, <1>7, Zenon
<1>9. Pruned(u, bytes, c)
  BY <1>5, <1>8
<1>10. n - c <= MaxTransactions
  <2>1. c = n - 1 \/ n - c <= MaxTransactions
    BY <1>9 DEF Pruned, Enough
  <2> HIDE DEF c, n
  <2> QED
    BY <1>1, <1>2, <1>8, <2>1
<1> QED
  BY <1>8, <1>9, <1>10
-----------------------------------------------------------------------------
(* The abstract history of transactions, and the pieces they hold. *)

AbstractOf(t) == [id |-> t.id, before |-> t.docBefore, after |-> t.docAfter]
AbstractTx == [id : Nat, before : Texts, after : Texts]

LEMMA AbstractIs ==
  ASSUME NEW ts \in Seq(Tx)
  PROVE  /\ Abstract(ts) \in Seq(AbstractTx) /\ Len(Abstract(ts)) = Len(ts) /\ Len(ts) \in Nat
         /\ \A i \in 1..Len(ts) : Abstract(ts)[i] = AbstractOf(ts[i])
<1>1. Len(ts) \in Nat /\ \A i \in 1..Len(ts) : ts[i] \in Tx
  BY LenProperties, ElementOfSeq
<1>2. Abstract(ts) = [i \in 1..Len(ts) |-> AbstractOf(ts[i])]
  BY DEF Abstract, AbstractOf
<1>3. \A i \in 1..Len(ts) : AbstractOf(ts[i]) \in AbstractTx
  BY <1>1 DEF AbstractOf, AbstractTx, Tx
<1> DEFINE n == Len(ts)
           a == Abstract(ts)
<1> HIDE DEF n, a
<1>4. a \in [1..n -> AbstractTx] /\ \A i \in 1..n : a[i] = AbstractOf(ts[i])
  BY <1>2, <1>3 DEF a, n
<1>5. a \in Seq(AbstractTx) /\ Len(a) = n
  BY <1>1, <1>4, LenProperties DEF n
<1> QED
  BY <1>1, <1>4, <1>5 DEF a, n

LEMMA AbstractAppend ==
  ASSUME NEW ts \in Seq(Tx), NEW t \in Tx
  PROVE  Abstract(Append(ts, t)) = Append(Abstract(ts), AbstractOf(t))
<1> DEFINE us == Append(ts, t)
           a == Abstract(ts)
           b == Abstract(us)
           c == Append(a, AbstractOf(t))
<1>1. us \in Seq(Tx) /\ Len(ts) \in Nat /\ Len(us) = Len(ts) + 1
      /\ (\A i \in 1..Len(ts) : us[i] = ts[i]) /\ us[Len(ts) + 1] = t
  BY AppendAt
<1> HIDE DEF us
<1>2. b \in Seq(AbstractTx) /\ Len(b) = Len(us) /\ \A i \in 1..Len(us) : b[i] = AbstractOf(us[i])
  BY <1>1, AbstractIs
<1>3. a \in Seq(AbstractTx) /\ Len(a) = Len(ts) /\ \A i \in 1..Len(ts) : a[i] = AbstractOf(ts[i])
  BY AbstractIs
<1> HIDE DEF a, b
<1>4. AbstractOf(t) \in AbstractTx
  BY DEF AbstractOf, AbstractTx, Tx
<1>5. c \in Seq(AbstractTx) /\ Len(c) = Len(ts) + 1
      /\ (\A i \in 1..Len(ts) : c[i] = a[i]) /\ c[Len(ts) + 1] = AbstractOf(t)
  BY <1>3, <1>4, AppendAt
<1> HIDE DEF c
<1>6. \A i \in 1..Len(b) : b[i] = c[i]
  <2> SUFFICES ASSUME NEW i \in 1..Len(b)
               PROVE  b[i] = c[i]
    OBVIOUS
  <2>1. i \in 1..Len(us) /\ (i \in 1..Len(ts) \/ i = Len(ts) + 1)
    BY <1>1, <1>2
  <2>2. CASE i \in 1..Len(ts)
    BY <1>1, <1>2, <1>3, <1>5, <2>1, <2>2
  <2>3. CASE i = Len(ts) + 1
    BY <1>1, <1>2, <1>5, <2>1, <2>3
  <2> QED
    BY <2>1, <2>2, <2>3
<1>7. b = c
  BY <1>1, <1>2, <1>5, <1>6, SeqEqual
<1> QED
  BY <1>7 DEF b, c, a, us

LEMMA AbstractSuffix ==
  ASSUME NEW ts \in Seq(Tx), NEW k \in 0..Len(ts)
  PROVE  Abstract(SubSeq(ts, k + 1, Len(ts))) = SubSeq(Abstract(ts), k + 1, Len(ts))
<1> DEFINE n == Len(ts)
           us == SubSeq(ts, k + 1, n)
           a == Abstract(ts)
           b == Abstract(us)
           c == SubSeq(a, k + 1, n)
<1>1. us \in Seq(Tx) /\ n \in Nat /\ Len(us) = n - k /\ \A i \in 1..n - k : us[i] = ts[k + i]
  BY SuffixAt, LenProperties
<1>2. a \in Seq(AbstractTx) /\ Len(a) = n /\ \A i \in 1..n : a[i] = AbstractOf(ts[i])
  BY AbstractIs
<1>7. k \in 0..n
  OBVIOUS
<1> HIDE DEF n, us, a
<1>3. b \in Seq(AbstractTx) /\ Len(b) = Len(us) /\ \A i \in 1..Len(us) : b[i] = AbstractOf(us[i])
  BY <1>1, AbstractIs
<1>4. c \in Seq(AbstractTx) /\ Len(c) = n - k /\ \A i \in 1..n - k : c[i] = a[k + i]
  BY <1>2, <1>7, SuffixAt
<1> HIDE DEF b, c
<1>5. \A i \in 1..Len(b) : b[i] = c[i]
  <2> SUFFICES ASSUME NEW i \in 1..Len(b)
               PROVE  b[i] = c[i]
    OBVIOUS
  <2>1. i \in 1..n - k /\ k + i \in 1..n /\ i \in 1..Len(us)
    BY <1>1, <1>3, <1>7
  <2> QED
    BY <1>1, <1>2, <1>3, <1>4, <2>1
<1>6. b = c
  BY <1>1, <1>3, <1>4, <1>5, SeqEqual
<1> QED
  BY <1>6 DEF b, c, a, us, n

LEMMA AbstractPacked ==
  ASSUME NEW ts \in Seq(Tx), NEW us \in Seq(Tx), NEW live, Len(us) = Len(ts),
         \A i \in 1..Len(ts) : us[i] = Packed(ts[i], live)
  PROVE  Abstract(us) = Abstract(ts)
<1>1. \A i \in 1..Len(ts) : AbstractOf(us[i]) = AbstractOf(ts[i])
  <2> SUFFICES ASSUME NEW i \in 1..Len(ts)
               PROVE  AbstractOf(us[i]) = AbstractOf(ts[i])
    OBVIOUS
  <2>1. ts[i] \in Tx /\ us[i] = Packed(ts[i], live)
    BY ElementOfSeq
  <2> QED
    BY <2>1 DEF AbstractOf, Packed, Tx
<1>2. Abstract(us) = [i \in 1..Len(ts) |-> AbstractOf(us[i])]
  BY DEF Abstract, AbstractOf
<1>3. Abstract(ts) = [i \in 1..Len(ts) |-> AbstractOf(ts[i])]
  BY DEF Abstract, AbstractOf
<1> QED
  BY <1>1, <1>2, <1>3

\* What the pieces of the history refer to is in their sources.
LEMMA ChainHolds ==
  ASSUME NEW side, NEW ts \in Seq(Tx), NEW d, NEW ad \in Texts, Chain(side, ts, d, ad)
  PROVE  /\ \A i \in 1..Len(ts) : ts[i].edits \in Seq(Edits) /\ Holds(ts[i].edits, Bounds(ad))
         /\ PiecesOf(ts) \subseteq Fits(ad)
<1>1. \A i \in 1..Len(ts) : ts[i] \in Tx /\ ts[i].edits \in Seq(Edits)
  <2>1. \A i \in 1..Len(ts) : ts[i] \in Tx
    BY ElementOfSeq
  <2> QED
    BY <2>1 DEF Tx
<1>2. \A i \in 1..Len(ts) : Holds(ts[i].edits, Bounds(ad))
  BY DEF Chain, Joins, Links
<1>3. ASSUME NEW i \in 1..Len(ts), NEW j \in 1..Len(ts[i].edits)
      PROVE  ToSet(ts[i].edits[j].pieces) \subseteq Fits(ad)
  <2> DEFINE e == ts[i].edits[j]
  <2>1. e \in Edits /\ Refs(e.pieces) \in Seq(Bounds(ad))
    BY <1>1, <1>2, ElementOfSeq DEF Holds
  <2> HIDE DEF e
  <2>2. e.pieces \in Seq(Kept)
    BY <2>1 DEF Edits
  <2>3. e.pieces \in Seq(Fits(ad))
    BY <2>1, <2>2, FitsAre
  <2>4. \A k \in 1..Len(e.pieces) : e.pieces[k] \in Fits(ad)
    BY <2>3, ElementOfSeq
  <2> QED
    BY <2>4 DEF ToSet, e
<1>4. \A t \in ToSet(ts) : \E i \in 1..Len(ts) : t = ts[i]
  BY DEF ToSet
<1>5. \A i \in 1..Len(ts) : \A e \in ToSet(ts[i].edits) : \E j \in 1..Len(ts[i].edits) : e = ts[i].edits[j]
  BY DEF ToSet
<1>6. PiecesOf(ts) \subseteq Fits(ad)
  <2> SUFFICES ASSUME NEW p \in PiecesOf(ts)
               PROVE  p \in Fits(ad)
    OBVIOUS
  <2>1. PICK t \in ToSet(ts) : \E e \in ToSet(t.edits) : p \in ToSet(e.pieces)
    BY DEF PiecesOf
  <2>2. PICK i \in 1..Len(ts) : t = ts[i]
    BY <1>4
  <2>3. PICK e \in ToSet(ts[i].edits) : p \in ToSet(e.pieces)
    BY <2>1, <2>2
  <2>4. PICK j \in 1..Len(ts[i].edits) : e = ts[i].edits[j]
    BY <1>5
  <2> QED
    BY <1>3, <2>3, <2>4
<1> QED
  BY <1>1, <1>2, <1>6

LEMMA HistoryStays ==
  ASSUME NEW ts \in Seq(Tx), NEW d, NEW ad \in Texts, Chain("undo", ts, d, ad), NEW all,
         PiecesOf(ts) \subseteq all
  PROVE  \A i \in 1..Len(ts) : Holds(ts[i].edits, Stay(AddOffsets(all)))
<1> SUFFICES ASSUME NEW i \in 1..Len(ts), NEW j \in 1..Len(ts[i].edits)
             PROVE  Refs(ts[i].edits[j].pieces) \in Seq(Stay(AddOffsets(all)))
  BY DEF Holds
<1> DEFINE e == ts[i].edits[j]
<1>1. ts[i].edits \in Seq(Edits) /\ Holds(ts[i].edits, Bounds(ad))
  BY ChainHolds
<1>2. e \in Edits /\ Refs(e.pieces) \in Seq(Bounds(ad))
  BY <1>1, ElementOfSeq DEF Holds
<1>3. ts[i] \in ToSet(ts) /\ e \in ToSet(ts[i].edits)
  BY DEF ToSet
<1>4. ToSet(e.pieces) \subseteq all
  BY <1>3 DEF PiecesOf
<1> HIDE DEF e
<1>5. e.pieces \in Seq(Kept)
  BY <1>2 DEF Edits
<1>6. Refs(e.pieces) \in Seq(Stay(AddOffsets(all)))
  BY <1>2, <1>4, <1>5, LiveStay
<1> QED
  BY <1>6 DEF e
-----------------------------------------------------------------------------
(* The end of an edit. *)

\* A prune to what the abstract history keeps of u.
Shortened(u, k) ==
  /\ k \in 0..Len(u) - 1 /\ Len(u) - k <= MaxTransactions
  /\ Abstract(undo') = SubSeq(Abstract(u), k + 1, Len(u))
  /\ baseId' = IF k = 0 THEN baseId ELSE Abstract(u)[k].id

LEMMA CommitIs ==
  ASSUME NEW u \in Seq(Tx), u # <<>>, NEW bytes \in Int, NEW ps, NEW ad \in Texts, NEW run,
         Good(ps, ad), Chain("undo", u, Refs(ps), ad), Commit(u, bytes, ps, ad, run)
  PROVE  /\ add' \in Texts /\ Good(pieces', add') /\ Len(Refs(pieces')) = Len(Refs(ps))
         /\ Text(pieces', add') = Text(ps, ad)
         /\ undo' \in Seq(Tx) /\ undo' # <<>> /\ redo' = <<>>
         /\ Chain("undo", undo', Refs(pieces'), add')
         /\ retained' \in Int
         /\ \E k : Shortened(u, k)
<1> DEFINE k     == DropCount(u, bytes)
           gone  == SubSeq(u, 1, k)
           kept  == SubSeq(u, k + 1, Len(u))
           lost  == Lost(gone)
           check == lost >= CompactMin /\ Len(ad) >= CompactMin
           all   == ToSet(ps) \cup PiecesOf(kept)
           live  == AddOffsets(all)
           free  == Len(ad) - Cardinality(live)
           pack  == check /\ free >= CompactMin /\ free >= (Len(ad) + 3) \div 4
           m     == Shift(live)
           D     == Refs(ps)
<1>1. /\ redo' = <<>>
      /\ undo' = IF pack THEN RebaseHistory(kept, live) ELSE kept
      /\ pieces' = IF pack THEN RebaseAll(ps, live) ELSE ps
      /\ add' = IF pack THEN KeepLive(ad, live) ELSE ad
      /\ baseId' = IF k = 0 THEN baseId ELSE u[k].id
      /\ retained' = bytes - SumBytes(gone)
  BY DEF Commit
<1> HIDE DEF pack, live
<1>2. k \in 0..Len(u) - 1 /\ Len(u) - k <= MaxTransactions
  BY DropCountIs
<1> HIDE DEF k
<1>3. Len(u) \in Nat /\ k \in 0..Len(u) /\ Len(u) - k > 0
  BY <1>2, LenProperties
<1>4. gone \in Seq(Tx) /\ kept \in Seq(Tx) /\ Len(kept) = Len(u) - k
  BY <1>3, PrefixAt, SuffixAt
<1>5. retained' \in Int
  <2>1. SumBytes(gone) \in Nat
    BY <1>4, SumsIn
  <2> HIDE DEF gone
  <2> QED
    BY <1>1, <2>1
<1>6. Chain("undo", kept, D, ad)
  BY <1>3, ChainSuffix
<1>7. Abstract(kept) = SubSeq(Abstract(u), k + 1, Len(u))
  BY <1>3, AbstractSuffix
<1>8. baseId' = IF k = 0 THEN baseId ELSE Abstract(u)[k].id
  <2>1. k # 0 => k \in 1..Len(u)
    BY <1>3
  <2>3. k # 0 => Abstract(u)[k] = AbstractOf(u[k])
    BY <2>1, AbstractIs
  <2>2. k # 0 => Abstract(u)[k].id = u[k].id
    BY <2>3 DEF AbstractOf
  <2> QED
    BY <1>1, <2>2
<1> HIDE DEF kept, gone
<1>9. kept # <<>>
  BY <1>3, <1>4, EmptySeq
<1>10. ps \in Seq(Kept) /\ ps # <<>> /\ Refs(ps) \in Seq(Bounds(ad))
  BY DEF Good, Docs
<1>11. CASE pack
  <2>1. all \subseteq Fits(ad)
    <3>1. ps \in Seq(Fits(ad))
      BY <1>10, FitsAre
    <3>2. \A i \in 1..Len(ps) : ps[i] \in Fits(ad)
      BY <3>1, ElementOfSeq
    <3>3. ToSet(ps) \subseteq Fits(ad)
      BY <3>2 DEF ToSet
    <3>4. PiecesOf(kept) \subseteq Fits(ad)
      BY <1>4, <1>6, ChainHolds
    <3> QED
      BY <3>3, <3>4
  <2>2. ToSet(ps) \subseteq all /\ PiecesOf(kept) \subseteq all
    OBVIOUS
  <2> HIDE DEF all
  <2>3. live \in Lives(Len(ad))
    BY <2>1, OffsetsAre DEF live
  <2>4. D \in Seq(Stay(live))
    BY <1>10, <2>2, LiveStay DEF live
  <2>5. \A i \in 1..Len(kept) : Holds(kept[i].edits, Stay(live))
    BY <1>4, <1>6, <2>2, HistoryStays DEF live
  <2> DEFINE ae == KeepLive(ad, live)
             qs == RebaseAll(ps, live)
             us == RebaseHistory(kept, live)
  <2>6. /\ Ranks(live) /\ ae \in Texts /\ Stay(live) \in SUBSET Ref
        /\ Via(m, D) \in Seq(Bounds(ae)) /\ Read(Via(m, D), ae) = Read(D, ad)
    BY <2>3, <2>4, StayReads
  <2>7. qs \in Seq(Kept) /\ Len(qs) = Len(ps) /\ Refs(qs) = Via(m, D)
    BY <1>10, <2>4, <2>6, RebaseAllIs
  <2>8. /\ us \in Seq(Tx) /\ Len(us) = Len(kept)
        /\ \A i \in 1..Len(kept) : us[i] = Packed(kept[i], live)
        /\ Chain("undo", us, Via(m, D), ae)
    BY <1>4, <1>6, <2>3, <2>4, <2>5, ChainPacked
  <2>9. Abstract(us) = Abstract(kept)
    BY <1>4, <2>8, AbstractPacked
  <2>10. undo' = us /\ pieces' = qs /\ add' = ae
    BY <1>1, <1>11
  <2> HIDE DEF ae, qs, us
  <2>11. us # <<>>
    BY <1>3, <1>4, <2>8, EmptySeq
  <2>12. qs # <<>>
    BY <1>10, <2>7, EmptySeq
  <2>13. Good(qs, ae)
    BY <2>6, <2>7, <2>12 DEF Good, Docs
  <2>14. Len(Refs(qs)) = Len(Refs(ps))
    <3>1. m \in Renames /\ D \in Seq(Ref)
      BY <2>4, <2>6, ShiftIs
    <3> QED
      BY <2>7, <3>1, ViaIs
  <2>15. Text(qs, ae) = Text(ps, ad)
    BY <2>6, <2>7, <2>13, GoodReads
  <2>16. Shortened(u, k)
    BY <1>2, <1>7, <1>8, <2>9, <2>10 DEF Shortened
  <2> QED
    BY <1>1, <1>5, <2>6, <2>7, <2>8, <2>10, <2>11, <2>13, <2>14, <2>15, <2>16
<1>12. CASE ~pack
  <2>1. undo' = kept /\ pieces' = ps /\ add' = ad
    BY <1>1, <1>12
  <2>2. Shortened(u, k)
    BY <1>2, <1>7, <1>8, <2>1 DEF Shortened
  <2> QED
    BY <1>1, <1>4, <1>5, <1>6, <1>9, <2>1, <2>2
<1> QED
  BY <1>11, <1>12
-----------------------------------------------------------------------------
(* What an edit is charged for. *)

PieceAdds == [p \in AnyPiece |-> IF p.src = "Add" THEN p.len ELSE 0]

LEMMA PieceAddsIn == PieceAdds \in Weights(AnyPiece)
<1>1. \A p \in AnyPiece : (IF p.src = "Add" THEN p.len ELSE 0) \in Nat
  BY PieceOf
<1> QED
  BY <1>1 DEF PieceAdds, Weights

LEMMA AddLenIs ==
  ASSUME NEW s \in Seq(AnyPiece)
  PROVE  AddLen(s) = Total(PieceAdds, AnyPiece, s)
<1> DEFINE n == Len(s)
           Step(f, k) == IF k = 0 THEN 0 ELSE f[k - 1] + (IF s[k].src = "Add" THEN s[k].len ELSE 0)
           acc == CHOOSE f : f = [k \in 0..n |-> Step(f, k)]
<1>1. n \in Nat /\ \A k \in 1..n : s[k] \in AnyPiece
  BY LenProperties, ElementOfSeq
<1>2. PieceAdds \in Weights(AnyPiece) /\ \A k \in 1..n : PieceAdds[s[k]] = (IF s[k].src = "Add" THEN s[k].len ELSE 0)
  BY <1>1, PieceAddsIn DEF PieceAdds
<1>3. PICK r : r = [k \in 0..n |-> IF k = 0 THEN 0 ELSE r[k - 1] + PieceAdds[s[k]]]
  BY <1>2, TotalUnfolds
<1>4. AddLen(s) = acc[n]
  BY DEF AddLen, SumOver
<1> HIDE DEF n
<1>5. \A k \in 0..n : k = 0 \/ (k \in 1..n /\ k # 0)
  BY <1>1
<1>6. \A k \in 0..n : Step(r, k) = IF k = 0 THEN 0 ELSE r[k - 1] + PieceAdds[s[k]]
  BY <1>2, <1>5
<1> HIDE DEF Step
<1>7. r = [k \in 0..n |-> Step(r, k)]
  BY <1>3, <1>6
<1>8. acc = [k \in 0..n |-> Step(acc, k)]
  BY <1>7, Zenon
<1> HIDE DEF acc
<1>9. acc[0] = 0 /\ \A k \in 1..n : acc[k] = acc[k - 1] + PieceAdds[s[k]]
  <2>1. 0 \in 0..n /\ \A k \in 1..n : k \in 0..n /\ k # 0
    BY <1>1
  <2>2. acc[0] = Step(acc, 0) /\ \A k \in 1..n : acc[k] = Step(acc, k)
    BY <1>8, <2>1
  <2>3. Step(acc, 0) = 0 /\ \A k \in 1..n : Step(acc, k) = acc[k - 1] + PieceAdds[s[k]]
    BY <1>2, <2>1 DEF Step
  <2> QED
    BY <2>2, <2>3
<1>10. acc[n] = Total(PieceAdds, AnyPiece, s)
  BY <1>2, <1>9, TotalIs DEF n
<1> QED
  BY <1>4, <1>10

LEMMA AddLenIn ==
  ASSUME NEW s \in Seq(AnyPiece)
  PROVE  AddLen(s) \in Nat
BY AddLenIs, PieceAddsIn, TotalFacts

EditBytes == [e \in Edits |-> EditCost + PieceCost * Len(e.pieces) + TotalLen(e.pieces)]
EditAdds  == [e \in Edits |-> AddLen(e.pieces)]
BytesIn(s) == SumOver(LAMBDA e : EditCost + PieceCost * Len(e.pieces) + TotalLen(e.pieces), s)

LEMMA EditWeights == EditBytes \in Weights(Edits) /\ EditAdds \in Weights(Edits)
<1>1. ASSUME NEW e \in Edits
      PROVE  EditCost + PieceCost * Len(e.pieces) + TotalLen(e.pieces) \in Nat /\ AddLen(e.pieces) \in Nat
  <2>1. e.pieces \in Seq(AnyPiece)
    BY KeptIn DEF Edits
  <2>2. Len(e.pieces) \in Nat /\ TotalLen(e.pieces) \in Nat /\ AddLen(e.pieces) \in Nat
    BY <2>1, LenProperties, TotalLenIs, AddLenIn
  <2>3. EditCost \in Nat /\ PieceCost \in Nat
    BY PieceTableAssumption
  <2>4. \A a, b \in Nat : a * b \in Nat
    OBVIOUS
  <2>5. PieceCost * Len(e.pieces) \in Nat
    BY <2>2, <2>3, <2>4
  <2> QED
    BY <2>2, <2>3, <2>5
<1> QED
  BY <1>1 DEF EditBytes, EditAdds, Weights

LEMMA BytesInIs ==
  ASSUME NEW s \in Seq(Edits)
  PROVE  BytesIn(s) = Total(EditBytes, Edits, s)
<1> DEFINE n == Len(s)
           Step(f, k) == IF k = 0 THEN 0 ELSE f[k - 1] + (EditCost + PieceCost * Len(s[k].pieces) + TotalLen(s[k].pieces))
           acc == CHOOSE f : f = [k \in 0..n |-> Step(f, k)]
<1>1. n \in Nat /\ \A k \in 1..n : s[k] \in Edits
  BY LenProperties, ElementOfSeq
<1>2. EditBytes \in Weights(Edits) /\ \A k \in 1..n : EditBytes[s[k]] = (EditCost + PieceCost * Len(s[k].pieces) + TotalLen(s[k].pieces))
  BY <1>1, EditWeights DEF EditBytes
<1>3. PICK r : r = [k \in 0..n |-> IF k = 0 THEN 0 ELSE r[k - 1] + EditBytes[s[k]]]
  BY <1>2, TotalUnfolds
<1>4. BytesIn(s) = acc[n]
  BY DEF BytesIn, SumOver
<1> HIDE DEF n
<1>5. \A k \in 0..n : k = 0 \/ (k \in 1..n /\ k # 0)
  BY <1>1
<1>6. \A k \in 0..n : Step(r, k) = IF k = 0 THEN 0 ELSE r[k - 1] + EditBytes[s[k]]
  BY <1>2, <1>5
<1> HIDE DEF Step
<1>7. r = [k \in 0..n |-> Step(r, k)]
  BY <1>3, <1>6
<1>8. acc = [k \in 0..n |-> Step(acc, k)]
  BY <1>7, Zenon
<1> HIDE DEF acc
<1>9. acc[0] = 0 /\ \A k \in 1..n : acc[k] = acc[k - 1] + EditBytes[s[k]]
  <2>1. 0 \in 0..n /\ \A k \in 1..n : k \in 0..n /\ k # 0
    BY <1>1
  <2>2. acc[0] = Step(acc, 0) /\ \A k \in 1..n : acc[k] = Step(acc, k)
    BY <1>8, <2>1
  <2>3. Step(acc, 0) = 0 /\ \A k \in 1..n : Step(acc, k) = acc[k - 1] + EditBytes[s[k]]
    BY <1>2, <2>1 DEF Step
  <2> QED
    BY <2>2, <2>3
<1>10. acc[n] = Total(EditBytes, Edits, s)
  BY <1>2, <1>9, TotalIs DEF n
<1> QED
  BY <1>4, <1>10

LEMMA AddBytesOfIs ==
  ASSUME NEW s \in Seq(Edits)
  PROVE  AddBytesOf(s) = Total(EditAdds, Edits, s)
<1> DEFINE n == Len(s)
           Step(f, k) == IF k = 0 THEN 0 ELSE f[k - 1] + AddLen(s[k].pieces)
           acc == CHOOSE f : f = [k \in 0..n |-> Step(f, k)]
<1>1. n \in Nat /\ \A k \in 1..n : s[k] \in Edits
  BY LenProperties, ElementOfSeq
<1>2. EditAdds \in Weights(Edits) /\ \A k \in 1..n : EditAdds[s[k]] = AddLen(s[k].pieces)
  BY <1>1, EditWeights DEF EditAdds
<1>3. PICK r : r = [k \in 0..n |-> IF k = 0 THEN 0 ELSE r[k - 1] + EditAdds[s[k]]]
  BY <1>2, TotalUnfolds
<1>4. AddBytesOf(s) = acc[n]
  BY DEF AddBytesOf, SumOver
<1> HIDE DEF n
<1>5. \A k \in 0..n : k = 0 \/ (k \in 1..n /\ k # 0)
  BY <1>1
<1>6. \A k \in 0..n : Step(r, k) = IF k = 0 THEN 0 ELSE r[k - 1] + EditAdds[s[k]]
  BY <1>2, <1>5
<1> HIDE DEF Step
<1>7. r = [k \in 0..n |-> Step(r, k)]
  BY <1>3, <1>6
<1>8. acc = [k \in 0..n |-> Step(acc, k)]
  BY <1>7, Zenon
<1> HIDE DEF acc
<1>9. acc[0] = 0 /\ \A k \in 1..n : acc[k] = acc[k - 1] + EditAdds[s[k]]
  <2>1. 0 \in 0..n /\ \A k \in 1..n : k \in 0..n /\ k # 0
    BY <1>1
  <2>2. acc[0] = Step(acc, 0) /\ \A k \in 1..n : acc[k] = Step(acc, k)
    BY <1>8, <2>1
  <2>3. Step(acc, 0) = 0 /\ \A k \in 1..n : Step(acc, k) = acc[k - 1] + EditAdds[s[k]]
    BY <1>2, <2>1 DEF Step
  <2> QED
    BY <2>2, <2>3
<1>10. acc[n] = Total(EditAdds, Edits, s)
  BY <1>2, <1>9, TotalIs DEF n
<1> QED
  BY <1>4, <1>10

LEMMA BytesAre ==
  ASSUME NEW es \in Seq(Edits)
  PROVE  /\ BytesOf(es) = TransactionCost + Total(EditBytes, Edits, es) /\ BytesOf(es) \in Nat
         /\ AddBytesOf(es) = Total(EditAdds, Edits, es) /\ AddBytesOf(es) \in Nat
<1>1. BytesOf(es) = TransactionCost + BytesIn(es)
  BY DEF BytesOf, BytesIn
<1>2. BytesIn(es) = Total(EditBytes, Edits, es) /\ AddBytesOf(es) = Total(EditAdds, Edits, es)
  BY BytesInIs, AddBytesOfIs
<1>3. Total(EditBytes, Edits, es) \in Nat /\ Total(EditAdds, Edits, es) \in Nat
  BY EditWeights, TotalFacts
<1>4. TransactionCost \in Nat
  BY PieceTableAssumption
<1> QED
  BY <1>1, <1>2, <1>3, <1>4
-----------------------------------------------------------------------------
(* The offsets of the add buffer that references name. *)

Offs(refs) == {o \in Nat : \E k \in 1..Len(refs) : refs[k] = <<"Add", o>>}

\* A reference to the add buffer counts once.
RefAdds == [r \in Ref |-> IF r[1] = "Add" THEN 1 ELSE 0]

LEMMA RefAddsIn == RefAdds \in Weights(Ref)
BY DEF RefAdds, Weights

LEMMA OffsAppend ==
  ASSUME NEW s \in Seq(Ref), NEW r \in Ref
  PROVE  Offs(Append(s, r)) = Offs(s) \cup (IF r[1] = "Add" THEN {r[2]} ELSE {})
<1> DEFINE u == Append(s, r)
           n == Len(s)
<1>1. n \in Nat /\ Len(u) = n + 1 /\ u[n + 1] = r /\ \A k \in 1..n : u[k] = s[k]
  BY AppendAt
<1>2. r = <<r[1], r[2]>> /\ r[2] \in Nat
  BY DEF Ref
<1> HIDE DEF u, n
<1>3. \A o \in Nat : (\E k \in 1..n + 1 : u[k] = <<"Add", o>>)
                       <=> (\E k \in 1..n : s[k] = <<"Add", o>>) \/ r = <<"Add", o>>
  <2> SUFFICES ASSUME NEW o \in Nat
               PROVE  (\E k \in 1..n + 1 : u[k] = <<"Add", o>>)
                        <=> (\E k \in 1..n : s[k] = <<"Add", o>>) \/ r = <<"Add", o>>
    OBVIOUS
  <2>1. \A k \in 1..n + 1 : k \in 1..n \/ k = n + 1
    BY <1>1
  <2>2. n + 1 \in 1..n + 1 /\ \A k \in 1..n : k \in 1..n + 1
    BY <1>1
  <2> QED
    BY <1>1, <2>1, <2>2
<1>4. \A o \in Nat : r = <<"Add", o>> <=> r[1] = "Add" /\ o = r[2]
  BY <1>2
<1>5. Offs(u) = {o \in Nat : \E k \in 1..n + 1 : u[k] = <<"Add", o>>}
  BY <1>1 DEF Offs
<1>6. Offs(s) = {o \in Nat : \E k \in 1..n : s[k] = <<"Add", o>>}
  BY DEF Offs, n
<1>7. \A o \in Nat : o \in Offs(u) <=> o \in Offs(s) \/ (r[1] = "Add" /\ o = r[2])
  BY <1>3, <1>4, <1>5, <1>6
<1> QED
  BY <1>2, <1>5, <1>6, <1>7 DEF u

LEMMA OffsNone == Offs(<<>>) = {}
BY DEF Offs

LEMMA OffsCat ==
  ASSUME NEW s \in Seq(Ref), NEW t \in Seq(Ref)
  PROVE  Offs(Cat(s, t)) = Offs(s) \cup Offs(t)
<1> DEFINE u == Cat(s, t)
           m == Len(s)
           n == Len(t)
<1>1. /\ Len(u) = m + n /\ m \in Nat /\ n \in Nat
      /\ \A k \in 1..m : u[k] = s[k]
      /\ \A k \in 1..n : u[m + k] = t[k]
  <2>1. /\ Cat(s, t) \in Seq(Ref) /\ Len(Cat(s, t)) = Len(s) + Len(t)
        /\ \A i \in 1..Len(s) : Cat(s, t)[i] = s[i]
        /\ \A i \in 1..Len(t) : Cat(s, t)[Len(s) + i] = t[i]
        /\ Len(s) \in Nat /\ Len(t) \in Nat
    BY CatAt
  <2> QED
    BY <2>1
<1> HIDE DEF u, m, n
<1>2. \A o : (\E k \in 1..m + n : u[k] = <<"Add", o>>)
               <=> (\E k \in 1..m : s[k] = <<"Add", o>>) \/ (\E k \in 1..n : t[k] = <<"Add", o>>)
  <2> SUFFICES ASSUME NEW o
               PROVE  (\E k \in 1..m + n : u[k] = <<"Add", o>>)
                        <=> (\E k \in 1..m : s[k] = <<"Add", o>>) \/ (\E k \in 1..n : t[k] = <<"Add", o>>)
    OBVIOUS
  <2>1. \A k \in 1..m + n : k \in 1..m \/ (k - m \in 1..n /\ m + (k - m) = k)
    BY <1>1
  <2>2. /\ \A k \in 1..m : k \in 1..m + n
        /\ \A k \in 1..n : m + k \in 1..m + n
    BY <1>1
  <2>3. ASSUME NEW k \in 1..m + n, u[k] = <<"Add", o>>
        PROVE  (\E j \in 1..m : s[j] = <<"Add", o>>) \/ (\E j \in 1..n : t[j] = <<"Add", o>>)
    <3>1. CASE k \in 1..m
      BY <1>1, <2>3, <3>1
    <3>2. CASE k - m \in 1..n /\ m + (k - m) = k
      <4>1. t[k - m] = u[m + (k - m)]
        BY <1>1, <3>2
      <4>2. t[k - m] = <<"Add", o>>
        BY <2>3, <3>2, <4>1
      <4> QED
        BY <3>2, <4>2
    <3> QED
      BY <2>1, <3>1, <3>2
  <2>4. ASSUME NEW k \in 1..m, s[k] = <<"Add", o>>
        PROVE  \E j \in 1..m + n : u[j] = <<"Add", o>>
    BY <1>1, <2>2, <2>4
  <2>5. ASSUME NEW k \in 1..n, t[k] = <<"Add", o>>
        PROVE  \E j \in 1..m + n : u[j] = <<"Add", o>>
    BY <1>1, <2>2, <2>5
  <2> QED
    BY <2>3, <2>4, <2>5
<1> QED
  BY <1>1, <1>2 DEF Offs, u, m, n

\* No more offsets than references.
LEMMA OffsBound ==
  ASSUME NEW refs \in Seq(Ref)
  PROVE  /\ IsFiniteSet(Offs(refs)) /\ Cardinality(Offs(refs)) \in Nat
         /\ Total(RefAdds, Ref, refs) \in Nat
         /\ Cardinality(Offs(refs)) <= Total(RefAdds, Ref, refs)
<1> DEFINE T == {s \in Seq(Ref) : /\ IsFiniteSet(Offs(s)) /\ Cardinality(Offs(s)) \in Nat
                                  /\ Cardinality(Offs(s)) <= Total(RefAdds, Ref, s)}
<1>1. <<>> \in T
  <2>1. IsFiniteSet(Offs(<<>>)) /\ Cardinality(Offs(<<>>)) = 0
    BY OffsNone, FS_EmptySet
  <2>2. Total(RefAdds, Ref, <<>>) = 0 /\ <<>> \in Seq(Ref)
    BY RefAddsIn, TotalFacts, EmptySeq
  <2> QED
    BY <2>1, <2>2
<1>2. ASSUME NEW s \in Seq(Ref), NEW r \in Ref, s \in T
      PROVE  Append(s, r) \in T
  <2>1. /\ Total(RefAdds, Ref, Append(s, r)) = Total(RefAdds, Ref, s) + RefAdds[r]
        /\ Total(RefAdds, Ref, s) \in Nat /\ Append(s, r) \in Seq(Ref)
    BY RefAddsIn, TotalFacts, AppendProperties
  <2>2. RefAdds[r] = IF r[1] = "Add" THEN 1 ELSE 0
    BY DEF RefAdds
  <2>3. Offs(Append(s, r)) = Offs(s) \cup (IF r[1] = "Add" THEN {r[2]} ELSE {})
    BY OffsAppend
  <2>4. IsFiniteSet(Offs(s)) /\ Cardinality(Offs(s)) \in Nat /\ Cardinality(Offs(s)) <= Total(RefAdds, Ref, s)
    BY <1>2
  <2> DEFINE c == Cardinality(Offs(s))
             A == Offs(s)
             B == Offs(Append(s, r))
             w == Total(RefAdds, Ref, s)
  <2>5. CASE r[1] = "Add"
    <3>1. B = A \cup {r[2]}
      BY <2>3, <2>5
    <3> HIDE DEF A, B
    <3>2. IsFiniteSet(A \cup {r[2]}) /\ Cardinality(A \cup {r[2]}) = IF r[2] \in A THEN Cardinality(A) ELSE Cardinality(A) + 1
      BY <2>4, FS_AddElement DEF A
    <3>3. IsFiniteSet(B) /\ (Cardinality(B) = c \/ Cardinality(B) = c + 1)
      BY <3>1, <3>2 DEF A
    <3> HIDE DEF c, w
    <3>4. c \in Nat /\ w \in Nat /\ c <= w /\ Total(RefAdds, Ref, Append(s, r)) = w + 1
      BY <2>1, <2>2, <2>4, <2>5 DEF c, w, A
    <3>5. Cardinality(B) \in Nat /\ Cardinality(B) <= w + 1
      BY <3>3, <3>4
    <3> QED
      BY <2>1, <3>3, <3>4, <3>5 DEF B
  <2>6. CASE r[1] # "Add"
    <3>1. B = A
      BY <2>3, <2>6
    <3>2. Total(RefAdds, Ref, Append(s, r)) = w
      BY <2>1, <2>2, <2>6
    <3> QED
      BY <2>1, <2>4, <3>1, <3>2
  <2> QED
    BY <2>5, <2>6
<1>3. Seq(Ref) \subseteq T
  <2> HIDE DEF T
  <2> QED
    BY <1>1, <1>2, SeqInduction
<1> QED
  BY <1>3, RefAddsIn, TotalFacts

LEMMA CellAdds ==
  ASSUME NEW p \in AnyPiece
  PROVE  Total(RefAdds, Ref, Cells(p)) = PieceAdds[p]
<1> DEFINE c == Cells(p)
           f == [k \in 0..p.len |-> IF p.src = "Add" THEN k ELSE 0]
<1>1. p.len \in Nat /\ p.src \in Sources /\ p.start \in Nat
  BY PieceOf
<1>2. c \in Seq(Ref) /\ Len(c) = p.len /\ \A k \in 1..p.len : c[k] = <<p.src, p.start + (k - 1)>>
  BY CellsAt
<1> HIDE DEF c
<1>3. ASSUME NEW k \in 1..p.len
      PROVE  RefAdds[c[k]] = IF p.src = "Add" THEN 1 ELSE 0
  <2>1. c[k] \in Ref /\ c[k][1] = p.src
    BY <1>2, ElementOfSeq
  <2> QED
    BY <2>1 DEF RefAdds
<1>4. f[0] = 0 /\ f[p.len] = IF p.src = "Add" THEN p.len ELSE 0
  BY <1>1
<1>5. ASSUME NEW k \in 1..p.len
      PROVE  f[k] = f[k - 1] + RefAdds[c[k]]
  <2>1. k \in 0..p.len /\ k - 1 \in 0..p.len /\ k = (k - 1) + 1
    BY <1>1
  <2>2. f[k] = (IF p.src = "Add" THEN k ELSE 0) /\ f[k - 1] = IF p.src = "Add" THEN k - 1 ELSE 0
    BY <2>1
  <2> HIDE DEF f
  <2> QED
    BY <1>3, <2>1, <2>2
<1> HIDE DEF f
<1>6. f[Len(c)] = Total(RefAdds, Ref, c)
  BY <1>2, <1>4, <1>5, RefAddsIn, TotalIs
<1> QED
  BY <1>2, <1>4, <1>6 DEF c, PieceAdds

\* How much of the add buffer pieces refer to shows in their references.
LEMMA AddLenRefs ==
  ASSUME NEW ps \in Seq(AnyPiece)
  PROVE  AddLen(ps) = Total(RefAdds, Ref, Refs(ps))
<1> DEFINE T == {s \in Seq(AnyPiece) : Total(PieceAdds, AnyPiece, s) = Total(RefAdds, Ref, Refs(s))}
<1>1. <<>> \in T
  BY RefsEmpty, RefAddsIn, PieceAddsIn, TotalFacts, EmptySeq
<1>2. ASSUME NEW s \in Seq(AnyPiece), NEW p \in AnyPiece, s \in T
      PROVE  Append(s, p) \in T
  <2>1. Append(s, p) \in Seq(AnyPiece)
        /\ Total(PieceAdds, AnyPiece, Append(s, p)) = Total(PieceAdds, AnyPiece, s) + PieceAdds[p]
    BY PieceAddsIn, TotalFacts, AppendProperties
  <2>2. Refs(s) \in Seq(Ref) /\ Cells(p) \in Seq(Ref) /\ Refs(Append(s, p)) = Cat(Refs(s), Cells(p))
    BY RefsAppend, CellsAt
  <2>3. Total(RefAdds, Ref, Refs(s) \o Cells(p)) = Total(RefAdds, Ref, Refs(s)) + Total(RefAdds, Ref, Cells(p))
    BY <2>2, RefAddsIn, TotalConcat
  <2>4. Refs(Append(s, p)) = Refs(s) \o Cells(p)
    BY <2>2 DEF Cat
  <2> QED
    BY <1>2, <2>1, <2>3, <2>4, CellAdds
<1>3. Seq(AnyPiece) \subseteq T
  <2> HIDE DEF T
  <2> QED
    BY <1>1, <1>2, SeqInduction
<1> QED
  BY <1>3, AddLenIs

LEMMA OffsetsCup == \A A, B : AddOffsets(A \cup B) = AddOffsets(A) \cup AddOffsets(B)
<1> SUFFICES ASSUME NEW A, NEW B
             PROVE  AddOffsets(A \cup B) = AddOffsets(A) \cup AddOffsets(B)
  OBVIOUS
<1>1. \A C, o : o \in AddOffsets(C) <=> \E p \in C : p.src = "Add" /\ p.len > 0 /\ o \in p.start..(p.start + p.len - 1)
  BY DEF AddOffsets
<1> QED
  BY <1>1

LEMMA OffsCells ==
  ASSUME NEW p \in AnyPiece
  PROVE  AddOffsets({p}) = Offs(Cells(p))
<1> DEFINE c == Cells(p)
<1>1. p.len \in Nat /\ p.src \in Sources /\ p.start \in Nat
  BY PieceOf
<1>2. Len(c) = p.len /\ \A k \in 1..p.len : c[k] = <<p.src, p.start + (k - 1)>>
  BY CellsAt
<1> HIDE DEF c
<1>3. \A o : o \in AddOffsets({p}) <=> p.src = "Add" /\ p.len > 0 /\ o \in p.start..(p.start + p.len - 1)
  BY DEF AddOffsets
<1>4. \A o : o \in Offs(c) <=> o \in Nat /\ \E k \in 1..p.len : p.src = "Add" /\ o = p.start + (k - 1)
  <2>1. \A o : o \in Offs(c) <=> o \in Nat /\ \E k \in 1..p.len : c[k] = <<"Add", o>>
    BY <1>2 DEF Offs
  <2>2. \A o : \A k \in 1..p.len : c[k] = <<"Add", o>> <=> p.src = "Add" /\ o = p.start + (k - 1)
    BY <1>2
  <2> QED
    BY <2>1, <2>2
<1>5. ASSUME NEW o \in AddOffsets({p})
      PROVE  o \in Offs(c)
  <2>1. p.src = "Add" /\ p.len > 0 /\ o \in p.start..(p.start + p.len - 1)
    BY <1>3
  <2>2. o \in Nat /\ (o - p.start) + 1 \in 1..p.len /\ o = p.start + (((o - p.start) + 1) - 1)
    BY <1>1, <2>1
  <2> QED
    BY <1>4, <2>1, <2>2
<1>6. ASSUME NEW o \in Offs(c)
      PROVE  o \in AddOffsets({p})
  <2>1. PICK k \in 1..p.len : p.src = "Add" /\ o = p.start + (k - 1)
    BY <1>4
  <2>2. p.len > 0 /\ o \in p.start..(p.start + p.len - 1)
    BY <1>1, <2>1
  <2> QED
    BY <1>3, <2>1, <2>2
<1> QED
  BY <1>5, <1>6 DEF c

\* The offsets of pieces are those their references name.
LEMMA OffsOfPieces ==
  ASSUME NEW ps \in Seq(AnyPiece)
  PROVE  AddOffsets(ToSet(ps)) = Offs(Refs(ps))
<1> DEFINE T == {s \in Seq(AnyPiece) : AddOffsets(ToSet(s)) = Offs(Refs(s))}
<1>1. <<>> \in T
  <2>1. AddOffsets(ToSet(<<>>)) = {}
    BY DEF AddOffsets, ToSet
  <2> QED
    BY <2>1, RefsEmpty, OffsNone, EmptySeq
<1>2. ASSUME NEW s \in Seq(AnyPiece), NEW p \in AnyPiece, s \in T
      PROVE  Append(s, p) \in T
  <2>1. Append(s, p) \in Seq(AnyPiece) /\ ToSet(Append(s, p)) = ToSet(s) \cup {p}
    <3> DEFINE u == Append(s, p)
               n == Len(s)
    <3>1. u \in Seq(AnyPiece) /\ n \in Nat /\ Len(u) = n + 1 /\ u[n + 1] = p /\ \A i \in 1..n : u[i] = s[i]
      BY AppendAt
    <3> HIDE DEF u, n
    <3>2. \A i \in 1..n + 1 : i \in 1..n \/ i = n + 1
      BY <3>1
    <3>3. n + 1 \in 1..n + 1 /\ \A i \in 1..n : i \in 1..n + 1
      BY <3>1
    <3>4. {u[i] : i \in 1..n + 1} = {s[i] : i \in 1..n} \cup {p}
      BY <3>1, <3>2, <3>3
    <3> QED
      BY <3>1, <3>4 DEF ToSet, u, n
  <2>2. Refs(s) \in Seq(Ref) /\ Cells(p) \in Seq(Ref) /\ Refs(Append(s, p)) = Cat(Refs(s), Cells(p))
    BY RefsAppend, CellsAt
  <2>3. Offs(Refs(Append(s, p))) = Offs(Refs(s)) \cup Offs(Cells(p))
    BY <2>2, OffsCat
  <2>4. AddOffsets(ToSet(Append(s, p))) = AddOffsets(ToSet(s)) \cup AddOffsets({p})
    BY <2>1, OffsetsCup
  <2> QED
    BY <1>2, <2>1, <2>3, <2>4, OffsCells
<1>3. Seq(AnyPiece) \subseteq T
  <2> HIDE DEF T
  <2> QED
    BY <1>1, <1>2, SeqInduction
<1> QED
  BY <1>3

\* The offsets that edits, and the transactions of one side, refer to.
LiveOf(es) == UNION {Offs(Refs(es[j].pieces)) : j \in 1..Len(es)}
LiveIn(ts) == UNION {LiveOf(ts[i].edits) : i \in 1..Len(ts)}

LEMMA LiveInIs ==
  ASSUME NEW ts \in Seq(Tx)
  PROVE  AddOffsets(PiecesOf(ts)) = LiveIn(ts)
<1>1. \A i \in 1..Len(ts) : ts[i].edits \in Seq(Edits)
  <2>1. \A i \in 1..Len(ts) : ts[i] \in Tx
    BY ElementOfSeq
  <2> QED
    BY <2>1 DEF Tx
<1>2. \A i \in 1..Len(ts) : \A j \in 1..Len(ts[i].edits) : ts[i].edits[j].pieces \in Seq(AnyPiece)
  <2> SUFFICES ASSUME NEW i \in 1..Len(ts), NEW j \in 1..Len(ts[i].edits)
               PROVE  ts[i].edits[j].pieces \in Seq(AnyPiece)
    OBVIOUS
  <2>1. ts[i].edits[j] \in Edits
    BY <1>1, ElementOfSeq
  <2>2. ts[i].edits[j].pieces \in Seq(Kept)
    BY <2>1 DEF Edits
  <2> QED
    BY <2>2, KeptIn
<1>3. \A i \in 1..Len(ts) : \A j \in 1..Len(ts[i].edits) :
        AddOffsets(ToSet(ts[i].edits[j].pieces)) = Offs(Refs(ts[i].edits[j].pieces))
  BY <1>2, OffsOfPieces
<1>4. \A p : p \in PiecesOf(ts) <=> \E i \in 1..Len(ts) : \E j \in 1..Len(ts[i].edits) : p \in ToSet(ts[i].edits[j].pieces)
  BY DEF PiecesOf, ToSet
<1>5. \A C, o : o \in AddOffsets(C) <=> \E p \in C : p.src = "Add" /\ p.len > 0 /\ o \in p.start..(p.start + p.len - 1)
  BY DEF AddOffsets
<1>6. \A o : o \in AddOffsets(PiecesOf(ts))
               <=> \E i \in 1..Len(ts) : \E j \in 1..Len(ts[i].edits) : o \in AddOffsets(ToSet(ts[i].edits[j].pieces))
  BY <1>4, <1>5
<1>7. \A o : o \in LiveIn(ts)
               <=> \E i \in 1..Len(ts) : \E j \in 1..Len(ts[i].edits) : o \in Offs(Refs(ts[i].edits[j].pieces))
  BY DEF LiveIn, LiveOf
<1> DEFINE A == AddOffsets(PiecesOf(ts))
           B == LiveIn(ts)
<1>8. \A o : o \in A <=> o \in B
  BY <1>3, <1>6, <1>7
<1> HIDE DEF A, B
<1>9. A = B
  BY <1>8
<1> QED
  BY <1>9 DEF A, B

LEMMA LiveOfAppend ==
  ASSUME NEW es \in Seq(Edits), NEW e \in Edits
  PROVE  LiveOf(Append(es, e)) = LiveOf(es) \cup Offs(Refs(e.pieces))
<1> DEFINE u == Append(es, e)
           n == Len(es)
<1>1. n \in Nat /\ Len(u) = n + 1 /\ u[n + 1] = e /\ \A i \in 1..n : u[i] = es[i]
  BY AppendAt
<1> HIDE DEF u, n
<1>2. \A i \in 1..n + 1 : i \in 1..n \/ i = n + 1
  BY <1>1
<1>3. n + 1 \in 1..n + 1 /\ \A i \in 1..n : i \in 1..n + 1
  BY <1>1
<1>4. \A o : (\E j \in 1..n + 1 : o \in Offs(Refs(u[j].pieces)))
               <=> (\E j \in 1..n : o \in Offs(Refs(es[j].pieces))) \/ o \in Offs(Refs(e.pieces))
  BY <1>1, <1>2, <1>3
<1>5. \A o : o \in LiveOf(u) <=> \E j \in 1..n + 1 : o \in Offs(Refs(u[j].pieces))
  BY <1>1 DEF LiveOf
<1>6. \A o : o \in LiveOf(es) <=> \E j \in 1..n : o \in Offs(Refs(es[j].pieces))
  BY DEF LiveOf, n
<1> QED
  BY <1>4, <1>5, <1>6 DEF u

LEMMA LiveInAppend ==
  ASSUME NEW ts \in Seq(Tx), NEW t \in Tx
  PROVE  LiveIn(Append(ts, t)) = LiveIn(ts) \cup LiveOf(t.edits)
<1> DEFINE u == Append(ts, t)
           n == Len(ts)
<1>1. n \in Nat /\ Len(u) = n + 1 /\ u[n + 1] = t /\ \A i \in 1..n : u[i] = ts[i]
  BY AppendAt
<1> HIDE DEF u, n
<1>2. \A i \in 1..n + 1 : i \in 1..n \/ i = n + 1
  BY <1>1
<1>3. n + 1 \in 1..n + 1 /\ \A i \in 1..n : i \in 1..n + 1
  BY <1>1
<1>4. \A o : (\E j \in 1..n + 1 : o \in LiveOf(u[j].edits))
               <=> (\E j \in 1..n : o \in LiveOf(ts[j].edits)) \/ o \in LiveOf(t.edits)
  BY <1>1, <1>2, <1>3
<1>5. \A o : o \in LiveIn(u) <=> \E j \in 1..n + 1 : o \in LiveOf(u[j].edits)
  BY <1>1 DEF LiveIn
<1>6. \A o : o \in LiveIn(ts) <=> \E j \in 1..n : o \in LiveOf(ts[j].edits)
  BY DEF LiveIn, n
<1> QED
  BY <1>4, <1>5, <1>6 DEF u

LEMMA CupBound ==
  ASSUME NEW A, NEW B, NEW a \in Nat, NEW b \in Nat, IsFiniteSet(A), IsFiniteSet(B),
         Cardinality(A) <= a, Cardinality(B) <= b
  PROVE  IsFiniteSet(A \cup B) /\ Cardinality(A \cup B) \in Nat /\ Cardinality(A \cup B) <= a + b
<1>1. IsFiniteSet(A \cup B) /\ Cardinality(A \cup B) = Cardinality(A) + Cardinality(B) - Cardinality(A \cap B)
  BY FS_Union
<1>2. IsFiniteSet(A \cap B)
  BY FS_Intersection
<1>3. Cardinality(A) \in Nat /\ Cardinality(B) \in Nat /\ Cardinality(A \cap B) \in Nat /\ Cardinality(A \cup B) \in Nat
  BY <1>1, <1>2, FS_CardinalityType
<1> QED
  BY <1>1, <1>3

LEMMA LiveOfBound ==
  ASSUME NEW es \in Seq(Edits)
  PROVE  /\ IsFiniteSet(LiveOf(es)) /\ AddBytesOf(es) \in Nat
         /\ Cardinality(LiveOf(es)) <= AddBytesOf(es)
<1> DEFINE T == {s \in Seq(Edits) : /\ IsFiniteSet(LiveOf(s))
                                    /\ Cardinality(LiveOf(s)) <= Total(EditAdds, Edits, s)}
<1>1. <<>> \in T
  <2>1. LiveOf(<<>>) = {}
    BY DEF LiveOf
  <2>2. Total(EditAdds, Edits, <<>>) = 0 /\ <<>> \in Seq(Edits)
    BY EditWeights, TotalFacts, EmptySeq
  <2>3. IsFiniteSet(LiveOf(<<>>)) /\ Cardinality(LiveOf(<<>>)) = 0
    BY <2>1, FS_EmptySet
  <2> QED
    BY <2>2, <2>3
<1>2. ASSUME NEW s \in Seq(Edits), NEW e \in Edits, s \in T
      PROVE  Append(s, e) \in T
  <2>1. Append(s, e) \in Seq(Edits) /\ Total(EditAdds, Edits, s) \in Nat
        /\ Total(EditAdds, Edits, Append(s, e)) = Total(EditAdds, Edits, s) + EditAdds[e]
    BY EditWeights, TotalFacts, AppendProperties
  <2>2. e.pieces \in Seq(AnyPiece) /\ EditAdds[e] = AddLen(e.pieces)
    BY KeptIn DEF Edits, EditAdds
  <2>3. AddLen(e.pieces) = Total(RefAdds, Ref, Refs(e.pieces)) /\ Refs(e.pieces) \in Seq(Ref)
    BY <2>2, AddLenRefs, RefsIn
  <2>4. /\ IsFiniteSet(Offs(Refs(e.pieces))) /\ AddLen(e.pieces) \in Nat
        /\ Cardinality(Offs(Refs(e.pieces))) <= AddLen(e.pieces)
    BY <2>3, OffsBound
  <2>5. LiveOf(Append(s, e)) = LiveOf(s) \cup Offs(Refs(e.pieces))
    BY LiveOfAppend
  <2>6. IsFiniteSet(LiveOf(s)) /\ Cardinality(LiveOf(s)) <= Total(EditAdds, Edits, s)
    BY <1>2
  <2>7. /\ IsFiniteSet(LiveOf(Append(s, e)))
        /\ Cardinality(LiveOf(Append(s, e))) <= Total(EditAdds, Edits, s) + AddLen(e.pieces)
    BY <2>1, <2>4, <2>5, <2>6, CupBound
  <2> QED
    BY <2>1, <2>2, <2>7
<1>3. Seq(Edits) \subseteq T
  <2> HIDE DEF T
  <2> QED
    BY <1>1, <1>2, SeqInduction
<1>4. AddBytesOf(es) = Total(EditAdds, Edits, es) /\ AddBytesOf(es) \in Nat
  BY BytesAre
<1> QED
  BY <1>3, <1>4

\* Transactions charged for what they hold.
Paid == {t \in Tx : t.bytes = BytesOf(t.edits) /\ t.addBytes = AddBytesOf(t.edits)}

LEMMA PaidIn == Paid \subseteq Tx /\ Seq(Paid) \subseteq Seq(Tx)
<1>1. Paid \subseteq Tx
  BY DEF Paid
<1> QED
  BY <1>1, SeqMonotonic

\* A history is charged for every offset it refers to.
LEMMA LiveInBound ==
  ASSUME NEW ts \in Seq(Paid)
  PROVE  /\ IsFiniteSet(LiveIn(ts)) /\ SumAddBytes(ts) \in Nat
         /\ Cardinality(LiveIn(ts)) <= SumAddBytes(ts)
<1> DEFINE T == {s \in Seq(Paid) : /\ IsFiniteSet(LiveIn(s))
                                   /\ Cardinality(LiveIn(s)) <= Total(TxAddBytes, Tx, s)}
<1>1. TxAddBytes \in Weights(Tx)
  BY DEF TxAddBytes, Tx, Weights
<1>2. <<>> \in T
  <2>1. LiveIn(<<>>) = {}
    BY DEF LiveIn
  <2>2. Total(TxAddBytes, Tx, <<>>) = 0 /\ <<>> \in Seq(Paid)
    BY <1>1, TotalFacts, EmptySeq
  <2>3. IsFiniteSet(LiveIn(<<>>)) /\ Cardinality(LiveIn(<<>>)) = 0
    BY <2>1, FS_EmptySet
  <2> QED
    BY <2>2, <2>3
<1>3. ASSUME NEW s \in Seq(Paid), NEW t \in Paid, s \in T
      PROVE  Append(s, t) \in T
  <2>1. s \in Seq(Tx) /\ t \in Tx /\ t.addBytes = AddBytesOf(t.edits) /\ t.edits \in Seq(Edits)
    BY PaidIn DEF Paid, Tx
  <2>2. Append(s, t) \in Seq(Paid) /\ Total(TxAddBytes, Tx, s) \in Nat
        /\ Total(TxAddBytes, Tx, Append(s, t)) = Total(TxAddBytes, Tx, s) + TxAddBytes[t]
    BY <1>1, <2>1, TotalFacts, AppendProperties
  <2>3. TxAddBytes[t] = AddBytesOf(t.edits)
    BY <2>1 DEF TxAddBytes
  <2>4. /\ IsFiniteSet(LiveOf(t.edits)) /\ AddBytesOf(t.edits) \in Nat
        /\ Cardinality(LiveOf(t.edits)) <= AddBytesOf(t.edits)
    BY <2>1, LiveOfBound
  <2>5. LiveIn(Append(s, t)) = LiveIn(s) \cup LiveOf(t.edits)
    BY <2>1, LiveInAppend
  <2>6. IsFiniteSet(LiveIn(s)) /\ Cardinality(LiveIn(s)) <= Total(TxAddBytes, Tx, s)
    BY <1>3
  <2>7. /\ IsFiniteSet(LiveIn(Append(s, t)))
        /\ Cardinality(LiveIn(Append(s, t))) <= Total(TxAddBytes, Tx, s) + AddBytesOf(t.edits)
    BY <2>2, <2>4, <2>5, <2>6, CupBound
  <2> QED
    BY <2>2, <2>3, <2>7
<1>4. Seq(Paid) \subseteq T
  <2> HIDE DEF T
  <2> QED
    BY <1>2, <1>3, SeqInduction
<1>5. SumAddBytes(ts) = Total(TxAddBytes, Tx, ts) /\ SumAddBytes(ts) \in Nat
  BY PaidIn, SumAddBytesIs, SumsIn
<1> QED
  BY <1>4, <1>5

\* An edit leaves everything it touches in the document or in the history.
LEMMA OffsMoved ==
  ASSUME NEW e \in Edits, NEW d, NEW f, Moves(e, d, f)
  PROVE  /\ Offs(d) \cup Offs(Refs(e.pieces)) = Offs(f) \cup Offs(Refs(e.pieces))
         /\ e.op = "Insert" => Offs(f) = Offs(d) \cup Offs(Refs(e.pieces))
<1> DEFINE t == Refs(e.pieces)
<1>1. t \in Seq(Ref)
  BY KeptIn, RefsIn DEF Edits
<1> HIDE DEF t
<1>2. \A x, y, at : Inserts(x, at, t, y) => Offs(y) = Offs(x) \cup Offs(t)
  <2> SUFFICES ASSUME NEW x, NEW y, NEW at, Inserts(x, at, t, y)
               PROVE  Offs(y) = Offs(x) \cup Offs(t)
    OBVIOUS
  <2>1. PICK a \in Seq(Ref), b \in Seq(Ref) : x = Cat(a, b) /\ y = Cat(Cat(a, t), b)
    BY DEF Inserts
  <2>2. Cat(a, t) \in Seq(Ref)
    BY <1>1, CatIn
  <2>3. Offs(x) = Offs(a) \cup Offs(b)
    BY <2>1, OffsCat
  <2>4. Offs(y) = Offs(Cat(a, t)) \cup Offs(b)
    BY <2>1, <2>2, OffsCat
  <2>5. Offs(Cat(a, t)) = Offs(a) \cup Offs(t)
    BY <1>1, OffsCat
  <2> QED
    BY <2>3, <2>4, <2>5
<1>3. CASE e.op = "Insert"
  <2>1. Inserts(d, e.at, t, f)
    BY <1>3 DEF Moves, t
  <2>2. Offs(f) = Offs(d) \cup Offs(t)
    BY <1>2, <2>1
  <2> QED
    BY <2>2 DEF t
<1>4. CASE e.op # "Insert"
  <2>1. Inserts(f, e.at, t, d)
    BY <1>4 DEF Moves, t
  <2>2. Offs(d) = Offs(f) \cup Offs(t)
    BY <1>2, <2>1
  <2> QED
    BY <1>4, <2>2 DEF t
<1> QED
  BY <1>3, <1>4

LEMMA OffsLed ==
  ASSUME NEW es \in Seq(Edits), NEW d, NEW f, Leads(d, es, f)
  PROVE  Offs(d) \cup LiveOf(es) = Offs(f) \cup LiveOf(es)
<1> DEFINE n == Len(es)
           L == LiveOf(es)
<1>1. n \in Nat /\ \A k \in 1..n : es[k] \in Edits
  BY LenProperties, ElementOfSeq
<1>2. PICK h : h[0] = d /\ h[n] = f /\ \A k \in 1..n : Moves(es[k], h[k - 1], h[k])
  BY DEF Leads
<1>3. \A k \in 1..n : Offs(Refs(es[k].pieces)) \subseteq L
  BY DEF LiveOf
<1> HIDE DEF n, L
<1> DEFINE T == {k \in Nat : k <= n => Offs(h[0]) \cup L = Offs(h[k]) \cup L}
<1>4. 0 \in T
  OBVIOUS
<1>5. ASSUME NEW k \in Nat, k \in T
      PROVE  k + 1 \in T
  <2> SUFFICES ASSUME k + 1 <= n
               PROVE  Offs(h[0]) \cup L = Offs(h[k + 1]) \cup L
    OBVIOUS
  <2>1. k + 1 \in 1..n /\ k <= n /\ (k + 1) - 1 = k
    BY <1>1
  <2>2. Moves(es[k + 1], h[k], h[k + 1]) /\ es[k + 1] \in Edits
    BY <1>1, <1>2, <2>1
  <2>3. Offs(h[k]) \cup Offs(Refs(es[k + 1].pieces)) = Offs(h[k + 1]) \cup Offs(Refs(es[k + 1].pieces))
    BY <2>2, OffsMoved
  <2>4. Offs(Refs(es[k + 1].pieces)) \subseteq L
    BY <1>3, <2>1
  <2>5. Offs(h[k]) \cup L = Offs(h[k + 1]) \cup L
    BY <2>3, <2>4
  <2>6. Offs(h[0]) \cup L = Offs(h[k]) \cup L
    BY <1>5, <2>1
  <2> QED
    BY <2>5, <2>6
<1>6. n \in T
  <2> HIDE DEF T
  <2> QED
    BY <1>1, <1>4, <1>5, Induction
<1>7. Offs(h[0]) \cup L = Offs(h[n]) \cup L
  BY <1>1, <1>6
<1> QED
  BY <1>2, <1>7 DEF L

\* What the document and the history refer to.
Live(ps, us, rs) == (Offs(Refs(ps)) \cup LiveIn(us)) \cup LiveIn(rs)

LEMMA LiveIs ==
  ASSUME NEW ps \in Seq(AnyPiece), NEW us \in Seq(Tx), NEW rs \in Seq(Tx)
  PROVE  /\ AddOffsets(ToSet(ps) \cup PiecesOf(us) \cup PiecesOf(rs)) = Live(ps, us, rs)
         /\ AddOffsets(ToSet(ps) \cup PiecesOf(us)) = Offs(Refs(ps)) \cup LiveIn(us)
<1>1. AddOffsets(ToSet(ps)) = Offs(Refs(ps)) /\ AddOffsets(PiecesOf(us)) = LiveIn(us)
      /\ AddOffsets(PiecesOf(rs)) = LiveIn(rs)
  BY OffsOfPieces, LiveInIs
<1>2. AddOffsets(ToSet(ps) \cup PiecesOf(us)) = AddOffsets(ToSet(ps)) \cup AddOffsets(PiecesOf(us))
  BY OffsetsCup
<1>3. AddOffsets((ToSet(ps) \cup PiecesOf(us)) \cup PiecesOf(rs))
        = AddOffsets(ToSet(ps) \cup PiecesOf(us)) \cup AddOffsets(PiecesOf(rs))
  BY OffsetsCup
<1> QED
  BY <1>1, <1>2, <1>3 DEF Live

\* A compaction leaves no offset unused: the live ones become the first ones.
LEMMA RanksFill ==
  ASSUME NEW n \in Nat, NEW live \in Lives(n)
  PROVE  \A x \in 0..Rank(live, n) - 1 : \E o \in live : Rank(live, o) = x
<1>1. Ranks(live)
  BY RankIs
<1> DEFINE T == {k \in Nat : \A x \in Nat : x < Rank(live, k) => \E o \in live : Rank(live, o) = x}
<1>2. 0 \in T
  BY <1>1 DEF Ranks
<1>3. ASSUME NEW k \in Nat, k \in T
      PROVE  k + 1 \in T
  <2>1. Rank(live, k) \in Nat /\ Rank(live, k + 1) = IF k \in live THEN Rank(live, k) + 1 ELSE Rank(live, k)
    BY <1>1 DEF Ranks
  <2> SUFFICES ASSUME NEW x \in Nat, x < Rank(live, k + 1)
               PROVE  \E o \in live : Rank(live, o) = x
    OBVIOUS
  <2>2. x < Rank(live, k) \/ (k \in live /\ x = Rank(live, k))
    BY <2>1
  <2> QED
    BY <1>3, <2>2
<1>4. Nat \subseteq T
  <2> HIDE DEF T
  <2> QED
    BY <1>2, <1>3, Induction
<1>5. Rank(live, n) \in Nat
  BY <1>1 DEF Ranks
<1> QED
  BY <1>4, <1>5

LEMMA RankOfAll ==
  ASSUME NEW n \in Nat, NEW live \in Lives(n)
  PROVE  Rank(live, n) = Cardinality(live) /\ IsFiniteSet(live) /\ Cardinality(live) \in Nat
<1>1. IsFiniteSet(live)
  BY RankIs
<1>2. Below(live, n) = live
  <2>1. \A x \in live : x < n
    BY DEF Lives
  <2> QED
    BY <2>1 DEF Below
<1> QED
  BY <1>1, <1>2, FS_CardinalityType DEF Rank

\* Sums of the same weights.
LEMMA TotalSame ==
  ASSUME NEW S, NEW w \in Weights(S), NEW s \in Seq(S), NEW t \in Seq(S), Len(t) = Len(s),
         \A k \in 1..Len(s) : w[t[k]] = w[s[k]]
  PROVE  Total(w, S, t) = Total(w, S, s)
<1> DEFINE n == Len(s)
<1>1. PICK r : r = [k \in 0..n |-> IF k = 0 THEN 0 ELSE r[k - 1] + w[s[k]]]
  BY TotalUnfolds
<1>2. n \in Nat /\ Len(t) = n /\ \A k \in 1..n : w[t[k]] = w[s[k]]
  BY LenProperties
<1> HIDE DEF n
<1>3. r[0] = 0 /\ \A k \in 1..n : r[k] = r[k - 1] + w[s[k]]
  <2>1. 0 \in 0..n /\ \A k \in 1..n : k \in 0..n /\ k # 0
    BY <1>2
  <2> QED
    BY <1>1, <2>1
<1>4. \A k \in 1..n : r[k] = r[k - 1] + w[t[k]]
  BY <1>2, <1>3
<1>5. r[n] = Total(w, S, s)
  BY <1>3, TotalIs DEF n
<1>6. r[n] = Total(w, S, t)
  BY <1>2, <1>3, <1>4, TotalIs
<1> QED
  BY <1>5, <1>6

LEMMA AddsVia ==
  ASSUME NEW live, Ranks(live), NEW d \in Seq(Ref)
  PROVE  /\ Total(RefAdds, Ref, Via(Shift(live), d)) = Total(RefAdds, Ref, d)
         /\ \A o \in Offs(d) : Rank(live, o) \in Offs(Via(Shift(live), d))
<1> DEFINE m == Shift(live)
           v == Via(m, d)
<1>1. m \in Renames /\ \A r \in Ref : m[r] = IF r[1] = "Add" THEN <<"Add", Rank(live, r[2])>> ELSE r
  BY ShiftIs DEF Shift
<1>2. v \in Seq(Ref) /\ Len(v) = Len(d) /\ \A k \in 1..Len(d) : d[k] \in Ref /\ v[k] = m[d[k]]
  BY <1>1, ViaIs
<1> HIDE DEF m, v
<1>3. \A k \in 1..Len(d) : v[k] \in Ref /\ v[k][1] = d[k][1]
  <2>1. \A k \in 1..Len(d) : v[k] \in Ref
    BY <1>2, ElementOfSeq
  <2>2. ASSUME NEW r \in Ref
        PROVE  m[r][1] = r[1]
    <3>1. CASE r[1] = "Add"
      <4>1. m[r] = <<"Add", Rank(live, r[2])>>
        BY <1>1, <3>1
      <4> QED
        BY <3>1, <4>1
    <3>2. CASE r[1] # "Add"
      BY <1>1, <3>2
    <3> QED
      BY <3>1, <3>2
  <2> QED
    BY <1>2, <2>1, <2>2
<1>4. \A k \in 1..Len(d) : RefAdds[v[k]] = RefAdds[d[k]]
  BY <1>2, <1>3 DEF RefAdds
<1>5. Total(RefAdds, Ref, v) = Total(RefAdds, Ref, d)
  BY <1>2, <1>4, RefAddsIn, TotalSame
<1>6. ASSUME NEW o \in Offs(d)
      PROVE  Rank(live, o) \in Offs(v)
  <2>1. PICK k \in 1..Len(d) : o \in Nat /\ d[k] = <<"Add", o>>
    BY DEF Offs
  <2>2. v[k] = <<"Add", Rank(live, o)>>
    BY <1>1, <1>2, <2>1
  <2>3. Rank(live, o) \in Nat
    BY <2>1 DEF Ranks
  <2> QED
    BY <1>2, <2>2, <2>3 DEF Offs
<1> QED
  BY <1>5, <1>6 DEF v, m

\* A compaction changes what no transaction is charged for.
LEMMA RebasedSame ==
  ASSUME NEW live, Ranks(live), NEW e \in Edits, Refs(e.pieces) \in Seq(Stay(live))
  PROVE  /\ Rebased(e, live) \in Edits
         /\ EditBytes[Rebased(e, live)] = EditBytes[e] /\ EditAdds[Rebased(e, live)] = EditAdds[e]
         /\ \A o \in Offs(Refs(e.pieces)) : Rank(live, o) \in Offs(Refs(Rebased(e, live).pieces))
<1> DEFINE ps == e.pieces
           qs == RebaseAll(ps, live)
           f == Rebased(e, live)
<1>1. ps \in Seq(Kept) /\ ps \in Seq(AnyPiece)
  BY KeptIn DEF Edits
<1>2. qs \in Seq(Kept) /\ Len(qs) = Len(ps) /\ Refs(qs) = Via(Shift(live), Refs(ps))
  BY <1>1, RebaseAllIs
<1>3. f \in Edits /\ f.pieces = qs
  BY <1>2 DEF Rebased, Edits
<1>4. qs \in Seq(AnyPiece) /\ Refs(ps) \in Seq(Ref) /\ Shift(live) \in Renames
  BY <1>1, <1>2, KeptIn, RefsIn, ShiftIs
<1> HIDE DEF ps, qs, f
<1>5. TotalLen(qs) = TotalLen(ps)
  <2>1. Len(Via(Shift(live), Refs(ps))) = Len(Refs(ps))
    BY <1>4, ViaIs
  <2> QED
    BY <1>1, <1>2, <1>4, <2>1, TotalLenIs
<1>6. AddLen(qs) = AddLen(ps)
  BY <1>1, <1>2, <1>4, AddLenRefs, AddsVia
<1>7. EditBytes[f] = EditCost + PieceCost * Len(qs) + TotalLen(qs) /\ EditAdds[f] = AddLen(qs)
  BY <1>3 DEF EditBytes, EditAdds
<1>8. EditBytes[e] = EditCost + PieceCost * Len(ps) + TotalLen(ps) /\ EditAdds[e] = AddLen(ps)
  BY DEF EditBytes, EditAdds, ps
<1>9. \A o \in Offs(Refs(ps)) : Rank(live, o) \in Offs(Refs(qs))
  BY <1>2, <1>4, AddsVia
<1> QED
  BY <1>2, <1>3, <1>5, <1>6, <1>7, <1>8, <1>9 DEF ps, f

LEMMA PackedSame ==
  ASSUME NEW live, Ranks(live), NEW t \in Paid, Holds(t.edits, Stay(live)), Packed(t, live) \in Tx
  PROVE  /\ Packed(t, live) \in Paid /\ Packed(t, live).bytes = t.bytes
         /\ Packed(t, live).addBytes = t.addBytes /\ Packed(t, live).id = t.id
         /\ \A o \in LiveOf(t.edits) : Rank(live, o) \in LiveOf(Packed(t, live).edits)
<1> DEFINE u == Packed(t, live)
           es == t.edits
           rs == RebasedEdits(es, live)
<1>1. t \in Tx /\ es \in Seq(Edits) /\ t.bytes = BytesOf(es) /\ t.addBytes = AddBytesOf(es)
  BY DEF Paid, Tx
<1>2. u.edits = rs /\ u.bytes = t.bytes /\ u.addBytes = t.addBytes /\ u.id = t.id /\ u \in Tx
  BY <1>1 DEF Packed, Tx
<1> HIDE DEF u
<1>3. Len(es) \in Nat /\ \A j \in 1..Len(es) : es[j] \in Edits /\ Refs(es[j].pieces) \in Seq(Stay(live))
  BY <1>1, LenProperties, ElementOfSeq DEF Holds
<1>4. rs \in Seq(Edits)
  BY <1>2 DEF Tx
<1>5. Len(rs) = Len(es) /\ \A j \in 1..Len(es) : rs[j] = Rebased(es[j], live)
  BY <1>3 DEF RebasedEdits
<1> HIDE DEF rs, es
<1>6. \A j \in 1..Len(es) :
        /\ EditBytes[rs[j]] = EditBytes[es[j]] /\ EditAdds[rs[j]] = EditAdds[es[j]]
        /\ \A o \in Offs(Refs(es[j].pieces)) : Rank(live, o) \in Offs(Refs(rs[j].pieces))
  <2> SUFFICES ASSUME NEW j \in 1..Len(es)
               PROVE  /\ EditBytes[rs[j]] = EditBytes[es[j]] /\ EditAdds[rs[j]] = EditAdds[es[j]]
                      /\ \A o \in Offs(Refs(es[j].pieces)) : Rank(live, o) \in Offs(Refs(rs[j].pieces))
    OBVIOUS
  <2> DEFINE e == es[j]
  <2>1. e \in Edits /\ Refs(e.pieces) \in Seq(Stay(live)) /\ rs[j] = Rebased(e, live)
    BY <1>3, <1>5
  <2> HIDE DEF e
  <2>2. /\ EditBytes[Rebased(e, live)] = EditBytes[e] /\ EditAdds[Rebased(e, live)] = EditAdds[e]
        /\ \A o \in Offs(Refs(e.pieces)) : Rank(live, o) \in Offs(Refs(Rebased(e, live).pieces))
    BY <2>1, RebasedSame
  <2> QED
    BY <2>1, <2>2 DEF e
<1>7. Total(EditBytes, Edits, rs) = Total(EditBytes, Edits, es) /\ Total(EditAdds, Edits, rs) = Total(EditAdds, Edits, es)
  BY <1>1, <1>4, <1>5, <1>6, EditWeights, TotalSame
<1>8. BytesOf(rs) = BytesOf(es) /\ AddBytesOf(rs) = AddBytesOf(es)
  BY <1>1, <1>4, <1>7, BytesAre
<1>9. u \in Paid
  BY <1>1, <1>2, <1>8 DEF Paid, es
<1>10. \A o \in LiveOf(es) : Rank(live, o) \in LiveOf(rs)
  <2> SUFFICES ASSUME NEW o \in LiveOf(es)
               PROVE  Rank(live, o) \in LiveOf(rs)
    OBVIOUS
  <2>1. PICK j \in 1..Len(es) : o \in Offs(Refs(es[j].pieces))
    BY DEF LiveOf
  <2>2. Rank(live, o) \in Offs(Refs(rs[j].pieces))
    BY <1>6, <2>1
  <2> QED
    BY <1>5, <2>2 DEF LiveOf
<1> QED
  BY <1>2, <1>9, <1>10 DEF u, es

\* How much may be unused of an add buffer of n scalars, of which c are in use, when
\* lost scalars have been dropped since the last check.
Waste(n, c, lost) ==
  n - c <= lost \/ (n - c) - lost < CompactMin \/ (n - c) - lost < (n + 3) \div 4

LEMMA WasteLost ==
  ASSUME NEW n \in Nat, NEW c \in Nat, NEW d \in Nat, NEW lost \in Nat, NEW more \in Nat,
         Waste(n, c, lost), c <= d + more
  PROVE  Waste(n, d, lost + more)
<1> DEFINE q == (n + 3) \div 4
<1>1. CompactMin \in Nat /\ q \in Int
  BY PieceTableAssumption
<1>2. n - c <= lost \/ (n - c) - lost < CompactMin \/ (n - c) - lost < q
  BY DEF Waste
<1> HIDE DEF q
<1>3. n - d <= lost + more \/ (n - d) - (lost + more) < CompactMin \/ (n - d) - (lost + more) < q
  BY <1>1, <1>2
<1> QED
  BY <1>3 DEF Waste, q

\* Scalars that are put to use waste nothing.
LEMMA WasteUsed ==
  ASSUME NEW n \in Nat, NEW c \in Nat, NEW lost \in Nat, NEW more \in Nat, NEW d \in Nat,
         Waste(n, c, lost), c + more <= d
  PROVE  Waste(n + more, d, lost)
<1> DEFINE q == (n + 3) \div 4
           r == ((n + more) + 3) \div 4
<1>1. CompactMin \in Nat /\ q \in Int /\ r \in Int /\ q <= r
  BY PieceTableAssumption
<1>2. n - c <= lost \/ (n - c) - lost < CompactMin \/ (n - c) - lost < q
  BY DEF Waste
<1> HIDE DEF q, r
<1>3. (n + more) - d <= lost \/ ((n + more) - d) - lost < CompactMin \/ ((n + more) - d) - lost < r
  BY <1>1, <1>2
<1> QED
  BY <1>3 DEF Waste, r

LEMMA SumsSplit ==
  ASSUME NEW ts \in Seq(Tx), NEW k \in 0..Len(ts)
  PROVE  /\ SumBytes(ts) = SumBytes(SubSeq(ts, 1, k)) + SumBytes(SubSeq(ts, k + 1, Len(ts)))
         /\ LiveIn(ts) = LiveIn(SubSeq(ts, 1, k)) \cup LiveIn(SubSeq(ts, k + 1, Len(ts)))
<1> DEFINE gone == SubSeq(ts, 1, k)
           kept == SubSeq(ts, k + 1, Len(ts))
           n == Len(ts)
<1>1. /\ gone \in Seq(Tx) /\ Len(gone) = k /\ \A i \in 1..k : gone[i] = ts[i]
      /\ kept \in Seq(Tx) /\ Len(kept) = n - k /\ \A i \in 1..n - k : kept[i] = ts[k + i]
      /\ n \in Nat /\ k \in Nat /\ k <= n
  BY PrefixAt, SuffixAt, LenProperties
<1>2. ts = gone \o kept
  BY SplitIsAll
<1>3. TxBytes \in Weights(Tx)
  BY DEF TxBytes, Tx, Weights
<1> HIDE DEF gone, kept, n
<1>4. Total(TxBytes, Tx, ts) = Total(TxBytes, Tx, gone) + Total(TxBytes, Tx, kept)
  BY <1>1, <1>2, <1>3, TotalConcat
<1>5. SumBytes(ts) = SumBytes(gone) + SumBytes(kept)
  BY <1>1, <1>4, SumBytesIs
<1>6. \A o : (\E i \in 1..n : o \in LiveOf(ts[i].edits))
               <=> (\E i \in 1..k : o \in LiveOf(gone[i].edits)) \/ (\E i \in 1..n - k : o \in LiveOf(kept[i].edits))
  <2> SUFFICES ASSUME NEW o
               PROVE  (\E i \in 1..n : o \in LiveOf(ts[i].edits))
               <=> (\E i \in 1..k : o \in LiveOf(gone[i].edits)) \/ (\E i \in 1..n - k : o \in LiveOf(kept[i].edits))
    OBVIOUS
  <2>1. ASSUME NEW i \in 1..n, o \in LiveOf(ts[i].edits)
        PROVE  (\E j \in 1..k : o \in LiveOf(gone[j].edits)) \/ (\E j \in 1..n - k : o \in LiveOf(kept[j].edits))
    <3>1. CASE i <= k
      <4>1. i \in 1..k
        BY <1>1, <3>1
      <4> QED
        BY <1>1, <2>1, <4>1
    <3>2. CASE ~(i <= k)
      <4>1. i - k \in 1..n - k /\ k + (i - k) = i
        BY <1>1, <3>2
      <4>2. kept[i - k] = ts[i]
        BY <1>1, <4>1
      <4> QED
        BY <2>1, <4>1, <4>2
    <3> QED
      BY <3>1, <3>2
  <2>2. ASSUME NEW i \in 1..k, o \in LiveOf(gone[i].edits)
        PROVE  \E j \in 1..n : o \in LiveOf(ts[j].edits)
    <3>1. i \in 1..n
      BY <1>1
    <3> QED
      BY <1>1, <2>2, <3>1
  <2>3. ASSUME NEW i \in 1..n - k, o \in LiveOf(kept[i].edits)
        PROVE  \E j \in 1..n : o \in LiveOf(ts[j].edits)
    <3>1. k + i \in 1..n
      BY <1>1
    <3> QED
      BY <1>1, <2>3, <3>1
  <2> QED
    BY <2>1, <2>2, <2>3
<1>7. LiveIn(ts) = LiveIn(gone) \cup LiveIn(kept)
  <2>1. \A o : o \in LiveIn(ts) <=> \E i \in 1..n : o \in LiveOf(ts[i].edits)
    BY DEF LiveIn, n
  <2>2. \A o : o \in LiveIn(gone) <=> \E i \in 1..k : o \in LiveOf(gone[i].edits)
    BY <1>1 DEF LiveIn
  <2>3. \A o : o \in LiveIn(kept) <=> \E i \in 1..n - k : o \in LiveOf(kept[i].edits)
    BY <1>1 DEF LiveIn
  <2> QED
    BY <1>6, <2>1, <2>2, <2>3
<1> QED
  BY <1>5, <1>7 DEF gone, kept

\* The invariant of what the history is charged for and of what compaction may reclaim.
Accounts ==
  /\ undo \in Seq(Paid) /\ redo \in Seq(Paid) /\ retained = SumBytes(undo) + SumBytes(redo)
  /\ Len(undo) + Len(redo) > 1 => Len(undo) + Len(redo) <= MaxTransactions /\ retained <= MaxBytes
  /\ discarded \in Nat /\ Waste(Len(add), Cardinality(Live(pieces, undo, redo)), discarded)

LEMMA NothingLive == LiveIn(<<>>) = {} /\ SumBytes(<<>>) = 0 /\ SumAddBytes(<<>>) = 0 /\ <<>> \in Seq(Paid)
<1>1. LiveIn(<<>>) = {}
  BY DEF LiveIn
<1>2. TxBytes \in Weights(Tx) /\ TxAddBytes \in Weights(Tx)
  BY DEF TxBytes, TxAddBytes, Tx, Weights
<1>3. Total(TxBytes, Tx, <<>>) = 0 /\ Total(TxAddBytes, Tx, <<>>) = 0 /\ <<>> \in Seq(Tx) /\ <<>> \in Seq(Paid)
  BY <1>2, TotalFacts, EmptySeq
<1> QED
  BY <1>1, <1>3, SumBytesIs, SumAddBytesIs

\* What is in use is counted.
LEMMA LiveCounts ==
  ASSUME NEW ps \in Seq(AnyPiece), NEW us \in Seq(Paid), NEW rs \in Seq(Paid)
  PROVE  /\ IsFiniteSet(Live(ps, us, rs)) /\ Cardinality(Live(ps, us, rs)) \in Nat
         /\ IsFiniteSet(Offs(Refs(ps)) \cup LiveIn(us))
         /\ Cardinality(Offs(Refs(ps)) \cup LiveIn(us)) \in Nat
<1>1. IsFiniteSet(Offs(Refs(ps))) /\ IsFiniteSet(LiveIn(us)) /\ IsFiniteSet(LiveIn(rs))
  BY RefsIn, OffsBound, LiveInBound
<1>2. IsFiniteSet(Offs(Refs(ps)) \cup LiveIn(us))
  BY <1>1, FS_Union
<1>3. IsFiniteSet((Offs(Refs(ps)) \cup LiveIn(us)) \cup LiveIn(rs))
  BY <1>1, <1>2, FS_Union
<1> QED
  BY <1>2, <1>3, FS_CardinalityType DEF Live

\* The offsets that a document and one side of the history use.
Used(D, us) == Offs(D) \cup LiveIn(us)

\* The transactions us are those of ts, rebased.
AllPacked(us, ts, live) ==
  /\ Len(us) = Len(ts)
  /\ \A i \in 1..Len(ts) : us[i] = Packed(ts[i], live) /\ Holds(ts[i].edits, Stay(live))

\* What a compaction leaves is in use, all of it.
LEMMA PackedLive ==
  ASSUME NEW ad \in Texts, NEW D \in Seq(Ref), NEW kept \in Seq(Paid), NEW us \in Seq(Tx), NEW ae \in Texts,
         NEW live \in Lives(Len(ad)), live = Used(D, kept), Ranks(live),
         AllPacked(us, kept, live),
         ae = KeepLive(ad, live), NEW qs \in Seq(AnyPiece), Refs(qs) = Via(Shift(live), D)
  PROVE  /\ us \in Seq(Paid) /\ SumBytes(us) = SumBytes(kept)
         /\ Waste(Len(ae), Cardinality(Live(qs, us, <<>>)), 0)
<1>0. /\ Len(us) = Len(kept)
      /\ \A i \in 1..Len(kept) : us[i] = Packed(kept[i], live) /\ Holds(kept[i].edits, Stay(live))
  BY DEF AllPacked
<1>1. Len(kept) \in Nat /\ \A i \in 1..Len(kept) : kept[i] \in Paid /\ us[i] \in Tx
  BY <1>0, LenProperties, ElementOfSeq
<1>2. \A i \in 1..Len(kept) : /\ us[i] \in Paid /\ us[i].bytes = kept[i].bytes
                              /\ \A o \in LiveOf(kept[i].edits) : Rank(live, o) \in LiveOf(us[i].edits)
  <2> SUFFICES ASSUME NEW i \in 1..Len(kept)
               PROVE  /\ us[i] \in Paid /\ us[i].bytes = kept[i].bytes
                      /\ \A o \in LiveOf(kept[i].edits) : Rank(live, o) \in LiveOf(us[i].edits)
    OBVIOUS
  <2> DEFINE t == kept[i]
  <2>1. t \in Paid /\ us[i] = Packed(t, live) /\ us[i] \in Tx /\ Holds(t.edits, Stay(live))
    BY <1>0, <1>1
  <2> HIDE DEF t
  <2>2. /\ Packed(t, live) \in Paid /\ Packed(t, live).bytes = t.bytes
        /\ \A o \in LiveOf(t.edits) : Rank(live, o) \in LiveOf(Packed(t, live).edits)
    BY <2>1, PackedSame
  <2> QED
    BY <2>1, <2>2 DEF t
<1>3. us \in Seq(Paid)
  BY <1>0, <1>2, AllIn
<1>4. SumBytes(us) = SumBytes(kept)
  <2>1. TxBytes \in Weights(Tx) /\ \A i \in 1..Len(kept) : TxBytes[us[i]] = us[i].bytes /\ TxBytes[kept[i]] = kept[i].bytes
    BY <1>1, PaidIn DEF TxBytes, Tx, Weights
  <2>2. kept \in Seq(Tx) /\ \A i \in 1..Len(kept) : TxBytes[us[i]] = TxBytes[kept[i]]
    BY <1>2, <2>1, PaidIn
  <2>3. Total(TxBytes, Tx, us) = Total(TxBytes, Tx, kept)
    BY <1>0, <2>1, <2>2, TotalSame
  <2> QED
    BY <2>2, <2>3, SumBytesIs
<1> DEFINE n == Len(ae)
           L == Live(qs, us, <<>>)
<1>5. n \in Nat /\ n = Rank(live, Len(ad)) /\ Len(ad) \in Nat
  BY KeepLiveIs, LenProperties DEF Texts
<1>6. \A o \in live : Rank(live, o) \in L
  <2>1. \A o \in Offs(D) : Rank(live, o) \in Offs(Refs(qs))
    BY AddsVia
  <2>2. ASSUME NEW o \in LiveIn(kept)
        PROVE  Rank(live, o) \in LiveIn(us)
    <3>1. PICK i \in 1..Len(kept) : o \in LiveOf(kept[i].edits)
      BY DEF LiveIn
    <3>2. Rank(live, o) \in LiveOf(us[i].edits)
      BY <1>2, <3>1
    <3> QED
      BY <1>0, <3>2 DEF LiveIn
  <2> QED
    BY <2>1, <2>2 DEF Live, Used
<1>7. 0..n - 1 \subseteq L
  <2> SUFFICES ASSUME NEW x \in 0..n - 1
               PROVE  x \in L
    OBVIOUS
  <2>1. x \in 0..Rank(live, Len(ad)) - 1
    BY <1>5
  <2>2. PICK o \in live : Rank(live, o) = x
    BY <1>5, <2>1, RanksFill
  <2> QED
    BY <1>6, <2>2
<1>8. IsFiniteSet(L) /\ Cardinality(L) \in Nat
  BY <1>3, NothingLive, LiveCounts
<1> HIDE DEF L, n
<1>9. IsFiniteSet(0..n - 1) /\ Cardinality(0..n - 1) = n
  <2>1. 0 \in Int /\ n - 1 \in Int
    BY <1>5
  <2>2. IsFiniteSet(0..n - 1) /\ Cardinality(0..n - 1) = IF 0 > n - 1 THEN 0 ELSE (n - 1) - 0 + 1
    BY <2>1, FS_Interval
  <2> QED
    BY <1>5, <2>2
<1>10. Cardinality(0..n - 1) <= Cardinality(L)
  BY <1>7, <1>8, FS_Subset
<1>11. n - Cardinality(L) <= 0
  BY <1>5, <1>8, <1>9, <1>10
<1>12. Waste(n, Cardinality(L), 0)
  BY <1>11 DEF Waste
<1> QED
  BY <1>3, <1>4, <1>12 DEF n, L

LEMMA CommitAccounts ==
  ASSUME NEW u \in Seq(Paid), u # <<>>, redo \in Seq(Paid), discarded \in Nat, NEW ps, NEW ad \in Texts,
         NEW run, Good(ps, ad), Chain("undo", u, Refs(ps), ad),
         Waste(Len(ad), Cardinality(Live(ps, u, redo)), discarded), Commit(u, SumBytes(u), ps, ad, run)
  PROVE  Accounts'
<1> DEFINE bytes == SumBytes(u)
           k     == DropCount(u, bytes)
           gone  == SubSeq(u, 1, k)
           kept  == SubSeq(u, k + 1, Len(u))
           lost  == Lost(gone)
           check == lost >= CompactMin /\ Len(ad) >= CompactMin
           all   == ToSet(ps) \cup PiecesOf(kept)
           live  == AddOffsets(all)
           free  == Len(ad) - Cardinality(live)
           pack  == check /\ free >= CompactMin /\ free >= (Len(ad) + 3) \div 4
           D     == Refs(ps)
           n     == Len(ad)
<1>1. /\ redo' = <<>>
      /\ undo' = IF pack THEN RebaseHistory(kept, live) ELSE kept
      /\ pieces' = IF pack THEN RebaseAll(ps, live) ELSE ps
      /\ add' = IF pack THEN KeepLive(ad, live) ELSE ad
      /\ retained' = bytes - SumBytes(gone)
      /\ discarded' = IF check THEN 0 ELSE lost
  BY DEF Commit
<1>2. u \in Seq(Tx) /\ bytes \in Nat /\ redo \in Seq(Tx)
  BY PaidIn, SumsIn
<1>3. k \in 0..Len(u) - 1 /\ (k = Len(u) - 1 \/ Enough(u, bytes, k))
  <2>1. bytes \in Int
    BY <1>2
  <2>2. Pruned(u, bytes, k)
    BY <1>2, <2>1, DropCountIs
  <2> QED
    BY <2>2 DEF Pruned
<1> HIDE DEF bytes, k
<1>4. Len(u) \in Nat /\ k \in 0..Len(u) /\ Len(u) - k > 0
  BY <1>2, <1>3, LenProperties
<1>5. gone \in Seq(Paid) /\ kept \in Seq(Paid) /\ Len(kept) = Len(u) - k /\ gone \in Seq(Tx) /\ kept \in Seq(Tx)
  BY <1>4, PrefixAt, SuffixAt, PaidIn
<1>6. bytes = SumBytes(gone) + SumBytes(kept) /\ LiveIn(u) = LiveIn(gone) \cup LiveIn(kept)
  BY <1>2, <1>4, SumsSplit DEF bytes
<1>7. Chain("undo", kept, D, ad)
  BY <1>2, <1>4, ChainSuffix
<1>8. SumBytes(gone) \in Nat /\ SumBytes(kept) \in Nat
  BY <1>5, SumsIn
<1>9. retained' = SumBytes(kept)
  <2> DEFINE a == SumBytes(gone)
             b == SumBytes(kept)
  <2>1. a \in Nat /\ b \in Nat /\ bytes = a + b /\ retained' = bytes - a
    BY <1>1, <1>6, <1>8
  <2> HIDE DEF a, b
  <2> QED
    BY <2>1 DEF b
<1>10. Len(kept) > 1 => Len(kept) <= MaxTransactions /\ retained' <= MaxBytes
  <2> HIDE DEF kept
  <2>1. Len(kept) > 1 => k # Len(u) - 1
    BY <1>4, <1>5
  <2>2. Len(kept) > 1 => Enough(u, bytes, k)
    BY <1>3, <2>1
  <2> QED
    BY <1>1, <1>5, <2>2 DEF Enough
<1>11. ps \in Seq(Kept) /\ ps # <<>> /\ D \in Seq(Bounds(ad)) /\ ps \in Seq(AnyPiece) /\ D \in Seq(Ref)
  BY KeptIn, RefsIn DEF Good, Docs
<1>12. live = Offs(D) \cup LiveIn(kept)
  BY <1>5, <1>11, LiveIs
<1>13. IsFiniteSet(live) /\ Cardinality(live) \in Nat /\ n \in Nat
  BY <1>5, <1>11, <1>12, LiveCounts, LenProperties DEF Texts
<1>14. lost = discarded + SumAddBytes(redo) + SumAddBytes(gone)
  BY DEF Lost
<1> HIDE DEF pack, check, lost, live
<1>15. lost \in Nat /\ Waste(n, Cardinality(live), lost)
  <2> DEFINE a == SumAddBytes(redo)
             b == SumAddBytes(gone)
             mid == Live(ps, u, redo)
             c == Cardinality(mid)
             d == Cardinality(live)
             X == LiveIn(gone) \cup LiveIn(redo)
  <2>1. /\ IsFiniteSet(LiveIn(gone)) /\ b \in Nat /\ Cardinality(LiveIn(gone)) <= b
        /\ IsFiniteSet(LiveIn(redo)) /\ a \in Nat /\ Cardinality(LiveIn(redo)) <= a
    BY <1>5, LiveInBound
  <2>2. IsFiniteSet(X) /\ Cardinality(X) <= b + a
    BY <2>1, CupBound
  <2>3. mid = live \cup X
    BY <1>6, <1>12 DEF Live
  <2>4. c \in Nat
    BY <1>11, LiveCounts
  <2> HIDE DEF a, b, mid, X
  <2>5. b + a \in Nat /\ d \in Nat /\ d <= d
    BY <1>13, <2>1
  <2>6. Cardinality(live \cup X) <= d + (b + a)
    BY <1>13, <2>2, <2>5, CupBound
  <2>7. c <= d + (b + a)
    BY <2>3, <2>6
  <2>8. Waste(n, c, discarded)
    BY DEF mid
  <2> HIDE DEF c, d, n
  <2>9. Waste(n, d, discarded + (b + a))
    BY <1>13, <2>4, <2>5, <2>7, <2>8, WasteLost
  <2>10. lost = discarded + (b + a) /\ lost \in Nat
    BY <1>14, <2>1 DEF a, b
  <2> QED
    BY <2>9, <2>10 DEF d
<1>16. CASE ~pack
  <2>1. undo' = kept /\ pieces' = ps /\ add' = ad /\ redo' = <<>>
    BY <1>1, <1>16
  <2>2. Live(ps, kept, <<>>) = live
    BY <1>12, NothingLive DEF Live
  <2>3. discarded' \in Nat /\ Waste(n, Cardinality(live), discarded')
    <3>1. CASE check
      <4>1. discarded' = 0
        BY <1>1, <3>1
      <4>2. free < CompactMin \/ free < (n + 3) \div 4
        <5> DEFINE q == (n + 3) \div 4
        <5>1. q \in Int /\ CompactMin \in Nat /\ free \in Int
          BY <1>13, PieceTableAssumption
        <5>2. ~(free >= CompactMin /\ free >= q)
          BY <1>16, <3>1 DEF pack
        <5> HIDE DEF q, free
        <5>3. free < CompactMin \/ free < q
          BY <5>1, <5>2
        <5> QED
          BY <5>3 DEF q
      <4> DEFINE q == (n + 3) \div 4
                 d == Cardinality(live)
      <4>3. (n - d) - 0 = n - d
        BY <1>13
      <4> QED
        BY <4>1, <4>2, <4>3 DEF Waste
    <3>2. CASE ~check
      BY <1>1, <1>15, <3>2
    <3> QED
      BY <3>1, <3>2
  <2>4. SumBytes(redo') = 0 /\ redo' \in Seq(Paid) /\ Len(redo') = 0
    BY <2>1, NothingLive
  <2>5. retained' = SumBytes(undo') + SumBytes(redo')
    BY <1>8, <1>9, <2>1, <2>4
  <2>6. Len(undo') + Len(redo') = Len(kept)
    BY <1>4, <1>5, <2>1, <2>4
  <2>7. Waste(Len(add'), Cardinality(Live(pieces', undo', redo')), discarded')
    BY <2>1, <2>2, <2>3
  <2> QED
    BY <1>5, <1>10, <2>1, <2>3, <2>4, <2>5, <2>6, <2>7 DEF Accounts
<1>17. CASE pack
  <2>1. all \subseteq Fits(ad)
    <3>1. ps \in Seq(Fits(ad))
      BY <1>11, FitsAre
    <3>2. \A i \in 1..Len(ps) : ps[i] \in Fits(ad)
      BY <3>1, ElementOfSeq
    <3>3. ToSet(ps) \subseteq Fits(ad)
      BY <3>2 DEF ToSet
    <3>4. PiecesOf(kept) \subseteq Fits(ad)
      BY <1>5, <1>7, ChainHolds
    <3> QED
      BY <3>3, <3>4
  <2>2. ToSet(ps) \subseteq all /\ PiecesOf(kept) \subseteq all
    OBVIOUS
  <2> HIDE DEF all
  <2>3. live \in Lives(Len(ad))
    BY <2>1, OffsetsAre DEF live
  <2>4. D \in Seq(Stay(live))
    BY <1>11, <2>2, LiveStay DEF live
  <2>5. \A i \in 1..Len(kept) : Holds(kept[i].edits, Stay(live))
    BY <1>5, <1>7, <2>2, HistoryStays DEF live
  <2> DEFINE ae == KeepLive(ad, live)
             qs == RebaseAll(ps, live)
             us == RebaseHistory(kept, live)
  <2>6. Ranks(live) /\ ae \in Texts
    BY <2>3, <2>4, StayReads
  <2>7. qs \in Seq(Kept) /\ Refs(qs) = Via(Shift(live), D)
    BY <1>11, <2>4, <2>6, RebaseAllIs
  <2>8. /\ us \in Seq(Tx) /\ Len(us) = Len(kept)
        /\ \A i \in 1..Len(kept) : us[i] = Packed(kept[i], live)
    BY <1>5, <1>7, <2>3, <2>4, <2>5, ChainPacked
  <2>9. undo' = us /\ pieces' = qs /\ add' = ae /\ redo' = <<>> /\ discarded' = 0
    BY <1>1, <1>17 DEF pack
  <2>10. qs \in Seq(AnyPiece) /\ ae = KeepLive(ad, live)
    BY <2>7, KeptIn
  <2> HIDE DEF ae, qs, us, D, kept
  <2>11. us \in Seq(Paid) /\ SumBytes(us) = SumBytes(kept) /\ Waste(Len(ae), Cardinality(Live(qs, us, <<>>)), 0)
    <3>1. AllPacked(us, kept, live)
      BY <2>5, <2>8 DEF AllPacked
    <3>2. D \in Seq(Ref) /\ kept \in Seq(Paid) /\ us \in Seq(Tx) /\ ae \in Texts /\ Len(us) = Len(kept)
      BY <1>5, <1>11, <2>6, <2>8
    <3>3. live = Used(D, kept)
      BY <1>12 DEF Used
    <3> QED
      BY <2>3, <2>6, <2>7, <2>10, <3>1, <3>2, <3>3, PackedLive
  <2>12. SumBytes(redo') = 0 /\ redo' \in Seq(Paid) /\ Len(redo') = 0
    BY <2>9, NothingLive
  <2>13. retained' = SumBytes(undo') + SumBytes(redo')
    BY <1>8, <1>9, <2>9, <2>11, <2>12
  <2>14. Len(undo') + Len(redo') = Len(kept)
    <3>1. Len(us) = Len(kept) /\ Len(kept) \in Nat
      BY <1>5, <2>8, LenProperties
    <3> QED
      BY <2>9, <2>12, <3>1
  <2>15. discarded' \in Nat /\ Waste(Len(add'), Cardinality(Live(pieces', undo', redo')), discarded')
    BY <2>9, <2>11
  <2> QED
    BY <1>10, <2>9, <2>11, <2>12, <2>13, <2>14, <2>15 DEF Accounts
<1> QED
  BY <1>16, <1>17
-----------------------------------------------------------------------------
(* Undo and redo are exact. *)

\* A function that steps down from n, from a in V[n] to each V[i].
StepsDown(n, V, a, G) == a \in V[n] /\ \A i \in 1..n : \A x \in V[i] : G[i][x] \in V[i - 1]
Descends(n, V, a, G, f) ==
  f[n] = a /\ (\A i \in 0..n : f[i] \in V[i]) /\ \A i \in 1..n : f[i - 1] = G[i][f[i]]

LEMMA DownExists ==
  ASSUME NEW n \in Nat, NEW V, NEW a, NEW G, StepsDown(n, V, a, G)
  PROVE  \E f : Descends(n, V, a, G, f)
<1> DEFINE U == [k \in 0..n |-> V[n - k]]
           H == [k \in 1..n |-> G[n - k + 1]]
<1>1. StepsIn(n, U, a, H)
  <2>1. a \in U[0]
    BY DEF StepsDown
  <2>2. ASSUME NEW k \in 1..n, NEW x \in U[k - 1]
        PROVE  H[k][x] \in U[k]
    <3>1. k - 1 \in 0..n /\ k \in 0..n /\ n - k + 1 \in 1..n /\ n - (k - 1) = n - k + 1 /\ (n - k + 1) - 1 = n - k
      OBVIOUS
    <3>2. x \in V[n - k + 1] /\ H[k] = G[n - k + 1] /\ U[k] = V[n - k]
      BY <3>1
    <3>3. G[n - k + 1][x] \in V[(n - k + 1) - 1]
      BY <3>1, <3>2 DEF StepsDown
    <3> QED
      BY <3>1, <3>2, <3>3
  <2> QED
    BY <2>1, <2>2 DEF StepsIn
<1>2. PICK h : StepsAre(n, U, a, H, h)
  BY <1>1, StepsExist
<1> DEFINE f == [i \in 0..n |-> h[n - i]]
<1>3. f[n] = a
  BY <1>2 DEF StepsAre
<1>4. ASSUME NEW i \in 0..n
      PROVE  f[i] \in V[i]
  <2>1. n - i \in 0..n /\ n - (n - i) = i
    OBVIOUS
  <2>2. h[n - i] \in U[n - i] /\ U[n - i] = V[i]
    BY <1>2, <2>1 DEF StepsAre
  <2> QED
    BY <2>2
<1>5. ASSUME NEW i \in 1..n
      PROVE  f[i - 1] = G[i][f[i]]
  <2>1. /\ i \in 0..n /\ i - 1 \in 0..n /\ n - (i - 1) \in 1..n /\ (n - (i - 1)) - 1 = n - i
        /\ n - (n - (i - 1)) + 1 = i
    OBVIOUS
  <2>2. h[n - (i - 1)] = H[n - (i - 1)][h[(n - (i - 1)) - 1]]
    BY <1>2, <2>1 DEF StepsAre
  <2>3. H[n - (i - 1)] = G[i]
    BY <2>1
  <2>4. f[i - 1] = h[n - (i - 1)] /\ f[i] = h[n - i]
    BY <2>1
  <2> QED
    BY <2>1, <2>2, <2>3, <2>4
<1> QED
  BY <1>3, <1>4, <1>5 DEF Descends

\* The documents with the references W[i].
DocsOf(refs) == {ps \in Docs : Refs(ps) = refs}

LEMMA BackReplays ==
  ASSUME NEW ad \in Texts, NEW ps \in Docs, NEW ts \in Seq(Tx), Chain("undo", ts, Refs(ps), ad)
  PROVE  LET n == Len(ts)
             back[i \in 0..n] == IF i = n THEN ps ELSE RevertEdits(back[i + 1], ts[i + 1].edits)
         IN  \A i \in 1..n : Text(back[i - 1], ad) = ts[i].docBefore
<1> DEFINE n == Len(ts)
           Step(f, i) == IF i = n THEN ps ELSE RevertEdits(f[i + 1], ts[i + 1].edits)
           back == CHOOSE f : f = [i \in 0..n |-> Step(f, i)]
<1>1. n \in Nat /\ \A i \in 1..n : ts[i] \in Tx /\ ts[i].edits \in Seq(Edits)
  <2>1. \A i \in 1..n : ts[i] \in Tx
    BY ElementOfSeq
  <2> QED
    BY <2>1, LenProperties DEF Tx
<1>2. PICK W : W[n] = Refs(ps) /\ \A i \in 1..n : Links(ts[i], W[i - 1], W[i], ad)
  BY DEF Chain, Joins
<1> HIDE DEF n
<1>3. \A i \in 1..n : \A x \in DocsOf(W[i]) : RevertEdits(x, ts[i].edits) \in DocsOf(W[i - 1])
  <2> SUFFICES ASSUME NEW i \in 1..n, NEW x \in DocsOf(W[i])
               PROVE  RevertEdits(x, ts[i].edits) \in DocsOf(W[i - 1])
    OBVIOUS
  <2> DEFINE es == ts[i].edits
             d == W[i - 1]
             e == W[i]
  <2>1. es \in Seq(Edits) /\ Leads(d, es, e)
    BY <1>1, <1>2 DEF Links
  <2>2. x \in Docs /\ Refs(x) = e
    BY DEF DocsOf
  <2> HIDE DEF es, d, e
  <2>3. RevertEdits(x, es) \in Docs /\ Refs(RevertEdits(x, es)) = d
    BY <2>1, <2>2, RevertEditsIs
  <2> QED
    BY <2>3 DEF DocsOf, es, d
<1> DEFINE V == [i \in 0..n |-> DocsOf(W[i])]
           G == [i \in 1..n |-> [x \in DocsOf(W[i]) |-> RevertEdits(x, ts[i].edits)]]
<1>4. StepsDown(n, V, ps, G)
  <2>1. ps \in V[n]
    BY <1>1, <1>2 DEF DocsOf
  <2>2. ASSUME NEW i \in 1..n, NEW x \in V[i]
        PROVE  G[i][x] \in V[i - 1]
    <3>1. i \in 0..n /\ i - 1 \in 0..n
      BY <1>1
    <3>2. x \in DocsOf(W[i]) /\ V[i - 1] = DocsOf(W[i - 1])
      BY <3>1
    <3>3. G[i][x] = RevertEdits(x, ts[i].edits)
      BY <3>2
    <3> QED
      BY <1>3, <3>2, <3>3
  <2> QED
    BY <2>1, <2>2 DEF StepsDown
<1>5. PICK f : f[n] = ps /\ (\A i \in 0..n : f[i] \in V[i]) /\ \A i \in 1..n : f[i - 1] = G[i][f[i]]
  <2>1. n \in Nat
    BY <1>1
  <2> HIDE DEF V, G
  <2>2. \E f : Descends(n, V, ps, G, f)
    BY <2>1, <1>4, DownExists
  <2> QED
    BY <2>2 DEF Descends
<1>6. ASSUME NEW i \in 1..n
      PROVE  f[i - 1] = RevertEdits(f[i], ts[i].edits)
  <2>1. f[i] \in DocsOf(W[i])
    BY <1>1, <1>5
  <2> QED
    BY <1>5, <2>1
<1> HIDE DEF V, G
<1> DEFINE g == [i \in 0..n |-> f[i]]
<1>7. g = [i \in 0..n |-> Step(g, i)]
  <2> SUFFICES ASSUME NEW i \in 0..n
               PROVE  g[i] = Step(g, i)
    OBVIOUS
  <2>1. CASE i = n
    BY <1>5, <2>1
  <2>2. CASE i # n
    <3>1. i + 1 \in 1..n /\ (i + 1) - 1 = i /\ i + 1 \in 0..n
      BY <1>1, <2>2
    <3>2. f[i] = RevertEdits(f[i + 1], ts[i + 1].edits)
      BY <1>6, <3>1
    <3> QED
      BY <2>2, <3>1, <3>2
  <2> QED
    BY <2>1, <2>2
<1> HIDE DEF g, Step
<1>8. back = [i \in 0..n |-> Step(back, i)]
  BY <1>7, Zenon
<1> HIDE DEF back
<1>9. \A i \in 0..n : back[i] = Step(back, i)
  BY <1>8
<1> DEFINE T == {k \in Nat : k <= n => back[n - k] \in DocsOf(W[n - k])}
<1>10. 0 \in T
  <2>1. n - 0 = n /\ n \in 0..n
    BY <1>1
  <2>2. back[n] = ps
    BY <1>9, <2>1 DEF Step
  <2> QED
    BY <1>2, <2>1, <2>2 DEF DocsOf
<1>11. ASSUME NEW k \in Nat, k \in T
       PROVE  k + 1 \in T
  <2> SUFFICES ASSUME k + 1 <= n
               PROVE  back[n - (k + 1)] \in DocsOf(W[n - (k + 1)])
    OBVIOUS
  <2> DEFINE i == n - k
  <2>1. /\ i \in 1..n /\ i - 1 = n - (k + 1) /\ i - 1 \in 0..n /\ i - 1 # n /\ (i - 1) + 1 = i /\ k <= n
    BY <1>1
  <2>2. back[i] \in DocsOf(W[i])
    BY <1>11, <2>1
  <2> HIDE DEF i
  <2>3. back[i - 1] = RevertEdits(back[i], ts[i].edits)
    <3>1. back[i - 1] = Step(back, i - 1)
      BY <1>9, <2>1
    <3> QED
      BY <2>1, <3>1 DEF Step
  <2>4. back[i - 1] \in DocsOf(W[i - 1])
    BY <1>3, <2>1, <2>2, <2>3
  <2> QED
    BY <2>1, <2>4
<1>12. Nat \subseteq T
  <2> HIDE DEF T
  <2> QED
    BY <1>10, <1>11, Induction
<1>13. ASSUME NEW i \in 1..n
       PROVE  Text(back[i - 1], ad) = ts[i].docBefore
  <2>1. n - (i - 1) \in Nat /\ n - (n - (i - 1)) = i - 1 /\ n - (i - 1) <= n
    BY <1>1
  <2>2. back[i - 1] \in DocsOf(W[i - 1])
    BY <1>12, <2>1
  <2> DEFINE d == W[i - 1]
             x == back[i - 1]
  <2>3. d \in Seq(Bounds(ad)) /\ Read(d, ad) = ts[i].docBefore
    BY <1>2 DEF Links
  <2>4. x \in Docs /\ Refs(x) = d
    BY <2>2 DEF DocsOf
  <2> HIDE DEF d, x
  <2>5. Good(x, ad)
    BY <2>3, <2>4 DEF Good
  <2>6. Text(x, ad) = Read(d, ad)
    BY <2>4, <2>5, GoodReads
  <2> QED
    BY <2>3, <2>6 DEF x
<1> QED
  BY <1>13 DEF back, Step, n

LEMMA OnReplays ==
  ASSUME NEW ad \in Texts, NEW ps \in Docs, NEW ts \in Seq(Tx), Chain("redo", ts, Refs(ps), ad)
  PROVE  LET n == Len(ts)
             on[i \in 1..(n + 1)] == IF i = n + 1 THEN ps ELSE ApplyEdits(on[i + 1], ts[i].edits)
         IN  \A i \in 1..n : Text(on[i], ad) = ts[i].docAfter
<1> DEFINE n == Len(ts)
           Step(f, i) == IF i = n + 1 THEN ps ELSE ApplyEdits(f[i + 1], ts[i].edits)
           on == CHOOSE f : f = [i \in 1..(n + 1) |-> Step(f, i)]
<1>1. n \in Nat /\ \A i \in 1..n : ts[i] \in Tx /\ ts[i].edits \in Seq(Edits)
  <2>1. \A i \in 1..n : ts[i] \in Tx
    BY ElementOfSeq
  <2> QED
    BY <2>1, LenProperties DEF Tx
<1>2. PICK W : W[n] = Refs(ps) /\ \A i \in 1..n : Links(ts[i], W[i], W[i - 1], ad)
  BY DEF Chain, Joins
<1> HIDE DEF n
<1>3. \A i \in 1..n : \A x \in DocsOf(W[i]) : ApplyEdits(x, ts[i].edits) \in DocsOf(W[i - 1])
  <2> SUFFICES ASSUME NEW i \in 1..n, NEW x \in DocsOf(W[i])
               PROVE  ApplyEdits(x, ts[i].edits) \in DocsOf(W[i - 1])
    OBVIOUS
  <2> DEFINE es == ts[i].edits
             d == W[i - 1]
             e == W[i]
  <2>1. es \in Seq(Edits) /\ Leads(e, es, d)
    BY <1>1, <1>2 DEF Links
  <2>2. x \in Docs /\ Refs(x) = e
    BY DEF DocsOf
  <2> HIDE DEF es, d, e
  <2>3. ApplyEdits(x, es) \in Docs /\ Refs(ApplyEdits(x, es)) = d
    BY <2>1, <2>2, ApplyEditsIs
  <2> QED
    BY <2>3 DEF DocsOf, es, d
<1> DEFINE V == [i \in 0..n |-> DocsOf(W[i])]
           G == [i \in 1..n |-> [x \in DocsOf(W[i]) |-> ApplyEdits(x, ts[i].edits)]]
<1>4. StepsDown(n, V, ps, G)
  <2>1. ps \in V[n]
    BY <1>1, <1>2 DEF DocsOf
  <2>2. ASSUME NEW i \in 1..n, NEW x \in V[i]
        PROVE  G[i][x] \in V[i - 1]
    <3>1. i \in 0..n /\ i - 1 \in 0..n
      BY <1>1
    <3>2. x \in DocsOf(W[i]) /\ V[i - 1] = DocsOf(W[i - 1])
      BY <3>1
    <3>3. G[i][x] = ApplyEdits(x, ts[i].edits)
      BY <3>2
    <3> QED
      BY <1>3, <3>2, <3>3
  <2> QED
    BY <2>1, <2>2 DEF StepsDown
<1>5. PICK f : f[n] = ps /\ (\A i \in 0..n : f[i] \in V[i]) /\ \A i \in 1..n : f[i - 1] = G[i][f[i]]
  <2>1. n \in Nat
    BY <1>1
  <2> HIDE DEF V, G
  <2>2. \E f : Descends(n, V, ps, G, f)
    BY <2>1, <1>4, DownExists
  <2> QED
    BY <2>2 DEF Descends
<1>6. ASSUME NEW i \in 1..n
      PROVE  f[i - 1] = ApplyEdits(f[i], ts[i].edits)
  <2>1. f[i] \in DocsOf(W[i])
    BY <1>1, <1>5
  <2> QED
    BY <1>5, <2>1
<1> HIDE DEF V, G
<1> DEFINE g == [i \in 1..(n + 1) |-> f[i - 1]]
<1>7. g = [i \in 1..(n + 1) |-> Step(g, i)]
  <2> SUFFICES ASSUME NEW i \in 1..(n + 1)
               PROVE  g[i] = Step(g, i)
    OBVIOUS
  <2>1. CASE i = n + 1
    <3>1. i - 1 = n
      BY <1>1, <2>1
    <3> QED
      BY <1>5, <2>1, <3>1
  <2>2. CASE i # n + 1
    <3>1. i \in 1..n /\ i + 1 \in 1..(n + 1) /\ (i + 1) - 1 = i
      BY <1>1, <2>2
    <3>2. f[i - 1] = ApplyEdits(f[i], ts[i].edits)
      BY <1>6, <3>1
    <3> QED
      BY <2>2, <3>1, <3>2
  <2> QED
    BY <2>1, <2>2
<1> HIDE DEF g, Step
<1>8. on = [i \in 1..(n + 1) |-> Step(on, i)]
  BY <1>7, Zenon
<1> HIDE DEF on
<1>9. \A i \in 1..(n + 1) : on[i] = Step(on, i)
  BY <1>8
<1> DEFINE T == {k \in Nat : k <= n => on[n + 1 - k] \in DocsOf(W[n - k])}
<1>10. 0 \in T
  <2>1. n - 0 = n /\ n + 1 - 0 = n + 1 /\ n + 1 \in 1..(n + 1)
    BY <1>1
  <2>2. on[n + 1] = ps
    BY <1>9, <2>1 DEF Step
  <2> QED
    BY <1>2, <2>1, <2>2 DEF DocsOf
<1>11. ASSUME NEW k \in Nat, k \in T
       PROVE  k + 1 \in T
  <2> SUFFICES ASSUME k + 1 <= n
               PROVE  on[n + 1 - (k + 1)] \in DocsOf(W[n - (k + 1)])
    OBVIOUS
  <2> DEFINE i == n - k
  <2>1. /\ i \in 1..n /\ i \in 1..(n + 1) /\ i # n + 1 /\ i + 1 = n + 1 - k
        /\ i - 1 = n - (k + 1) /\ i = n + 1 - (k + 1) /\ k <= n
    BY <1>1
  <2>2. on[i + 1] \in DocsOf(W[i])
    BY <1>11, <2>1
  <2> HIDE DEF i
  <2>3. on[i] = ApplyEdits(on[i + 1], ts[i].edits)
    <3>1. on[i] = Step(on, i)
      BY <1>9, <2>1
    <3> QED
      BY <2>1, <3>1 DEF Step
  <2>4. on[i] \in DocsOf(W[i - 1])
    BY <1>3, <2>1, <2>2, <2>3
  <2> QED
    BY <2>1, <2>4
<1>12. Nat \subseteq T
  <2> HIDE DEF T
  <2> QED
    BY <1>10, <1>11, Induction
<1>13. ASSUME NEW i \in 1..n
       PROVE  Text(on[i], ad) = ts[i].docAfter
  <2>1. n + 1 - i \in Nat /\ n + 1 - (n + 1 - i) = i /\ n - (n + 1 - i) = i - 1 /\ n + 1 - i <= n
    BY <1>1
  <2>2. on[i] \in DocsOf(W[i - 1])
    BY <1>12, <2>1
  <2> DEFINE d == W[i - 1]
             x == on[i]
  <2>3. d \in Seq(Bounds(ad)) /\ Read(d, ad) = ts[i].docAfter
    BY <1>2 DEF Links
  <2>4. x \in Docs /\ Refs(x) = d
    BY <2>2 DEF DocsOf
  <2> HIDE DEF d, x
  <2>5. Good(x, ad)
    BY <2>3, <2>4 DEF Good
  <2>6. Text(x, ad) = Read(d, ad)
    BY <2>4, <2>5, GoodReads
  <2> QED
    BY <2>3, <2>6 DEF x
<1> QED
  BY <1>13 DEF on, Step, n
-----------------------------------------------------------------------------
(* The inductive invariant: pieces and edits refer to what is there, the
   transactions of each side link a row of documents that ends with the present,
   the history is charged for what it holds, and positions are below the next. *)

\* The positions of the transactions are below a limit.
Known(ts, limit) == \A i \in 1..Len(ts) : ts[i].id < limit

Numbered ==
  /\ nextId \in 1..MaxPosition /\ {baseId, currentId, savedId} \subseteq 0..nextId - 1
  /\ Known(undo, nextId) /\ Known(redo, nextId)
  /\ unavailable \in BOOLEAN /\ dirty \in BOOLEAN

PInv ==
  /\ add \in Texts /\ Good(pieces, add) /\ cursor \in 0..Len(Refs(pieces))
  /\ undo \in Seq(Tx) /\ redo \in Seq(Tx)
  /\ Chain("undo", undo, Refs(pieces), add) /\ Chain("redo", redo, Refs(pieces), add)
  /\ nextId \in Nat /\ retained \in Int
  /\ activeRun = NoRun \/ (activeRun \in Runs /\ undo # <<>> /\ redo = <<>>)
  /\ Accounts /\ Numbered

\* What an edit appends to the add buffer.
Fresh(new) == Len(add)..(Len(add) + Len(new) - 1)

\* The bytes u is charged, and that ps and u use what the edit appended.
Charged(u, bytes, ps, ad) ==
  /\ u \in Seq(Paid) /\ bytes = SumBytes(u) /\ Known(u, nextId + 1)
  /\ Waste(Len(ad), Cardinality(Live(ps, u, redo)), discarded)

\* An edit loses nothing of what is in use, and what it appends is in use.
LEMMA WasteGrown ==
  ASSUME PInv, NEW ps \in Seq(AnyPiece), NEW u \in Seq(Paid), NEW new \in Texts,
         Live(pieces, undo, redo) \cup Fresh(new) \subseteq Live(ps, u, redo)
  PROVE  Waste(Len(Cat(add, new)), Cardinality(Live(ps, u, redo)), discarded)
<1> DEFINE old == Live(pieces, undo, redo)
           all == Live(ps, u, redo)
           more == Fresh(new)
           n == Len(add)
           c == Cardinality(old)
           d == Cardinality(all)
           m == Len(new)
<1>1. /\ undo \in Seq(Paid) /\ redo \in Seq(Paid) /\ undo \in Seq(Tx) /\ redo \in Seq(Tx) /\ add \in Texts
      /\ pieces \in Seq(Kept) /\ Refs(pieces) \in Seq(Bounds(add)) /\ discarded \in Nat
      /\ Chain("undo", undo, Refs(pieces), add) /\ Chain("redo", redo, Refs(pieces), add)
      /\ Waste(n, c, discarded)
  BY DEF PInv, Good, Docs, Accounts
<1>2. pieces \in Seq(AnyPiece)
  BY <1>1, KeptIn
<1>3. old \subseteq 0..n - 1
  <2> DEFINE X == ToSet(pieces) \cup PiecesOf(undo) \cup PiecesOf(redo)
  <2>1. pieces \in Seq(Fits(add))
    BY <1>1, FitsAre
  <2>2. ToSet(pieces) \subseteq Fits(add)
    <3>1. \A i \in 1..Len(pieces) : pieces[i] \in Fits(add)
      BY <2>1, ElementOfSeq
    <3> QED
      BY <3>1 DEF ToSet
  <2>3. PiecesOf(undo) \subseteq Fits(add) /\ PiecesOf(redo) \subseteq Fits(add)
    BY <1>1, ChainHolds
  <2>4. X \in SUBSET Fits(add)
    BY <2>2, <2>3
  <2>5. AddOffsets(X) = old
    BY <1>1, <1>2, LiveIs
  <2> HIDE DEF X, old
  <2>6. AddOffsets(X) \in Lives(Len(add))
    BY <1>1, <2>4, OffsetsAre
  <2> QED
    BY <2>5, <2>6 DEF Lives
<1>4. n \in Nat /\ m \in Nat /\ Len(Cat(add, new)) = n + m
  BY <1>1, CatIn DEF Texts
<1>5. IsFiniteSet(old) /\ c \in Nat /\ IsFiniteSet(all) /\ d \in Nat
  BY <1>1, <1>2, LiveCounts
<1>6. more = n..(n + m - 1)
  BY DEF Fresh
<1>7. old \cup more \subseteq all
  OBVIOUS
<1>8. Waste(n, c, discarded)
  BY <1>1
<1> HIDE DEF old, all, more, n, m
<1>9. IsFiniteSet(more) /\ Cardinality(more) = m
  BY <1>4, <1>6, FS_Interval
<1>10. old \cap more = {}
  BY <1>3, <1>4, <1>6
<1>11. IsFiniteSet(old \cup more) /\ Cardinality(old \cup more) = c + m
  <2>1. Cardinality(old \cup more) = c + m - Cardinality(old \cap more) /\ IsFiniteSet(old \cup more)
    BY <1>5, <1>9, FS_Union
  <2>2. Cardinality(old \cap more) = 0
    BY <1>10, FS_EmptySet
  <2> QED
    BY <1>4, <1>5, <2>1, <2>2
<1>12. c + m <= d
  BY <1>5, <1>7, <1>11, FS_Subset
<1> HIDE DEF c, d
<1>13. Waste(n + m, d, discarded)
  BY <1>1, <1>4, <1>5, <1>8, <1>12, WasteUsed
<1> QED
  BY <1>4, <1>13 DEF d, all

\* A transaction on top of u.
LEMMA PaidAppend ==
  ASSUME NEW u \in Seq(Paid), NEW t \in Paid
  PROVE  /\ Append(u, t) \in Seq(Paid) /\ SumBytes(Append(u, t)) = SumBytes(u) + t.bytes
         /\ LiveIn(Append(u, t)) = LiveIn(u) \cup LiveOf(t.edits)
         /\ \A limit : Known(u, limit) /\ t.id < limit => Known(Append(u, t), limit)
         /\ SumBytes(u) \in Nat /\ t.bytes \in Nat
<1>1. u \in Seq(Tx) /\ t \in Tx
  BY PaidIn
<1> DEFINE v == Append(u, t)
<1>2. /\ v \in Seq(Paid) /\ v \in Seq(Tx) /\ Len(v) = Len(u) + 1 /\ Len(u) \in Nat
      /\ \A i \in 1..Len(u) : v[i] = u[i]
      /\ v[Len(u) + 1] = t
  BY <1>1, AppendAt
<1>3. TxBytes \in Weights(Tx) /\ TxBytes[t] = t.bytes
  BY <1>1 DEF TxBytes, Tx, Weights
<1>4. Total(TxBytes, Tx, v) = Total(TxBytes, Tx, u) + TxBytes[t]
  BY <1>1, <1>3, TotalFacts
<1>5. LiveIn(v) = LiveIn(u) \cup LiveOf(t.edits)
  BY <1>1, LiveInAppend
<1> HIDE DEF v
<1>6. SumBytes(v) = SumBytes(u) + t.bytes
  <2>1. SumBytes(v) = Total(TxBytes, Tx, v) /\ SumBytes(u) = Total(TxBytes, Tx, u)
    BY <1>1, <1>2, SumBytesIs
  <2> QED
    BY <1>3, <1>4, <2>1
<1>7. ASSUME NEW limit, Known(u, limit), t.id < limit
      PROVE  Known(v, limit)
  <2>1. ASSUME NEW i \in 1..Len(v)
        PROVE  v[i].id < limit
    <3>1. i \in 1..Len(u) \/ i = Len(u) + 1
      BY <1>2
    <3> QED
      BY <1>2, <1>7, <3>1 DEF Known
  <2> QED
    BY <2>1 DEF Known
<1>8. SumBytes(u) \in Nat /\ t.bytes \in Nat
  BY <1>1, SumsIn DEF Tx
<1> QED
  BY <1>2, <1>5, <1>6, <1>7, <1>8 DEF v

LEMMA KnownMore ==
  ASSUME NEW ts \in Seq(Tx), NEW limit \in Nat, Known(ts, limit)
  PROVE  Known(ts, limit + 1)
<1>1. ASSUME NEW i \in 1..Len(ts)
      PROVE  ts[i].id < limit + 1
  <2>1. ts[i] \in Tx
    BY ElementOfSeq
  <2>2. ts[i].id \in Nat /\ ts[i].id < limit
    BY <2>1 DEF Tx, Known
  <2> QED
    BY <2>2
<1> QED
  BY <1>1 DEF Known

LEMMA RetainedSame ==
  ASSUME NEW ts \in Seq(Tx), NEW us \in Seq(Tx), NEW b
  PROVE  History!Retained(b, Abstract(ts), Abstract(us)) = Retained(b, ts, us)
<1>1. Len(Abstract(ts)) = Len(ts) /\ Len(Abstract(us)) = Len(us)
  BY AbstractIs
<1>2. \A i \in 1..Len(ts) : Abstract(ts)[i].id = ts[i].id
  <2>1. \A i \in 1..Len(ts) : Abstract(ts)[i] = AbstractOf(ts[i])
    BY AbstractIs
  <2>2. \A x : AbstractOf(x).id = x.id
    BY DEF AbstractOf
  <2> QED
    BY <2>1, <2>2
<1>3. \A i \in 1..Len(us) : Abstract(us)[i].id = us[i].id
  <2>1. \A i \in 1..Len(us) : Abstract(us)[i] = AbstractOf(us[i])
    BY AbstractIs
  <2>2. \A x : AbstractOf(x).id = x.id
    BY DEF AbstractOf
  <2> QED
    BY <2>1, <2>2
<1> QED
  BY <1>1, <1>2, <1>3 DEF History!Retained, Retained

LEMMA DirtyRefreshed ==
  ASSUME undo' \in Seq(Tx), redo' \in Seq(Tx), RefreshDirty
  PROVE  History!RefreshDirty
<1>1. History!Retained(baseId', Abstract(undo'), Abstract(redo')) = Retained(baseId', undo', redo')
  BY RetainedSame
<1> QED
  BY <1>1 DEF RefreshDirty, History!RefreshDirty

LEMMA AbstractNone == Abstract(<<>>) = <<>>
BY DEF Abstract

LEMMA DirtyTypes ==
  ASSUME RefreshDirty
  PROVE  unavailable' \in BOOLEAN /\ dirty' \in BOOLEAN /\ savedId' = savedId
<1>1. unavailable' = (unavailable \/ savedId \notin Retained(baseId', undo', redo'))
  BY DEF RefreshDirty
<1>2. dirty' = (unavailable' \/ currentId' # savedId)
  BY DEF RefreshDirty
<1>3. savedId' = savedId
  BY DEF RefreshDirty
<1>4. unavailable' \in BOOLEAN
  BY <1>1
<1>5. dirty' \in BOOLEAN
  BY <1>2
<1> QED
  BY <1>3, <1>4, <1>5

\* A prune keeps the positions it keeps.
LEMMA ShortenedKnown ==
  ASSUME NEW u \in Seq(Tx), NEW limit, Known(u, limit), NEW k, Shortened(u, k), undo' \in Seq(Tx),
         baseId \in Nat, baseId < limit
  PROVE  Known(undo', limit) /\ baseId' \in Nat /\ baseId' < limit
<1> DEFINE a == Abstract(u)
           b == Abstract(undo')
<1>1. a \in Seq(AbstractTx) /\ Len(a) = Len(u) /\ Len(u) \in Nat /\ \A i \in 1..Len(u) : a[i] = AbstractOf(u[i])
  BY AbstractIs
<1>2. Len(b) = Len(undo') /\ \A i \in 1..Len(undo') : b[i] = AbstractOf(undo'[i])
  BY AbstractIs
<1>3. k \in 0..Len(u) - 1 /\ b = SubSeq(a, k + 1, Len(u)) /\ baseId' = IF k = 0 THEN baseId ELSE a[k].id
  BY DEF Shortened
<1>4. \A x : AbstractOf(x).id = x.id
  BY DEF AbstractOf
<1> HIDE DEF a, b
<1>5. k \in 0..Len(a) /\ b = SubSeq(a, k + 1, Len(a)) /\ k \in Nat
  BY <1>1, <1>3
<1>6. Len(b) = Len(a) - k /\ \A i \in 1..Len(a) - k : b[i] = a[k + i]
  BY <1>1, <1>5, SuffixAt
<1>7. \A i \in 1..Len(u) : u[i].id \in Nat /\ u[i].id < limit
  <2>1. \A i \in 1..Len(u) : u[i] \in Tx
    BY ElementOfSeq
  <2> QED
    BY <2>1 DEF Tx, Known
<1>8. ASSUME NEW i \in 1..Len(undo')
      PROVE  undo'[i].id < limit
  <2>1. i \in 1..Len(a) - k /\ k + i \in 1..Len(u)
    BY <1>1, <1>2, <1>5, <1>6
  <2>2. undo'[i].id = b[i].id /\ b[i] = a[k + i] /\ a[k + i].id = u[k + i].id
    BY <1>1, <1>2, <1>4, <1>6, <2>1
  <2> QED
    BY <1>7, <2>1, <2>2
<1>9. baseId' \in Nat /\ baseId' < limit
  <2>1. CASE k = 0
    BY <1>3, <2>1
  <2>2. CASE k # 0
    <3>1. k \in 1..Len(u)
      BY <1>1, <1>3, <2>2
    <3>2. baseId' = u[k].id
      BY <1>1, <1>3, <1>4, <2>2, <3>1
    <3> QED
      BY <1>7, <3>1, <3>2
  <2> QED
    BY <2>1, <2>2
<1> QED
  BY <1>8, <1>9 DEF Known

LEMMA Committed ==
  ASSUME PInv, NEW u \in Seq(Tx), u # <<>>, NEW bytes \in Int, NEW ps, NEW ad \in Texts,
         NEW run \in Runs \cup {NoRun}, Good(ps, ad), Chain("undo", u, Refs(ps), ad),
         cursor' \in 0..Len(Refs(ps)), Charged(u, bytes, ps, ad), Commit(u, bytes, ps, ad, run)
  PROVE  /\ PInv' /\ Doc' = Text(ps, ad) /\ Doc' \in Texts
         /\ \E k : Shortened(u, k)
         /\ Abstract(redo') = <<>> /\ History!RefreshDirty
         /\ nextId < MaxPosition /\ currentId' = nextId /\ nextId' = nextId + 1 /\ activeRun' = run
<1>1. /\ add' \in Texts /\ Good(pieces', add') /\ Len(Refs(pieces')) = Len(Refs(ps))
      /\ Text(pieces', add') = Text(ps, ad)
      /\ undo' \in Seq(Tx) /\ undo' # <<>> /\ redo' = <<>>
      /\ Chain("undo", undo', Refs(pieces'), add')
      /\ retained' \in Int
      /\ \E k : Shortened(u, k)
  BY CommitIs
<1>2. nextId < MaxPosition /\ currentId' = nextId /\ nextId' = nextId + 1 /\ activeRun' = run /\ RefreshDirty
  BY DEF Commit
<1>3. redo' \in Seq(Tx)
  BY <1>1
<1>4. Chain("redo", redo', Refs(pieces'), add')
  BY <1>1, ChainNone
<1>5. nextId' \in Nat /\ nextId \in Nat
  BY <1>2 DEF PInv
<1>10. Accounts'
  <2>1. u \in Seq(Paid) /\ bytes = SumBytes(u) /\ Waste(Len(ad), Cardinality(Live(ps, u, redo)), discarded)
    BY DEF Charged
  <2>2. redo \in Seq(Paid) /\ discarded \in Nat
    BY DEF PInv, Accounts
  <2>3. Commit(u, SumBytes(u), ps, ad, run)
    BY <2>1
  <2> QED
    BY <2>1, <2>2, <2>3, CommitAccounts
<1>11. Numbered'
  <2>1. /\ baseId \in Nat /\ baseId < nextId + 1 /\ savedId \in Nat /\ savedId < nextId + 1
        /\ nextId \in 1..MaxPosition
    BY DEF PInv, Numbered
  <2>2. Known(u, nextId + 1)
    BY DEF Charged
  <2>3. Known(undo', nextId + 1) /\ baseId' \in Nat /\ baseId' < nextId + 1
    BY <1>1, <2>1, <2>2, ShortenedKnown
  <2>4. unavailable' \in BOOLEAN /\ dirty' \in BOOLEAN /\ savedId' = savedId
    BY <1>2, DirtyTypes
  <2>5. Known(redo', nextId')
    BY <1>1 DEF Known
  <2>6. nextId' \in 1..MaxPosition /\ {baseId', currentId', savedId'} \subseteq 0..nextId' - 1
    BY <1>2, <1>5, <2>1, <2>3, <2>4, PieceTableAssumption
  <2> QED
    BY <1>2, <2>3, <2>4, <2>5, <2>6 DEF Numbered
<1>6. PInv'
  BY <1>1, <1>2, <1>3, <1>4, <1>5, <1>10, <1>11 DEF PInv
<1>7. Doc' = Text(ps, ad) /\ Text(ps, ad) \in Texts
  BY <1>1, GoodReads DEF Doc
<1>8. Abstract(redo') = <<>>
  BY <1>1, AbstractNone
<1>9. History!RefreshDirty
  BY <1>1, <1>2, <1>3, DirtyRefreshed
<1> QED
  BY <1>1, <1>2, <1>6, <1>7, <1>8, <1>9

LEMMA RecordIs ==
  ASSUME PInv, NEW es \in Seq(Edits), NEW to, NEW ps, NEW new \in Texts, NEW run \in Runs \cup {NoRun},
         Good(ps, Cat(add, new)), Holds(es, Bounds(Cat(add, new))), Leads(Refs(pieces), es, Refs(ps)),
         to \in 0..Len(Refs(ps)), cursor' = to, Fresh(new) \subseteq LiveOf(es),
         Record(es, to, ps, Cat(add, new), run)
  PROVE  PInv' /\ History!Push(run)
<1> DEFINE ad == Cat(add, new)
           t == Transaction(cursor, to, es, Text(ps, ad))
           u == Append(undo, t)
           bytes == retained - SumBytes(redo) + t.bytes
<1>1. Commit(u, bytes, ps, ad, run)
  BY DEF Record
<1>2. /\ ad \in Texts /\ Bounds(add) \subseteq Bounds(ad)
      /\ \A d \in Seq(Bounds(add)) : d \in Seq(Bounds(ad)) /\ Read(d, ad) = Read(d, add)
  BY GrownReads DEF PInv
<1>10. Good(ps, ad) /\ Holds(es, Bounds(ad))
  OBVIOUS
<1> HIDE DEF ad
<1>3. Good(pieces, add) /\ add \in Texts /\ Refs(pieces) \in Seq(Bounds(add)) /\ Refs(ps) \in Seq(Bounds(ad))
  BY <1>10 DEF PInv, Good
<1>4. Doc = Read(Refs(pieces), add) /\ Doc \in Texts /\ Text(ps, ad) = Read(Refs(ps), ad) /\ Text(ps, ad) \in Texts
      /\ Len(Refs(pieces)) \in Nat /\ Len(Refs(ps)) \in Nat
  BY <1>2, <1>3, <1>10, GoodReads DEF Doc
<1>5. cursor \in 0..Len(Refs(pieces)) /\ nextId \in Nat /\ undo \in Seq(Tx) /\ redo \in Seq(Tx) /\ retained \in Int
  BY DEF PInv
<1>6. /\ t \in Tx /\ t.edits = es /\ t.before = cursor /\ t.after = to /\ t.docBefore = Doc
      /\ t.docAfter = Text(ps, ad) /\ t.id = nextId
  <2>1. cursor \in Nat /\ to \in Nat
    BY <1>4, <1>5
  <2> QED
    BY <1>4, <1>5, <2>1, BytesAre DEF Transaction, Tx
<1> HIDE DEF t
<1>7. Links(t, Refs(pieces), Refs(ps), ad)
  BY <1>2, <1>3, <1>4, <1>5, <1>6, <1>10 DEF Links
<1>8. Chain("undo", u, Refs(ps), ad)
  <2>1. Chain("undo", undo, Refs(pieces), ad)
    BY ChainGrown DEF PInv, ad
  <2>2. Joins("undo", t, Refs(pieces), Refs(ps), ad)
    BY <1>7 DEF Joins
  <2> QED
    BY <1>5, <1>6, <2>1, <2>2, ChainPush
<1>17. Charged(u, bytes, ps, ad)
  <2>1. t \in Paid /\ t.bytes = BytesOf(es)
    <3>1. t.bytes = BytesOf(es) /\ t.addBytes = AddBytesOf(es)
      BY DEF Transaction, t
    <3> QED
      BY <1>6, <3>1 DEF Paid
  <2>2. undo \in Seq(Paid) /\ redo \in Seq(Paid) /\ retained = SumBytes(undo) + SumBytes(redo)
    BY DEF PInv, Accounts
  <2>3. /\ u \in Seq(Paid) /\ SumBytes(u) = SumBytes(undo) + t.bytes
        /\ LiveIn(u) = LiveIn(undo) \cup LiveOf(es)
        /\ \A limit : Known(undo, limit) /\ t.id < limit => Known(u, limit)
        /\ SumBytes(undo) \in Nat /\ t.bytes \in Nat
    BY <1>6, <2>1, <2>2, PaidAppend
  <2>4. SumBytes(redo) \in Nat
    BY <1>5, SumsIn
  <2>5. bytes = SumBytes(u)
    <3> DEFINE x == SumBytes(undo)
               y == SumBytes(redo)
               z == t.bytes
    <3>1. x \in Nat /\ y \in Nat /\ z \in Nat /\ retained = x + y /\ SumBytes(u) = x + z /\ bytes = retained - y + z
      BY <2>2, <2>3, <2>4
    <3> HIDE DEF x, y, z, bytes, u
    <3> QED
      BY <3>1
  <2>6. Known(u, nextId + 1)
    <3>1. Known(undo, nextId)
      BY DEF PInv, Numbered
    <3>2. Known(undo, nextId + 1)
      BY <1>5, <3>1, KnownMore
    <3>3. t.id < nextId + 1
      BY <1>5, <1>6
    <3> QED
      BY <2>3, <3>2, <3>3
  <2>7. ps \in Seq(AnyPiece)
    BY <1>10, KeptIn DEF Good, Docs
  <2>8. Offs(Refs(pieces)) \cup LiveOf(es) = Offs(Refs(ps)) \cup LiveOf(es)
    BY OffsLed
  <2> HIDE DEF u, bytes
  <2>9. Live(pieces, undo, redo) \cup Fresh(new) \subseteq Live(ps, u, redo)
    BY <2>3, <2>8 DEF Live
  <2>10. Waste(Len(ad), Cardinality(Live(ps, u, redo)), discarded)
    BY <2>3, <2>7, <2>9, WasteGrown DEF ad
  <2> QED
    BY <2>3, <2>5, <2>6, <2>10 DEF Charged
<1>9. u \in Seq(Tx) /\ u # <<>> /\ bytes \in Int
  <2>1. SumBytes(redo) \in Nat /\ t.bytes \in Nat
    BY <1>5, <1>6, SumsIn DEF Tx
  <2>2. bytes \in Int
    <3> DEFINE b == SumBytes(redo)
               c == t.bytes
    <3>1. b \in Nat /\ c \in Nat
      BY <2>1
    <3> HIDE DEF b, c
    <3> QED
      BY <1>5, <3>1 DEF b, c
  <2>3. u \in Seq(Tx) /\ u # <<>>
    BY <1>5, <1>6, AppendAt
  <2> QED
    BY <2>2, <2>3
<1>11. Abstract(u) = Append(Abstract(undo), [id |-> nextId, before |-> Doc, after |-> Text(ps, ad)])
  BY <1>5, <1>6, AbstractAppend DEF AbstractOf
<1>12. Len(u) = Len(Abstract(u))
  BY <1>9, AbstractIs
<1> HIDE DEF u, bytes
<1>13. /\ PInv' /\ Doc' = Text(ps, ad) /\ Doc' \in Texts
       /\ \E k : Shortened(u, k)
       /\ Abstract(redo') = <<>> /\ History!RefreshDirty
       /\ nextId < MaxPosition /\ currentId' = nextId /\ nextId' = nextId + 1 /\ activeRun' = run
  BY <1>1, <1>2, <1>5, <1>8, <1>9, <1>10, <1>17, Committed
<1>14. Abstract(u) = Append(Abstract(undo), [id |-> nextId, before |-> Doc, after |-> Doc'])
  BY <1>11, <1>13
<1>15. History!Prune(Append(Abstract(undo), [id |-> nextId, before |-> Doc, after |-> Doc']))
  <2>1. History!Prune(Abstract(u))
    BY <1>12, <1>13 DEF Shortened, History!Prune, History!DropCounts
  <2> QED
    BY <1>14, <2>1
<1>16. History!Push(run)
  BY <1>13, <1>15 DEF History!Push, Texts
<1> QED
  BY <1>13, <1>16
LEMMA AbstractTop ==
  ASSUME NEW ts \in Seq(Tx), ts # <<>>
  PROVE  /\ Abstract(ts) # <<>> /\ History!Newest(Abstract(ts)) = AbstractOf(Last(ts))
         /\ History!AllButNewest(Abstract(ts)) = Abstract(Front(ts))
         /\ Last(ts) \in Tx /\ Front(ts) \in Seq(Tx)
<1> DEFINE n == Len(ts)
           us == Front(ts)
           a == Abstract(ts)
           b == Abstract(us)
           c == SubSeq(a, 1, n - 1)
<1>1. /\ n \in Nat \ {0} /\ Last(ts) = ts[n] /\ Last(ts) \in Tx
      /\ us \in Seq(Tx) /\ Len(us) = n - 1 /\ \A i \in 1..n - 1 : us[i] = ts[i]
  BY FrontAt
<1>2. a \in Seq(AbstractTx) /\ Len(a) = n /\ \A i \in 1..n : a[i] = AbstractOf(ts[i])
  BY AbstractIs
<1> HIDE DEF n, us, a
<1>3. b \in Seq(AbstractTx) /\ Len(b) = Len(us) /\ \A i \in 1..Len(us) : b[i] = AbstractOf(us[i])
  BY <1>1, AbstractIs
<1>4. n - 1 \in 0..n /\ n \in 1..n
  BY <1>1
<1>5. c \in Seq(AbstractTx) /\ Len(c) = n - 1 /\ \A i \in 1..n - 1 : c[i] = a[i]
  BY <1>2, <1>4, PrefixAt
<1>6. a # <<>>
  BY <1>1, <1>2, EmptySeq
<1>7. History!Newest(a) = AbstractOf(Last(ts))
  BY <1>1, <1>2, <1>4 DEF History!Newest
<1>8. History!AllButNewest(a) = c
  BY <1>2 DEF History!AllButNewest
<1> HIDE DEF b, c
<1>9. \A i \in 1..Len(c) : c[i] = b[i]
  <2> SUFFICES ASSUME NEW i \in 1..Len(c)
               PROVE  c[i] = b[i]
    OBVIOUS
  <2>1. i \in 1..n - 1 /\ i \in 1..n /\ i \in 1..Len(us)
    BY <1>1, <1>5
  <2> QED
    BY <1>1, <1>2, <1>3, <1>5, <2>1
<1>10. c = b
  BY <1>1, <1>3, <1>5, <1>9, SeqEqual
<1> QED
  BY <1>1, <1>6, <1>7, <1>8, <1>10 DEF a, b, us

IsExtended(o, t, to, e, moreBytes, moreAdd, text) ==
  /\ t \in Tx /\ t.edits = <<e>> /\ t.before = o.before /\ t.after = to
  /\ t.docBefore = o.docBefore /\ t.docAfter = text /\ t.id = nextId
  /\ t.bytes = o.bytes + moreBytes /\ t.addBytes = o.addBytes + moreAdd

LEMMA ExtendedIs ==
  ASSUME NEW o \in Tx, NEW to \in Nat, NEW e \in Edits, NEW moreBytes \in Nat, NEW moreAdd \in Nat,
         NEW text \in Texts, nextId \in Nat, NEW t, t = Extended(o, to, e, moreBytes, moreAdd, text)
  PROVE  IsExtended(o, t, to, e, moreBytes, moreAdd, text)
<1>1. /\ o.before \in Nat /\ o.bytes + moreBytes \in Nat /\ o.addBytes + moreAdd \in Nat
      /\ o.docBefore \in Texts
  BY DEF Tx
<1>2. DOMAIN o = {"id", "before", "after", "edits", "bytes", "addBytes", "docBefore", "docAfter"}
  BY DEF Tx
<1>3. /\ DOMAIN t = DOMAIN o /\ t.id = nextId /\ t.after = to /\ t.edits = <<e>> /\ t.docAfter = text
      /\ t.bytes = o.bytes + moreBytes /\ t.addBytes = o.addBytes + moreAdd
      /\ t.before = o.before /\ t.docBefore = o.docBefore
  BY <1>2 DEF Extended
<1>4. t = [x \in DOMAIN o |-> t[x]]
  BY DEF Extended
<1>5. <<e>> \in Seq(Edits)
  OBVIOUS
<1>6. t \in Tx
  <2> QED
    BY <1>1, <1>2, <1>3, <1>4, <1>5 DEF Tx
<1> QED
  BY <1>3, <1>6 DEF IsExtended

\* The newest transaction on top of the others.
LEMMA FrontAppend ==
  ASSUME NEW S, NEW s \in Seq(S), s # <<>>
  PROVE  Front(s) \in Seq(S) /\ Last(s) \in S /\ s = Append(Front(s), Last(s))
<1> DEFINE n == Len(s)
           u == Front(s)
           v == Append(u, Last(s))
<1>1. /\ n \in Nat \ {0} /\ Last(s) = s[n] /\ Last(s) \in S
      /\ u \in Seq(S) /\ Len(u) = n - 1 /\ \A i \in 1..n - 1 : u[i] = s[i]
  BY FrontAt
<1> HIDE DEF u
<1>2. /\ v \in Seq(S) /\ Len(v) = Len(u) + 1 /\ \A i \in 1..Len(u) : v[i] = u[i]
      /\ v[Len(u) + 1] = Last(s)
  BY <1>1, AppendAt
<1> HIDE DEF v
<1>3. Len(v) = n /\ \A i \in 1..n : v[i] = s[i]
  <2>1. \A i \in 1..n : i \in 1..n - 1 \/ i = n
    BY <1>1
  <2> HIDE DEF n
  <2>2. Len(v) = n
    BY <1>1, <1>2
  <2>3. \A i \in 1..n - 1 : v[i] = s[i]
    BY <1>1, <1>2
  <2>4. v[n] = s[n]
    BY <1>1, <1>2
  <2> QED
    BY <2>1, <2>2, <2>3, <2>4
<1>4. s \in Seq(S) /\ \A i \in 1..Len(s) : s[i] = v[i]
  BY <1>3
<1>5. s = v
  BY <1>2, <1>3, <1>4, SeqEqual
<1> QED
  BY <1>1, <1>5 DEF v, u

LEMMA LiveOfOne ==
  ASSUME NEW e \in Edits
  PROVE  LiveOf(<<e>>) = Offs(Refs(e.pieces))
<1>1. Len(<<e>>) = 1 /\ <<e>>[1] = e
  OBVIOUS
<1>2. LiveOf(<<e>>) = UNION {Offs(Refs(<<e>>[j].pieces)) : j \in 1..1}
  BY <1>1 DEF LiveOf
<1>3. \A j \in 1..1 : Offs(Refs(<<e>>[j].pieces)) = Offs(Refs(e.pieces))
  BY <1>1
<1>4. 1 \in 1..1
  OBVIOUS
<1> QED
  BY <1>2, <1>3, <1>4

LEMMA ExtendIs ==
  ASSUME PInv, activeRun \in Runs, NEW e \in Edits, NEW to, NEW moreBytes \in Nat, NEW moreAdd \in Nat,
         NEW ps, NEW new \in Texts, Good(ps, Cat(add, new)), Refs(e.pieces) \in Seq(Bounds(Cat(add, new))),
         to \in 0..Len(Refs(ps)), cursor' = to,
         \A d : Links(Last(undo), d, Refs(pieces), add) => Moves(e, d, Refs(ps)),
         BytesOf(<<e>>) = BytesOf(Last(undo).edits) + moreBytes,
         AddBytesOf(<<e>>) = AddBytesOf(Last(undo).edits) + moreAdd,
         LiveOf(Last(undo).edits) \cup Fresh(new) \subseteq Offs(Refs(e.pieces)),
         Extend(Extended(Last(undo), to, e, moreBytes, moreAdd, Text(ps, Cat(add, new))), ps, Cat(add, new))
  PROVE  PInv' /\ History!ExtendRun(activeRun)
<1> DEFINE ad == Cat(add, new)
           o == Last(undo)
           t == Extended(o, to, e, moreBytes, moreAdd, Text(ps, ad))
           u == Append(Front(undo), t)
           bytes == retained - o.bytes + t.bytes
<1>1. Commit(u, bytes, ps, ad, activeRun)
  BY DEF Extend
<1>2. /\ ad \in Texts /\ Bounds(add) \subseteq Bounds(ad)
      /\ \A d \in Seq(Bounds(add)) : d \in Seq(Bounds(ad)) /\ Read(d, ad) = Read(d, add)
  BY GrownReads DEF PInv
<1>10. Good(ps, ad) /\ Refs(e.pieces) \in Seq(Bounds(ad))
  OBVIOUS
<1> HIDE DEF ad
<1>3. Refs(ps) \in Seq(Bounds(ad)) /\ Text(ps, ad) = Read(Refs(ps), ad) /\ Text(ps, ad) \in Texts
      /\ Len(Refs(ps)) \in Nat
  BY <1>2, <1>10, GoodReads DEF Good
<1>4. /\ NoRun \notin Runs /\ undo # <<>> /\ redo = <<>> /\ undo \in Seq(Tx) /\ retained \in Int
      /\ nextId \in Nat /\ Chain("undo", undo, Refs(pieces), add)
  BY DEF PInv, Runs, NoRun
<1>5. /\ Abstract(undo) # <<>> /\ History!Newest(Abstract(undo)) = AbstractOf(o)
      /\ History!AllButNewest(Abstract(undo)) = Abstract(Front(undo))
      /\ o \in Tx /\ Front(undo) \in Seq(Tx)
  BY <1>4, AbstractTop
<1>6. PICK d : Links(o, d, Refs(pieces), add) /\ Chain("undo", Front(undo), d, add)
  <2>1. \E d : Joins("undo", o, d, Refs(pieces), add) /\ Chain("undo", Front(undo), d, add)
    BY <1>4, ChainPop
  <2> QED
    BY <2>1 DEF Joins
<1>7. Moves(e, d, Refs(ps))
  BY <1>6
<1> HIDE DEF o
<1>8. /\ t \in Tx /\ t.edits = <<e>> /\ t.before = o.before /\ t.after = to
      /\ t.docBefore = o.docBefore /\ t.docAfter = Text(ps, ad) /\ t.id = nextId
      /\ t.bytes = o.bytes + moreBytes /\ t.addBytes = o.addBytes + moreAdd
  <2>1. to \in Nat /\ o \in Tx /\ nextId \in Nat /\ Text(ps, ad) \in Texts
    BY <1>3, <1>4, <1>5
  <2> DEFINE text == Text(ps, ad)
  <2>2. t = Extended(o, to, e, moreBytes, moreAdd, text) /\ text \in Texts
    BY <2>1
  <2> HIDE DEF t, text
  <2>3. IsExtended(o, t, to, e, moreBytes, moreAdd, text)
    BY <2>1, <2>2, ExtendedIs
  <2> QED
    BY <2>3 DEF text, IsExtended
<1> HIDE DEF t
<1>9. Links(t, d, Refs(ps), ad)
  <2>1. d \in Seq(Bounds(add)) /\ Read(d, add) = o.docBefore /\ o.before \in 0..Len(d)
    BY <1>6 DEF Links
  <2>2. d \in Seq(Bounds(ad)) /\ Read(d, ad) = o.docBefore
    BY <1>2, <2>1
  <2>3. Leads(d, <<e>>, Refs(ps))
    BY <1>7, LeadsOne
  <2>4. Holds(<<e>>, Bounds(ad))
    BY <1>10 DEF Holds
  <2> QED
    BY <1>3, <1>8, <2>1, <2>2, <2>3, <2>4 DEF Links
<1>11. Chain("undo", u, Refs(ps), ad)
  <2>1. Chain("undo", Front(undo), d, ad)
    BY <1>6, ChainGrown DEF PInv, ad
  <2>2. Joins("undo", t, d, Refs(ps), ad)
    BY <1>9 DEF Joins
  <2> QED
    BY <1>5, <1>8, <2>1, <2>2, ChainPush
<1>21. Charged(u, bytes, ps, ad)
  <2> DEFINE rest == Front(undo)
             es == o.edits
  <2>1. undo \in Seq(Paid) /\ redo \in Seq(Paid) /\ retained = SumBytes(undo) + SumBytes(redo)
    BY DEF PInv, Accounts
  <2>2. rest \in Seq(Paid) /\ o \in Paid /\ undo = Append(rest, o)
    BY <1>4, <2>1, FrontAppend DEF o
  <2> HIDE DEF rest
  <2>3. /\ SumBytes(undo) = SumBytes(rest) + o.bytes /\ LiveIn(undo) = LiveIn(rest) \cup LiveOf(es)
        /\ SumBytes(rest) \in Nat /\ o.bytes \in Nat
    BY <2>2, PaidAppend
  <2>4. t \in Paid
    <3>1. BytesOf(<<e>>) = BytesOf(es) + moreBytes /\ AddBytesOf(<<e>>) = AddBytesOf(es) + moreAdd
      BY DEF o
    <3>2. o.bytes = BytesOf(es) /\ o.addBytes = AddBytesOf(es)
      BY <2>2 DEF Paid
    <3>3. t.bytes = BytesOf(<<e>>) /\ t.addBytes = AddBytesOf(<<e>>)
      BY <1>8, <3>1, <3>2
    <3> QED
      BY <1>8, <3>3 DEF Paid
  <2>5. /\ u \in Seq(Paid) /\ SumBytes(u) = SumBytes(rest) + t.bytes
        /\ LiveIn(u) = LiveIn(rest) \cup LiveOf(<<e>>)
        /\ \A limit : Known(rest, limit) /\ t.id < limit => Known(u, limit)
        /\ t.bytes \in Nat
    BY <1>8, <2>2, <2>4, PaidAppend DEF rest
  <2>6. SumBytes(redo) = 0
    BY <1>4, NothingLive
  <2>7. bytes = SumBytes(u)
    <3> DEFINE x == SumBytes(rest)
               y == o.bytes
               z == t.bytes
    <3>1. x \in Nat /\ y \in Nat /\ z \in Nat /\ retained = x + y /\ SumBytes(u) = x + z /\ bytes = retained - y + z
      BY <2>1, <2>3, <2>5, <2>6
    <3> HIDE DEF x, y, z, bytes, u
    <3> QED
      BY <3>1
  <2>8. Known(u, nextId + 1)
    <3>1. Len(undo) = Len(rest) + 1 /\ Len(rest) \in Nat /\ \A i \in 1..Len(rest) : undo[i] = rest[i]
      BY <2>2, AppendAt
    <3>2. Known(undo, nextId)
      BY DEF PInv, Numbered
    <3>3. Known(undo, nextId + 1)
      BY <1>4, <3>2, KnownMore
    <3>4. Known(rest, nextId + 1)
      BY <3>1, <3>3 DEF Known
    <3>5. t.id < nextId + 1
      BY <1>4, <1>8
    <3> QED
      BY <2>5, <3>4, <3>5
  <2>9. ps \in Seq(AnyPiece)
    BY <1>10, KeptIn DEF Good, Docs
  <2>10. LiveOf(<<e>>) = Offs(Refs(e.pieces))
    BY LiveOfOne
  <2>11. LiveOf(es) \cup Fresh(new) \subseteq Offs(Refs(e.pieces))
    BY DEF o
  <2>12. Offs(d) \cup LiveOf(es) = Offs(Refs(pieces)) \cup LiveOf(es)
    <3>1. es \in Seq(Edits) /\ Leads(d, es, Refs(pieces))
      BY <1>5, <1>6 DEF Links, Tx
    <3> HIDE DEF es
    <3> QED
      BY <3>1, OffsLed
  <2>13. Offs(d) \cup Offs(Refs(e.pieces)) = Offs(Refs(ps)) \cup Offs(Refs(e.pieces))
    BY <1>7, OffsMoved
  <2> HIDE DEF u, bytes, es
  <2>14. Live(pieces, undo, redo) \cup Fresh(new) \subseteq Live(ps, u, redo)
    BY <2>3, <2>5, <2>10, <2>11, <2>12, <2>13 DEF Live
  <2>15. Waste(Len(ad), Cardinality(Live(ps, u, redo)), discarded)
    BY <2>5, <2>9, <2>14, WasteGrown DEF ad
  <2> QED
    BY <2>5, <2>7, <2>8, <2>15 DEF Charged
<1>12. u \in Seq(Tx) /\ u # <<>> /\ bytes \in Int
  <2>1. o.bytes \in Nat /\ t.bytes \in Nat
    BY <1>5, <1>8 DEF Tx
  <2>2. bytes \in Int
    BY <1>4, <2>1
  <2> QED
    BY <1>5, <1>8, <2>2, AppendAt
<1>13. Abstract(u) = Append(Abstract(Front(undo)), [id |-> nextId, before |-> o.docBefore, after |-> Text(ps, ad)])
  BY <1>5, <1>8, AbstractAppend DEF AbstractOf
<1>14. Len(u) = Len(Abstract(u))
  BY <1>12, AbstractIs
<1> HIDE DEF u, bytes
<1>15. /\ PInv' /\ Doc' = Text(ps, ad) /\ Doc' \in Texts
       /\ \E k : Shortened(u, k)
       /\ Abstract(redo') = <<>> /\ History!RefreshDirty
       /\ nextId < MaxPosition /\ currentId' = nextId /\ nextId' = nextId + 1 /\ activeRun' = activeRun
  BY <1>1, <1>2, <1>4, <1>10, <1>11, <1>12, <1>21, Committed
<1>16. History!Newest(Abstract(undo)).before = o.docBefore
  BY <1>5 DEF AbstractOf
<1>17. Abstract(u) = Append(History!AllButNewest(Abstract(undo)),
                            [id |-> nextId, before |-> History!Newest(Abstract(undo)).before, after |-> Doc'])
  BY <1>5, <1>13, <1>15, <1>16
<1>18. History!Prune(Append(History!AllButNewest(Abstract(undo)),
                            [id |-> nextId, before |-> History!Newest(Abstract(undo)).before, after |-> Doc']))
  <2>1. History!Prune(Abstract(u))
    BY <1>14, <1>15 DEF Shortened, History!Prune, History!DropCounts
  <2> QED
    BY <1>17, <2>1
<1>19. Abstract(redo') = Abstract(redo)
  BY <1>4, <1>15, AbstractNone
<1>20. History!ExtendRun(activeRun)
  BY <1>5, <1>15, <1>18, <1>19 DEF History!ExtendRun, Texts
<1> QED
  BY <1>15, <1>20
-----------------------------------------------------------------------------
(* What a run's edit is charged, and what an edit appends. *)

LEMMA EditCosts ==
  ASSUME NEW e \in Edits
  PROVE  /\ BytesOf(<<e>>) = TransactionCost + (EditCost + PieceCost * Len(e.pieces) + Len(Refs(e.pieces)))
         /\ AddBytesOf(<<e>>) = Total(RefAdds, Ref, Refs(e.pieces))
         /\ Len(e.pieces) \in Nat /\ Len(Refs(e.pieces)) \in Nat /\ Refs(e.pieces) \in Seq(Ref)
<1> DEFINE none == <<>>
           es == Append(none, e)
<1>1. none \in Seq(Edits) /\ es \in Seq(Edits) /\ es = <<e>>
  OBVIOUS
<1>2. e.pieces \in Seq(AnyPiece) /\ e.pieces \in Seq(Kept)
  BY KeptIn DEF Edits
<1>3. TotalLen(e.pieces) = Len(Refs(e.pieces)) /\ Refs(e.pieces) \in Seq(Ref)
      /\ AddLen(e.pieces) = Total(RefAdds, Ref, Refs(e.pieces))
      /\ Len(e.pieces) \in Nat /\ Len(Refs(e.pieces)) \in Nat
  BY <1>2, TotalLenIs, AddLenRefs, RefsIn, LenProperties
<1>4. EditBytes[e] = EditCost + PieceCost * Len(e.pieces) + TotalLen(e.pieces) /\ EditBytes[e] \in Nat
  BY EditWeights DEF EditBytes, Weights
<1>5. EditAdds[e] = AddLen(e.pieces) /\ EditAdds[e] \in Nat
  BY EditWeights DEF EditAdds, Weights
<1> HIDE DEF none
<1>6. /\ Total(EditBytes, Edits, es) = Total(EditBytes, Edits, none) + EditBytes[e]
      /\ Total(EditAdds, Edits, es) = Total(EditAdds, Edits, none) + EditAdds[e]
  BY <1>1, EditWeights, TotalFacts
<1>7. Total(EditBytes, Edits, none) = 0 /\ Total(EditAdds, Edits, none) = 0
  BY EditWeights, TotalFacts DEF none
<1> HIDE DEF es
<1>8. BytesOf(es) = TransactionCost + Total(EditBytes, Edits, es)
      /\ AddBytesOf(es) = Total(EditAdds, Edits, es)
  BY <1>1, BytesAre
<1>9. BytesOf(es) = TransactionCost + EditBytes[e] /\ AddBytesOf(es) = EditAdds[e]
  BY <1>4, <1>5, <1>6, <1>7, <1>8
<1> QED
  BY <1>1, <1>3, <1>4, <1>5, <1>9

\* A run's edit e0 becomes e when x joins it, at either end.
Joining(e, e0, x, n) ==
  /\ Refs(e.pieces) = Cat(Refs(e0.pieces), x) \/ Refs(e.pieces) = Cat(x, Refs(e0.pieces))
  /\ Len(e.pieces) = Len(e0.pieces) + n

LEMMA RunCosts ==
  ASSUME NEW e \in Edits, NEW e0 \in Edits, NEW x \in Seq(Ref), NEW n \in Nat, Joining(e, e0, x, n)
  PROVE  /\ BytesOf(<<e>>) = BytesOf(<<e0>>) + (Len(x) + PieceCost * n)
         /\ AddBytesOf(<<e>>) = AddBytesOf(<<e0>>) + Total(RefAdds, Ref, x)
         /\ LiveOf(<<e0>>) = Offs(Refs(e0.pieces))
         /\ Offs(Refs(e.pieces)) = Offs(Refs(e0.pieces)) \cup Offs(x)
<1> DEFINE y == Refs(e0.pieces)
           z == Refs(e.pieces)
           a == Len(e0.pieces)
           b == Len(e.pieces)
           w == Total(RefAdds, Ref, x)
           v == Total(RefAdds, Ref, y)
           u == Total(RefAdds, Ref, z)
<1>1. /\ BytesOf(<<e>>) = TransactionCost + (EditCost + PieceCost * b + Len(z)) /\ AddBytesOf(<<e>>) = u
      /\ b \in Nat /\ z \in Seq(Ref) /\ Len(z) \in Nat
  BY EditCosts
<1>2. /\ BytesOf(<<e0>>) = TransactionCost + (EditCost + PieceCost * a + Len(y)) /\ AddBytesOf(<<e0>>) = v
      /\ a \in Nat /\ y \in Seq(Ref) /\ Len(y) \in Nat
  BY EditCosts
<1>3. LiveOf(<<e0>>) = Offs(y)
  BY LiveOfOne
<1>4. z = Cat(y, x) \/ z = Cat(x, y)
  BY DEF Joining
<1>5. b = a + n
  BY DEF Joining
<1> HIDE DEF y, z, a, b
<1>6. Len(z) = Len(y) + Len(x) /\ Len(x) \in Nat /\ Offs(z) = Offs(y) \cup Offs(x)
  <2>1. /\ Len(Cat(y, x)) = Len(y) + Len(x) /\ Len(Cat(x, y)) = Len(x) + Len(y) /\ Len(x) \in Nat
    BY <1>2, CatIn
  <2>2. Offs(Cat(y, x)) = Offs(y) \cup Offs(x) /\ Offs(Cat(x, y)) = Offs(x) \cup Offs(y)
    BY <1>2, OffsCat
  <2> QED
    BY <1>2, <1>4, <2>1, <2>2
<1>7. u = v + w
  <2>1. Total(RefAdds, Ref, y \o x) = v + w /\ Total(RefAdds, Ref, x \o y) = w + v
    BY <1>2, RefAddsIn, TotalConcat
  <2>2. v \in Nat /\ w \in Nat
    BY <1>2, RefAddsIn, TotalFacts
  <2>3. u = Total(RefAdds, Ref, y \o x) \/ u = Total(RefAdds, Ref, x \o y)
    BY <1>4 DEF Cat
  <2> HIDE DEF u, v, w
  <2> QED
    BY <2>1, <2>2, <2>3
<1>8. PieceCost * b = PieceCost * a + PieceCost * n /\ PieceCost * a \in Nat /\ PieceCost * n \in Nat
      /\ TransactionCost \in Nat /\ EditCost \in Nat
  <2>1. PieceCost \in Nat /\ TransactionCost \in Nat /\ EditCost \in Nat
    BY PieceTableAssumption
  <2>2. \A k, i, j \in Nat : k * (i + j) = k * i + k * j /\ k * i \in Nat
    OBVIOUS
  <2> QED
    BY <1>2, <1>5, <2>1, <2>2
<1> HIDE DEF u, v, w
<1>9. BytesOf(<<e>>) = BytesOf(<<e0>>) + (Len(x) + PieceCost * n)
  <2> DEFINE k == PieceCost * a
             i == PieceCost * b
             j == PieceCost * n
  <2>1. i = k + j /\ k \in Nat /\ j \in Nat /\ TransactionCost \in Nat /\ EditCost \in Nat
        /\ BytesOf(<<e>>) = TransactionCost + (EditCost + i + Len(z))
        /\ BytesOf(<<e0>>) = TransactionCost + (EditCost + k + Len(y))
    BY <1>1, <1>2, <1>8
  <2> HIDE DEF i, j, k
  <2>2. BytesOf(<<e>>) = BytesOf(<<e0>>) + (Len(x) + j)
    BY <1>2, <1>6, <2>1
  <2> QED
    BY <2>2 DEF j
<1> QED
  BY <1>1, <1>2, <1>3, <1>6, <1>7, <1>9 DEF y, z, w

LEMMA FreshNone ==
  ASSUME add \in Texts
  PROVE  Fresh(<<>>) = {}
<1>1. Len(add) \in Nat
  BY LenProperties DEF Texts
<1> QED
  BY <1>1 DEF Fresh

\* The piece of what an edit appends.
LEMMA FreshCells ==
  ASSUME add \in Texts, NEW new \in Texts, NEW p \in AnyPiece, p = Piece("Add", Len(add), Len(new))
  PROVE  Fresh(new) \subseteq Offs(Cells(p)) /\ Total(RefAdds, Ref, Cells(p)) = Len(new)
<1>1. p.src = "Add" /\ p.start = Len(add) /\ p.len = Len(new)
  BY DEF Piece
<1>2. Len(add) \in Nat /\ Len(new) \in Nat
  BY LenProperties DEF Texts
<1>3. Len(Cells(p)) = p.len /\ \A k \in 1..p.len : Cells(p)[k] = <<"Add", Len(add) + (k - 1)>>
  BY <1>1, CellsAt
<1>4. Total(RefAdds, Ref, Cells(p)) = Len(new)
  <2>1. Total(RefAdds, Ref, Cells(p)) = PieceAdds[p]
    BY CellAdds
  <2> QED
    BY <1>1, <2>1 DEF PieceAdds
<1> DEFINE c == Cells(p)
<1> HIDE DEF c
<1>5. ASSUME NEW o \in Fresh(new)
      PROVE  o \in Offs(Cells(p))
  <2> DEFINE k == o - Len(add) + 1
  <2>1. o \in Nat /\ k \in 1..p.len /\ Len(add) + (k - 1) = o
    BY <1>1, <1>2 DEF Fresh
  <2>2. Cells(p)[k] = <<"Add", o>> /\ k \in 1..Len(Cells(p))
    BY <1>3, <2>1
  <2> HIDE DEF k
  <2> QED
    BY <2>1, <2>2 DEF Offs
<1> QED
  BY <1>4, <1>5
-----------------------------------------------------------------------------
(* One typed scalar. *)

LEMMA PushNext ==
  ASSUME NEW run \in Runs \cup {NoRun}, History!Push(run)
  PROVE  History!Next
<1>1. History!Runs = Runs /\ History!NoRun = NoRun
  BY DEF History!Runs, Runs, History!NoRun, NoRun
<1>2. CASE run \in Runs
  <2>1. History!RecordRun(run)
    BY DEF History!RecordRun
  <2> QED
    BY <1>1, <1>2, <2>1 DEF History!Next
<1>3. CASE run = NoRun
  <2>1. History!Record
    BY <1>1, <1>3 DEF History!Record
  <2> QED
    BY <2>1 DEF History!Next
<1> QED
  BY <1>2, <1>3

LEMMA ExtendNext ==
  ASSUME NEW run \in Runs, History!ExtendRun(run)
  PROVE  History!Next
<1>1. History!Runs = Runs
  BY DEF History!Runs, Runs
<1> QED
  BY <1>1 DEF History!Next

\* A transaction of a single edit.
LEMMA OneEdit ==
  ASSUME NEW t \in Tx, Len(t.edits) = 1
  PROVE  /\ t.edits[1] \in Edits /\ t.edits = <<t.edits[1]>>
         /\ \A d, f : Leads(d, t.edits, f) => Moves(t.edits[1], d, f)
         /\ \A Y : Holds(t.edits, Y) => Refs(t.edits[1].pieces) \in Seq(Y)
<1> DEFINE es == t.edits
           e == es[1]
<1>1. es \in Seq(Edits) /\ Len(es) = 1
  BY DEF Tx
<1> HIDE DEF es
<1>2. e \in Edits /\ es = <<e>>
  <2>1. 1 \in 1..Len(es)
    BY <1>1
  <2>2. e \in Edits
    BY <1>1, <2>1, ElementOfSeq
  <2> QED
    BY <1>1, <2>2
<1>3. \A Y : Holds(es, Y) => Refs(e.pieces) \in Seq(Y)
  <2>1. 1 \in 1..Len(es)
    BY <1>1
  <2> QED
    BY <2>1 DEF Holds
<1> HIDE DEF e
<1>4. \A d, f : Leads(d, <<e>>, f) => Moves(e, d, f)
  BY <1>2, LeadsOne
<1> QED
  BY <1>2, <1>3, <1>4 DEF e, es

\* What a typed scalar, the piece p of the add buffer, makes of the document.
IsTyped(ch, p, ps, ad) ==
  /\ Append(add, ch) = ad /\ ad = Cat(add, <<ch>>) /\ <<ch>> \in Texts /\ ad \in Texts
  /\ p \in Solid /\ p \in AnyPiece /\ p \in Kept /\ p.len = 1 /\ Len(Cells(p)) = 1
  /\ Cells(p) \in Seq(Ref) /\ Cells(p) \in Seq(Bounds(ad)) /\ Refs(<<p>>) = Cells(p)
  /\ Inserts(Refs(pieces), cursor, Cells(p), Refs(ps)) /\ Good(ps, ad)
  /\ cursor \in Nat /\ cursor + 1 \in 0..Len(Refs(ps))
  /\ Fresh(<<ch>>) \subseteq Offs(Cells(p)) /\ Total(RefAdds, Ref, Cells(p)) = 1

LEMMA TypedIs ==
  ASSUME PInv, NEW ch \in Chars
  PROVE  IsTyped(ch, Piece("Add", Len(add), 1), InsertScalar(pieces, cursor, Piece("Add", Len(add), 1)),
                 Append(add, ch))
<1> DEFINE p == Piece("Add", Len(add), 1)
           ps == InsertScalar(pieces, cursor, p)
           ad == Append(add, ch)
           new == <<ch>>
<1>1. add \in Texts /\ Good(pieces, add) /\ cursor \in 0..Len(Refs(pieces))
  BY DEF PInv
<1>2. ad = Cat(add, new) /\ new \in Texts /\ Len(new) = 1 /\ new # <<>>
  BY <1>1 DEF Cat, Texts
<1>3. /\ ad \in Texts /\ Bounds(add) \subseteq Bounds(ad)
      /\ \A d \in Seq(Bounds(add)) : d \in Seq(Bounds(ad))
  BY <1>1, <1>2, GrownReads
<1>4. p \in AnyPiece /\ p \in Solid /\ Cells(p) \in Seq(Bounds(ad))
      /\ Fresh(new) \subseteq Offs(Cells(p)) /\ Total(RefAdds, Ref, Cells(p)) = 1
  <2> DEFINE x == Piece("Add", Len(add), Len(new))
  <2>1. x = p
    BY <1>2
  <2> HIDE DEF p, ad
  <2>2. x \in AnyPiece /\ x \in Solid /\ Cells(x) \in Seq(Bounds(ad))
    BY <1>1, <1>2, FreshIs
  <2>3. x = Piece("Add", Len(add), Len(new))
    OBVIOUS
  <2> HIDE DEF x, new
  <2>4. Fresh(new) \subseteq Offs(Cells(x)) /\ Total(RefAdds, Ref, Cells(x)) = Len(new)
    BY <1>1, <1>2, <2>2, <2>3, FreshCells
  <2> QED
    BY <1>2, <2>1, <2>2, <2>4
<1>5. p.len = 1
  BY DEF Piece
<1> HIDE DEF p, ad
<1>6. Cells(p) \in Seq(Ref) /\ Len(Cells(p)) = 1 /\ Refs(<<p>>) = Cells(p) /\ p \in Kept
  BY <1>4, <1>5, CellsAt, RefsOne DEF Kept
<1>7. pieces \in Docs /\ Refs(pieces) \in Seq(Bounds(add))
  BY <1>1 DEF Good
<1>8. ps \in Docs /\ Inserts(Refs(pieces), cursor, Cells(p), Refs(ps))
  BY <1>1, <1>4, <1>7, InsertScalarIs
<1> HIDE DEF ps
<1>9. Good(ps, ad)
  <2>1. Bounds(ad) \in SUBSET Ref /\ Refs(pieces) \in Seq(Bounds(ad))
    BY <1>3, <1>7, BoundsIn
  <2>2. Refs(ps) \in Seq(Bounds(ad))
    BY <1>4, <1>6, <1>8, <2>1, InsertsWithin
  <2> QED
    BY <1>8, <2>2 DEF Good
<1>10. cursor \in Nat /\ cursor + 1 \in 0..Len(Refs(ps))
  <2>1. /\ Len(Refs(ps)) = Len(Refs(pieces)) + Len(Cells(p)) /\ Len(Refs(pieces)) \in Nat
    <3> DEFINE d == Refs(pieces)
               t == Cells(p)
               e == Refs(ps)
    <3>1. d \in Seq(Ref) /\ t \in Seq(Ref) /\ Inserts(d, cursor, t, e)
      BY <1>6, <1>7, <1>8, BoundsIn
    <3> HIDE DEF d, t, e
    <3>2. Len(e) = Len(d) + Len(t) /\ Len(d) \in Nat
      BY <3>1, InsertsSize, LenProperties
    <3> QED
      BY <3>2 DEF d, t, e
  <2> QED
    BY <1>1, <1>6, <2>1
<1>11. IsTyped(ch, p, ps, ad)
  BY <1>2, <1>3, <1>4, <1>5, <1>6, <1>8, <1>9, <1>10 DEF IsTyped, ad
<1> QED
  BY <1>11 DEF p, ps, ad

\* The insertion of a typed scalar as the only edit of a transaction.
LEMMA TypedRecord ==
  ASSUME PInv, NEW ch, NEW p, NEW ps, NEW ad, IsTyped(ch, p, ps, ad), NEW run \in Runs \cup {NoRun},
         cursor' = cursor + 1, Record(<<Insert(cursor, <<p>>)>>, cursor + 1, ps, ad, run)
  PROVE  PInv' /\ History!Next
<1> DEFINE e == Insert(cursor, <<p>>)
           es == <<e>>
           to == cursor + 1
           new == <<ch>>
<1>1. /\ ad = Cat(add, new) /\ new \in Texts /\ p \in Kept /\ Refs(<<p>>) = Cells(p)
      /\ Cells(p) \in Seq(Bounds(ad)) /\ Inserts(Refs(pieces), cursor, Cells(p), Refs(ps))
      /\ Good(ps, ad) /\ cursor \in Nat /\ to \in 0..Len(Refs(ps))
      /\ Fresh(new) \subseteq Offs(Cells(p))
  BY DEF IsTyped
<1>2. e \in Edits /\ e.op = "Insert" /\ e.at = cursor /\ e.pieces = <<p>>
  BY <1>1 DEF Insert, Edits
<1> HIDE DEF e
<1>3. Moves(e, Refs(pieces), Refs(ps))
  BY <1>1, <1>2 DEF Moves
<1>4. es \in Seq(Edits) /\ Leads(Refs(pieces), es, Refs(ps))
  BY <1>2, <1>3, LeadsOne
<1>5. Holds(es, Bounds(ad))
  BY <1>1, <1>2 DEF Holds
<1>6. Record(es, to, ps, ad, run)
  BY DEF e
<1>8. Fresh(new) \subseteq LiveOf(es)
  BY <1>1, <1>2, LiveOfOne
<1> HIDE DEF es, to, new
<1>7. PInv' /\ History!Push(run)
  <2>1. cursor' = to
    BY DEF to
  <2>2. Good(ps, Cat(add, new)) /\ Holds(es, Bounds(Cat(add, new))) /\ Record(es, to, ps, Cat(add, new), run)
    BY <1>1, <1>5, <1>6
  <2> QED
    BY <1>1, <1>4, <1>8, <2>1, <2>2, RecordIs
<1> QED
  BY <1>7, PushNext
LEMMA InsertCharStep ==
  ASSUME PInv, NEW ch \in Typed \ {Newline}, InsertChar(ch)
  PROVE  PInv' /\ History!Next
<1> DEFINE p  == Piece("Add", Len(add), 1)
           ps == InsertScalar(pieces, cursor, p)
           ad == Append(add, ch)
           t  == Last(undo)
           q  == t.edits[1].pieces[1]
           e  == [t.edits[1] EXCEPT !.pieces[1].len = @ + 1]
           to == cursor + 1
<1>1. ch \in Chars
  BY PieceTableAssumption DEF Chars
<1>2. IsTyped(ch, p, ps, ad)
  BY <1>1, TypedIs
<1>3. /\ cursor' = to
      /\ IF JoinsTyping(cursor, p)
         THEN Extend(Extended(t, to, e, 1, 1, Text(ps, ad)), ps, ad)
         ELSE Record(<<Insert(cursor, <<p>>)>>, to, ps, ad, "Typing")
  BY DEF InsertChar
<1> HIDE DEF p, ps, ad
<1>4. CASE JoinsTyping(cursor, p)
  <2>1. /\ activeRun = "Typing" /\ undo # <<>> /\ t.after = cursor
        /\ Len(t.edits) = 1 /\ t.edits[1].op = "Insert" /\ Len(t.edits[1].pieces) = 1
        /\ t.edits[1].at + q.len = cursor /\ Adjacent(q, p)
    BY <1>4 DEF JoinsTyping
  <2>2. /\ p \in AnyPiece /\ p.len = 1 /\ Cells(p) \in Seq(Ref) /\ Cells(p) \in Seq(Bounds(ad))
        /\ Inserts(Refs(pieces), cursor, Cells(p), Refs(ps)) /\ Good(ps, ad)
        /\ ad = Cat(add, <<ch>>) /\ <<ch>> \in Texts /\ ad \in Texts /\ to \in 0..Len(Refs(ps))
        /\ Fresh(<<ch>>) \subseteq Offs(Cells(p)) /\ Total(RefAdds, Ref, Cells(p)) = 1 /\ Len(Cells(p)) = 1
    BY <1>2 DEF IsTyped
  <2>3. t \in Tx
    BY <2>1, AbstractTop DEF PInv
  <2> DEFINE e0 == t.edits[1]
  <2>4. /\ e0 \in Edits
        /\ \A d, f : Leads(d, t.edits, f) => Moves(e0, d, f)
        /\ \A Y : Holds(t.edits, Y) => Refs(e0.pieces) \in Seq(Y)
        /\ t.edits = <<e0>>
    BY <2>1, <2>3, OneEdit
  <2>5. e0.op = "Insert" /\ Len(e0.pieces) = 1 /\ e0.at + q.len = cursor /\ q = e0.pieces[1]
    BY <2>1
  <2>6. e = [e0 EXCEPT !.pieces[1].len = @ + 1]
    OBVIOUS
  <2> HIDE DEF e0, q, e
  <2>7. /\ e0.pieces \in Seq(Kept) /\ q \in Kept /\ e0.pieces = <<q>> /\ e0.at \in Nat /\ q \in AnyPiece
    <3>1. e0.pieces \in Seq(Kept) /\ e0.at \in Nat
      BY <2>4 DEF Edits
    <3>2. 1 \in 1..Len(e0.pieces)
      BY <2>5
    <3>3. q \in Kept
      BY <2>5, <3>1, <3>2, ElementOfSeq
    <3>4. e0.pieces = <<q>>
      BY <2>5, <3>1
    <3> QED
      BY <3>1, <3>3, <3>4, KeptIn
  <2> DEFINE r == Longer(q, p.len)
  <2>8. r \in AnyPiece /\ r.len = q.len + p.len /\ Cells(r) = Cat(Cells(q), Cells(p))
    BY <2>1, <2>2, <2>7, JoinedIs
  <2>9. q.len \in Nat /\ r \in Kept
    BY <2>2, <2>7, <2>8, PieceOf DEF Kept
  <2>10. e = Insert(e0.at, <<r>>)
    <3>1. r = [q EXCEPT !.len = @ + 1]
      BY <2>2 DEF Longer
    <3> HIDE DEF r
    <3>2. e0 = [op |-> "Insert", at |-> e0.at, pieces |-> <<q>>]
      BY <2>4, <2>5, <2>7 DEF Edits
    <3>3. e = [op |-> "Insert", at |-> e0.at, pieces |-> [<<q>> EXCEPT ![1].len = @ + 1]]
      BY <2>6, <3>2
    <3>4. [<<q>> EXCEPT ![1].len = @ + 1] = <<[q EXCEPT !.len = @ + 1]>>
      OBVIOUS
    <3> QED
      BY <3>1, <3>3, <3>4 DEF Insert
  <2> HIDE DEF r
  <2>11. e \in Edits /\ e.op = "Insert" /\ e.at = e0.at /\ e.pieces = <<r>>
    BY <2>7, <2>9, <2>10 DEF Insert, Edits
  <2>12. Refs(e.pieces) = Cat(Cells(q), Cells(p)) /\ Refs(e0.pieces) = Cells(q)
         /\ Cells(q) \in Seq(Ref) /\ Len(Cells(q)) = q.len
    BY <2>7, <2>8, <2>11, RefsOne, CellsAt
  <2>13. ASSUME NEW d, Links(t, d, Refs(pieces), add)
         PROVE  Moves(e, d, Refs(ps))
    <3>1. Moves(e0, d, Refs(pieces))
      BY <2>4, <2>13 DEF Links
    <3>2. Inserts(d, e0.at, Cells(q), Refs(pieces))
      BY <2>5, <2>12, <3>1 DEF Moves
    <3>3. Inserts(Refs(pieces), e0.at + Len(Cells(q)), Cells(p), Refs(ps))
      BY <2>2, <2>5, <2>12
    <3>4. Inserts(d, e0.at, Cat(Cells(q), Cells(p)), Refs(ps))
      BY <2>2, <2>12, <3>2, <3>3, InsertsBehind
    <3> QED
      BY <2>11, <2>12, <3>4 DEF Moves
  <2>14. Refs(e.pieces) \in Seq(Bounds(ad))
    <3>1. Chain("undo", undo, Refs(pieces), add) /\ undo \in Seq(Tx) /\ add \in Texts
      BY DEF PInv
    <3>2. PICK d : Joins("undo", t, d, Refs(pieces), add)
      BY <2>1, <3>1, ChainPop
    <3>3. Refs(e0.pieces) \in Seq(Bounds(add))
      BY <2>4, <3>2 DEF Joins, Links
    <3>4. Bounds(add) \subseteq Bounds(ad)
      BY <2>2, <3>1, GrownReads
    <3>5. Cells(q) \in Seq(Bounds(ad))
      BY <2>12, <3>3, <3>4
    <3> QED
      BY <2>2, <2>12, <3>5, CatIn
  <2>20. /\ BytesOf(<<e>>) = BytesOf(t.edits) + 1 /\ AddBytesOf(<<e>>) = AddBytesOf(t.edits) + 1
         /\ LiveOf(t.edits) \cup Fresh(<<ch>>) \subseteq Offs(Refs(e.pieces))
    <3> DEFINE x == Cells(p)
    <3>1. x \in Seq(Ref) /\ Refs(e.pieces) = Cat(Refs(e0.pieces), x) /\ 0 \in Nat
          /\ Len(e.pieces) = Len(e0.pieces) + 0 /\ Len(x) = 1 /\ Total(RefAdds, Ref, x) = 1
          /\ Fresh(<<ch>>) \subseteq Offs(x) /\ e \in Edits /\ e0 \in Edits
      BY <2>2, <2>4, <2>5, <2>11, <2>12
    <3> HIDE DEF x
    <3>5. Joining(e, e0, x, 0)
      BY <3>1 DEF Joining
    <3>2. /\ BytesOf(<<e>>) = BytesOf(<<e0>>) + (Len(x) + PieceCost * 0)
          /\ AddBytesOf(<<e>>) = AddBytesOf(<<e0>>) + Total(RefAdds, Ref, x)
          /\ LiveOf(<<e0>>) = Offs(Refs(e0.pieces))
          /\ Offs(Refs(e.pieces)) = Offs(Refs(e0.pieces)) \cup Offs(x)
      BY <3>1, <3>5, RunCosts
    <3>3. Len(x) + PieceCost * 0 = 1
      <4>1. PieceCost \in Nat
        BY PieceTableAssumption
      <4>2. PieceCost * 0 = 0
        BY <4>1
      <4> QED
        BY <3>1, <4>2
    <3>4. t.edits = <<e0>>
      BY <2>4
    <3> HIDE DEF t
    <3> QED
      BY <3>1, <3>2, <3>3, <3>4
  <2>15. Extend(Extended(t, to, e, 1, 1, Text(ps, ad)), ps, ad)
    BY <1>3, <1>4
  <2>16. activeRun \in Runs /\ 1 \in Nat /\ cursor' = to
    BY <1>3, <2>1 DEF Runs
  <2> DEFINE new == <<ch>>
  <2>17. new \in Texts /\ Good(ps, Cat(add, new)) /\ Refs(e.pieces) \in Seq(Bounds(Cat(add, new)))
         /\ Extend(Extended(t, to, e, 1, 1, Text(ps, Cat(add, new))), ps, Cat(add, new))
    BY <2>2, <2>14, <2>15
  <2>21. /\ BytesOf(<<e>>) = BytesOf(t.edits) + 1 /\ AddBytesOf(<<e>>) = AddBytesOf(t.edits) + 1
         /\ LiveOf(t.edits) \cup Fresh(new) \subseteq Offs(Refs(e.pieces))
    BY <2>20
  <2> HIDE DEF new, to
  <2>18. to \in 0..Len(Refs(ps))
    BY <2>2
  <2>19. PInv' /\ History!ExtendRun(activeRun)
    BY <2>11, <2>13, <2>16, <2>17, <2>18, <2>21, ExtendIs
  <2> QED
    BY <2>16, <2>19, ExtendNext
<1>5. CASE ~JoinsTyping(cursor, p)
  <2>1. Record(<<Insert(cursor, <<p>>)>>, cursor + 1, ps, ad, "Typing") /\ cursor' = cursor + 1
    BY <1>3, <1>5
  <2>2. "Typing" \in Runs \cup {NoRun}
    BY DEF Runs
  <2> QED
    BY <1>2, <2>1, <2>2, TypedRecord
<1> QED
  BY <1>4, <1>5

LEMMA InsertNewlineStep ==
  ASSUME PInv, InsertNewline
  PROVE  PInv' /\ History!Next
<1> DEFINE p  == Piece("Add", Len(add), 1)
           ps == InsertScalar(pieces, cursor, p)
           ad == Append(add, Newline)
<1>1. Newline \in Chars
  BY DEF Chars
<1>2. IsTyped(Newline, p, ps, ad)
  BY <1>1, TypedIs
<1>3. cursor' = cursor + 1 /\ Record(<<Insert(cursor, <<p>>)>>, cursor + 1, ps, ad, NoRun)
  BY DEF InsertNewline
<1> HIDE DEF p, ps, ad
<1>4. NoRun \in Runs \cup {NoRun}
  OBVIOUS
<1> QED
  BY <1>2, <1>3, <1>4, TypedRecord
-----------------------------------------------------------------------------
(* One deleted scalar. *)

LEMMA MergeBoundaryLen ==
  ASSUME NEW ps \in Seq(Kept), NEW right \in Nat
  PROVE  Len(MergeBoundary(ps, right)) \in Nat /\ Len(MergeBoundary(ps, right)) + 1 >= Len(ps)
<1>1. Len(ps) \in Nat
  BY LenProperties
<1>2. CASE right > 1 /\ right <= Len(ps) /\ Adjacent(ps[right - 1], ps[right])
  <2> DEFINE a == SubSeq(ps, 1, right - 2)
             b == [ps[right - 1] EXCEPT !.len = @ + ps[right].len]
             c == SubSeq(ps, right + 1, Len(ps))
  <2>1. right - 2 \in 0..Len(ps) /\ right \in 0..Len(ps)
    BY <1>1, <1>2
  <2>2. Len(a) = right - 2 /\ Len(c) = Len(ps) - right
    BY <2>1, PrefixAt, SuffixAt
  <2>3. MergeBoundary(ps, right) = a \o <<b>> \o c
    BY <1>2 DEF MergeBoundary
  <2>4. a \in Seq(Kept) /\ c \in Seq(Kept)
    BY <2>1, PrefixAt, SuffixAt
  <2> HIDE DEF a, b, c
  <2>5. Len(a \o <<b>> \o c) = Len(a) + 1 + Len(c)
    BY <2>4
  <2> QED
    BY <1>1, <2>1, <2>2, <2>3, <2>5
<1>3. CASE ~(right > 1 /\ right <= Len(ps) /\ Adjacent(ps[right - 1], ps[right]))
  <2>1. MergeBoundary(ps, right) = ps
    BY <1>3 DEF MergeBoundary
  <2> QED
    BY <1>1, <2>1
<1> QED
  BY <1>2, <1>3

\* What the deletion of the scalar at an offset leaves and removes.
IsCut(at, ps, removed) ==
  /\ Good(ps, add) /\ at \in Nat /\ at \in 0..Len(Refs(ps))
  /\ removed \in Seq(Kept) /\ removed # <<>> /\ removed \in Seq(AnyPiece)
  /\ Refs(removed) \in Seq(Bounds(add)) /\ Refs(removed) \in Seq(Ref) /\ Len(Refs(removed)) = 1
  /\ Inserts(Refs(ps), at, Refs(removed), Refs(pieces))

LEMMA IsCutAt ==
  ASSUME PInv, NEW at \in Nat, at + 1 <= Len(Refs(pieces))
  PROVE  IsCut(at, DeleteRange(pieces, at, at + 1).pieces, DeleteRange(pieces, at, at + 1).removed)
<1> DEFINE ps == DeleteRange(pieces, at, at + 1).pieces
           removed == DeleteRange(pieces, at, at + 1).removed
           end == at + 1
<1>1. pieces \in Docs /\ Refs(pieces) \in Seq(Bounds(add)) /\ add \in Texts
  BY DEF PInv, Good
<1>2. end \in Nat /\ at < end /\ end <= Len(Refs(pieces)) /\ end - at = 1
  OBVIOUS
<1>3. /\ ps \in Docs /\ removed \in Seq(Kept) /\ removed # <<>>
      /\ Len(Refs(removed)) = end - at
      /\ Inserts(Refs(ps), at, Refs(removed), Refs(pieces))
  <2> HIDE DEF end
  <2>1. /\ DeleteRange(pieces, at, end).pieces \in Docs
        /\ DeleteRange(pieces, at, end).removed \in Seq(Kept)
        /\ DeleteRange(pieces, at, end).removed # <<>>
        /\ Len(Refs(DeleteRange(pieces, at, end).removed)) = end - at
        /\ Inserts(Refs(DeleteRange(pieces, at, end).pieces), at,
                   Refs(DeleteRange(pieces, at, end).removed), Refs(pieces))
    BY <1>1, <1>2, DeleteRangeIs
  <2> QED
    BY <2>1 DEF end
<1> HIDE DEF ps, removed
<1>4. removed \in Seq(AnyPiece) /\ ps \in Seq(AnyPiece) /\ Refs(removed) \in Seq(Ref) /\ Refs(ps) \in Seq(Ref)
  BY <1>3, KeptIn, RefsIn
<1>5. Bounds(add) \in SUBSET Ref
  BY BoundsIn
<1>6. Refs(ps) \in Seq(Bounds(add)) /\ Refs(removed) \in Seq(Bounds(add))
  BY <1>1, <1>3, <1>4, <1>5, InsertsWithin
<1>7. at \in 0..Len(Refs(ps))
  BY <1>3, <1>4, InsertsSize
<1>8. Good(ps, add)
  BY <1>3, <1>6 DEF Good
<1>9. IsCut(at, ps, removed)
  BY <1>2, <1>3, <1>4, <1>6, <1>7, <1>8 DEF IsCut
<1> QED
  BY <1>9 DEF ps, removed

LEMMA CutRecord ==
  ASSUME PInv, NEW at, NEW ps, NEW removed, IsCut(at, ps, removed), NEW run \in Runs \cup {NoRun},
         cursor' = at, Record(<<Delete(at, removed)>>, at, ps, add, run)
  PROVE  PInv' /\ History!Next
<1> DEFINE e == Delete(at, removed)
           es == <<e>>
           new == <<>>
<1>1. /\ removed \in Seq(Kept) /\ Good(ps, add) /\ at \in Nat /\ at \in 0..Len(Refs(ps))
      /\ Refs(removed) \in Seq(Bounds(add)) /\ Inserts(Refs(ps), at, Refs(removed), Refs(pieces))
  BY DEF IsCut
<1>2. e \in Edits /\ e.op # "Insert" /\ e.at = at /\ e.pieces = removed
  BY <1>1 DEF Delete, Edits
<1>3. Cat(add, new) = add /\ new \in Texts
  BY CatEmpty DEF PInv, Texts
<1>9. Fresh(new) \subseteq LiveOf(es)
  BY FreshNone DEF PInv
<1> HIDE DEF e, new
<1>4. Moves(e, Refs(pieces), Refs(ps))
  BY <1>1, <1>2 DEF Moves
<1>5. es \in Seq(Edits) /\ Leads(Refs(pieces), es, Refs(ps))
  BY <1>2, <1>4, LeadsOne
<1>6. Holds(es, Bounds(Cat(add, new)))
  BY <1>1, <1>2, <1>3 DEF Holds
<1>7. Record(es, at, ps, Cat(add, new), run) /\ Good(ps, Cat(add, new))
  BY <1>1, <1>3 DEF e
<1> HIDE DEF es
<1>8. PInv' /\ History!Push(run)
  BY <1>1, <1>3, <1>5, <1>6, <1>7, <1>9, RecordIs
<1> QED
  BY <1>8, PushNext
\* What a run's edit becomes when it takes in one more deleted scalar.
LEMMA JoinedDeleteIs ==
  ASSUME NEW run \in {"Backspace", "DeleteForward"}, NEW at \in Nat, NEW old \in Seq(Kept),
         NEW removed \in Seq(Kept), removed # <<>>, undo # <<>>, Last(undo).edits[1].pieces = old
  PROVE  /\ JoinedDelete(run, at, removed) \in Edits
         /\ JoinedDelete(run, at, removed).op = "Delete" /\ JoinedDelete(run, at, removed).at = at
         /\ Refs(JoinedDelete(run, at, removed).pieces)
              = IF run = "Backspace" THEN Cat(Refs(removed), Refs(old)) ELSE Cat(Refs(old), Refs(removed))
         /\ Len(JoinedDelete(run, at, removed).pieces) - Len(old) \in Nat
<1> DEFINE j == JoinedDelete(run, at, removed)
           a == IF run = "Backspace" THEN removed ELSE old
           b == IF run = "Backspace" THEN old ELSE removed
           all == Cat(a, b)
           right == Len(a) + 1
           m == MergeBoundary(all, right)
<1>1. a \in Seq(Kept) /\ b \in Seq(Kept) /\ a \in Seq(AnyPiece) /\ b \in Seq(AnyPiece)
  BY KeptIn
<1>2. j = Delete(at, m)
  BY DEF JoinedDelete, Cat
<1> HIDE DEF j
<1>3. Len(a) \in Nat /\ Len(b) \in Nat /\ Len(old) \in Nat /\ Len(removed) \in Nat \ {0}
  BY <1>1, EmptySeq, LenProperties
<1>4. Len(a) + Len(b) = Len(old) + Len(removed)
  BY <1>3
<1> HIDE DEF a, b
<1>5. all \in Seq(Kept) /\ Len(all) = Len(a) + Len(b) /\ all # <<>>
  <2>1. all \in Seq(Kept) /\ Len(all) = Len(a) + Len(b)
    BY <1>1, CatIn
  <2> HIDE DEF all
  <2> QED
    BY <1>3, <1>4, <2>1
<1>6. Refs(all) = Cat(Refs(a), Refs(b))
  BY <1>1, RefsCat
<1> HIDE DEF all
<1>7. right \in Nat
  BY <1>3
<1> HIDE DEF right
<1>8. /\ m \in Seq(Kept) /\ m # <<>> /\ Refs(m) = Refs(all)
      /\ Len(m) \in Nat /\ Len(m) + 1 >= Len(all)
  BY <1>5, <1>7, MergeBoundaryIs, MergeBoundaryLen
<1> HIDE DEF m
<1>9. j \in Edits /\ j.op = "Delete" /\ j.at = at /\ j.pieces = m
  BY <1>2, <1>8 DEF Delete, Edits
<1>10. Len(m) - Len(old) \in Nat
  BY <1>3, <1>4, <1>5, <1>8
<1>11. Refs(m) = IF run = "Backspace" THEN Cat(Refs(removed), Refs(old)) ELSE Cat(Refs(old), Refs(removed))
  BY <1>6, <1>8 DEF a, b
<1> QED
  BY <1>9, <1>10, <1>11 DEF j
LEMMA DeleteScalarStep ==
  ASSUME PInv, NEW run \in {"Backspace", "DeleteForward"}, NEW at \in Nat, at + 1 <= Len(Refs(pieces)),
         DeleteScalar(run, at)
  PROVE  PInv' /\ History!Next
<1> DEFINE cut == DeleteRange(pieces, at, at + 1)
           ps == cut.pieces
           removed == cut.removed
           t == Last(undo)
           e0 == t.edits[1]
           old == e0.pieces
           e == JoinedDelete(run, at, removed)
           n == Len(e.pieces) - Len(old)
           moreBytes == 1 + PieceCost * n
           moreAdd == AddLen(removed)
           new == <<>>
<1>1. IsCut(at, ps, removed)
  BY IsCutAt
<1>2. /\ cursor' = at
      /\ IF JoinsDelete(run, at, 1)
         THEN Extend(Extended(t, at, e, moreBytes, moreAdd, Text(ps, add)), ps, add)
         ELSE Record(<<Delete(at, removed)>>, at, ps, add, run)
  BY DEF DeleteScalar
<1> HIDE DEF cut, e
<1>3. CASE JoinsDelete(run, at, 1)
  <2> HIDE DEF ps, removed
  <2>1. /\ activeRun = run /\ undo # <<>> /\ Len(t.edits) = 1 /\ e0.op = "Delete"
        /\ IF run = "Backspace" THEN at + 1 = e0.at ELSE at = e0.at
    BY <1>3 DEF JoinsDelete
  <2>2. t \in Tx
    BY <2>1, AbstractTop DEF PInv
  <2>3. /\ e0 \in Edits
        /\ \A d, f : Leads(d, t.edits, f) => Moves(e0, d, f)
        /\ \A Y : Holds(t.edits, Y) => Refs(e0.pieces) \in Seq(Y)
        /\ t.edits = <<e0>>
    BY <2>1, <2>2, OneEdit
  <2> HIDE DEF e0
  <2>4. old \in Seq(Kept) /\ old \in Seq(AnyPiece) /\ Refs(old) \in Seq(Ref)
    BY <2>3, KeptIn, RefsIn DEF Edits
  <2>5. /\ Good(ps, add) /\ at \in 0..Len(Refs(ps)) /\ removed \in Seq(Kept) /\ removed # <<>>
        /\ removed \in Seq(AnyPiece) /\ Refs(removed) \in Seq(Bounds(add)) /\ Refs(removed) \in Seq(Ref)
        /\ Len(Refs(removed)) = 1 /\ Inserts(Refs(ps), at, Refs(removed), Refs(pieces))
    BY <1>1 DEF IsCut
  <2>6. Last(undo).edits[1].pieces = old
    BY DEF e0
  <2>7. /\ e \in Edits /\ e.op = "Delete" /\ e.at = at
        /\ Refs(e.pieces) = IF run = "Backspace" THEN Cat(Refs(removed), Refs(old))
                            ELSE Cat(Refs(old), Refs(removed))
        /\ n \in Nat
    <3> HIDE DEF old, t
    <3>1. old \in Seq(Kept) /\ undo # <<>> /\ removed \in Seq(Kept) /\ removed # <<>>
      BY <2>1, <2>4, <2>5
    <3> QED
      BY <2>6, <3>1, JoinedDeleteIs DEF e
  <2>8. ASSUME NEW d, Links(t, d, Refs(pieces), add)
        PROVE  Moves(e, d, Refs(ps))
    <3>1. Moves(e0, d, Refs(pieces))
      BY <2>3, <2>8 DEF Links
    <3>2. Inserts(Refs(pieces), e0.at, Refs(old), d)
      BY <2>1, <3>1 DEF Moves
    <3> DEFINE x == Refs(removed)
               y == Refs(old)
    <3>3. x \in Seq(Ref) /\ y \in Seq(Ref) /\ Len(x) = 1
      BY <2>4, <2>5
    <3>4. Inserts(Refs(ps), at, x, Refs(pieces)) /\ Inserts(Refs(pieces), e0.at, y, d)
      BY <2>5, <3>2
    <3>5. Refs(e.pieces) = IF run = "Backspace" THEN Cat(x, y) ELSE Cat(y, x)
      BY <2>7
    <3> HIDE DEF x, y
    <3>6. CASE run = "Backspace"
      <4>1. e0.at = at + Len(x)
        BY <2>1, <3>3, <3>6
      <4>2. Inserts(Refs(ps), at, Cat(x, y), d)
        BY <3>3, <3>4, <4>1, InsertsBehind
      <4> QED
        BY <2>7, <3>5, <3>6, <4>2 DEF Moves
    <3>7. CASE run # "Backspace"
      <4>1. e0.at = at
        BY <2>1, <3>7
      <4>2. Inserts(Refs(ps), at, Cat(y, x), d)
        BY <3>3, <3>4, <4>1, InsertsBefore
      <4> QED
        BY <2>7, <3>5, <3>7, <4>2 DEF Moves
    <3> QED
      BY <3>6, <3>7
  <2>9. Refs(e.pieces) \in Seq(Bounds(add))
    <3>1. Chain("undo", undo, Refs(pieces), add) /\ undo \in Seq(Tx)
      BY DEF PInv
    <3>2. PICK d : Joins("undo", t, d, Refs(pieces), add)
      BY <2>1, <3>1, ChainPop
    <3>3. Refs(old) \in Seq(Bounds(add))
      BY <2>3, <3>2 DEF Joins, Links
    <3> QED
      BY <2>5, <2>7, <3>3, CatIn
  <2>10. moreAdd \in Nat /\ moreBytes \in Nat
    <3>1. PieceCost \in Nat
      BY PieceTableAssumption
    <3>2. \A k \in Nat : 1 + PieceCost * k \in Nat
      BY <3>1
    <3> QED
      BY <2>5, <2>7, <3>2, AddLenIn
  <2>17. /\ BytesOf(<<e>>) = BytesOf(t.edits) + moreBytes /\ AddBytesOf(<<e>>) = AddBytesOf(t.edits) + moreAdd
         /\ LiveOf(t.edits) \subseteq Offs(Refs(e.pieces))
    <3> DEFINE x == Refs(removed)
    <3>1. /\ x \in Seq(Ref) /\ Len(x) = 1 /\ e \in Edits /\ e0 \in Edits /\ n \in Nat
          /\ Refs(e.pieces) = Cat(Refs(e0.pieces), x) \/ Refs(e.pieces) = Cat(x, Refs(e0.pieces))
      BY <2>3, <2>5, <2>7
    <3>2. moreAdd = Total(RefAdds, Ref, x)
      BY <2>5, AddLenRefs
    <3>3. Len(e.pieces) = Len(e0.pieces) + n
      <4>1. Len(e.pieces) \in Nat /\ Len(e0.pieces) \in Nat
        BY <3>1, EditCosts
      <4> QED
        BY <4>1
    <3>4. moreBytes = Len(x) + PieceCost * n
      BY <3>1
    <3>5. t.edits = <<e0>>
      BY <2>3
    <3> HIDE DEF x, moreAdd, moreBytes, n, t
    <3>7. Joining(e, e0, x, n)
      BY <3>1, <3>3 DEF Joining
    <3>6. /\ BytesOf(<<e>>) = BytesOf(<<e0>>) + (Len(x) + PieceCost * n)
          /\ AddBytesOf(<<e>>) = AddBytesOf(<<e0>>) + Total(RefAdds, Ref, x)
          /\ LiveOf(<<e0>>) = Offs(Refs(e0.pieces))
          /\ Offs(Refs(e.pieces)) = Offs(Refs(e0.pieces)) \cup Offs(x)
      BY <3>1, <3>7, RunCosts
    <3> QED
      BY <3>2, <3>4, <3>5, <3>6
  <2> HIDE DEF moreAdd, moreBytes, n
  <2>11. Cat(add, new) = add /\ new \in Texts
    BY CatEmpty DEF PInv, Texts
  <2>12. Extend(Extended(t, at, e, moreBytes, moreAdd, Text(ps, add)), ps, add)
    BY <1>2, <1>3
  <2>18. LiveOf(t.edits) \cup Fresh(new) \subseteq Offs(Refs(e.pieces))
    BY <2>17, FreshNone DEF PInv
  <2>13. activeRun \in Runs /\ cursor' = at
    BY <1>2, <2>1 DEF Runs
  <2> HIDE DEF new
  <2>14. /\ Good(ps, Cat(add, new)) /\ Refs(e.pieces) \in Seq(Bounds(Cat(add, new)))
         /\ Extend(Extended(t, at, e, moreBytes, moreAdd, Text(ps, Cat(add, new))), ps, Cat(add, new))
    BY <2>5, <2>9, <2>11, <2>12
  <2>15. at \in 0..Len(Refs(ps))
    BY <2>5
  <2>16. PInv' /\ History!ExtendRun(activeRun)
    BY <2>7, <2>8, <2>10, <2>11, <2>13, <2>14, <2>15, <2>17, <2>18, ExtendIs
  <2> QED
    BY <2>13, <2>16, ExtendNext
<1>4. CASE ~JoinsDelete(run, at, 1)
  <2>1. Record(<<Delete(at, removed)>>, at, ps, add, run) /\ cursor' = at
    BY <1>2, <1>4
  <2>2. run \in Runs \cup {NoRun}
    BY DEF Runs
  <2> HIDE DEF ps, removed
  <2> QED
    BY <1>1, <2>1, <2>2, CutRecord
<1> QED
  BY <1>3, <1>4

LEMMA JoinLinesStep ==
  ASSUME PInv, NEW at \in Nat, at + 1 <= Len(Refs(pieces)), JoinLines(at)
  PROVE  PInv' /\ History!Next
<1> DEFINE cut == DeleteRange(pieces, at, at + 1)
           ps == cut.pieces
           removed == cut.removed
<1>1. IsCut(at, ps, removed)
  BY IsCutAt
<1>2. cursor' = at /\ Record(<<Delete(at, removed)>>, at, ps, add, NoRun)
  BY DEF JoinLines
<1> HIDE DEF ps, removed
<1>3. NoRun \in Runs \cup {NoRun}
  OBVIOUS
<1> QED
  BY <1>1, <1>2, <1>3, CutRecord

\* A step that edits nothing ends the run, or changes nothing the history sees.
LEMMA EndRunStep ==
  ASSUME PInv, EndRun, cursor' \in 0..Len(Refs(pieces))
  PROVE  PInv' /\ (History!Next \/ UNCHANGED History!vars)
<1>1. /\ UNCHANGED <<add, pieces, undo, redo, baseId, nextId, currentId, retained, discarded, file>>
      /\ activeRun' = NoRun
  BY DEF EndRun
<1>2. UNCHANGED <<Doc, Abstract(undo), Abstract(redo)>>
  BY <1>1 DEF Doc
<1>3. PInv'
  <2>1. Accounts'
    BY <1>1 DEF PInv, Accounts
  <2>2. Numbered'
    BY <1>1 DEF PInv, Numbered, file
  <2> QED
    BY <1>1, <2>1, <2>2 DEF PInv
<1>4. CASE activeRun = NoRun
  BY <1>1, <1>2, <1>3, <1>4 DEF History!vars, History!history, History!file, file
<1>5. CASE activeRun # NoRun
  <2>1. History!FinishRun
    BY <1>1, <1>2, <1>5 DEF History!FinishRun, History!NoRun, NoRun, History!file, file
  <2> QED
    BY <1>3, <2>1 DEF History!Next
<1> QED
  BY <1>4, <1>5

LEMMA DeleteBackStep ==
  ASSUME PInv, DeleteBack
  PROVE  PInv' /\ (History!Next \/ UNCHANGED History!vars)
<1>1. cursor \in 0..Len(Refs(pieces)) /\ Len(Refs(pieces)) \in Nat
  BY GoodReads DEF PInv
<1>2. CASE cursor > 0 /\ JoinLines(cursor - 1)
  <2>1. cursor - 1 \in Nat /\ (cursor - 1) + 1 <= Len(Refs(pieces))
    BY <1>1, <1>2
  <2> QED
    BY <1>2, <2>1, JoinLinesStep
<1>3. CASE cursor > 0 /\ DeleteScalar("Backspace", cursor - 1)
  <2>1. cursor - 1 \in Nat /\ (cursor - 1) + 1 <= Len(Refs(pieces))
    BY <1>1, <1>3
  <2> QED
    BY <1>3, <2>1, DeleteScalarStep
<1>4. CASE EndRun /\ UNCHANGED cursor
  BY <1>1, <1>4, EndRunStep
<1> QED
  BY <1>2, <1>3, <1>4 DEF DeleteBack

LEMMA DeleteForwardStep ==
  ASSUME PInv, DeleteForward
  PROVE  PInv' /\ (History!Next \/ UNCHANGED History!vars)
<1>1. cursor \in 0..Len(Refs(pieces)) /\ Len(Refs(pieces)) \in Nat /\ Len(Doc) = Len(Refs(pieces))
  BY GoodReads DEF PInv, Doc
<1>2. CASE cursor < Len(Doc) /\ JoinLines(cursor)
  <2>1. cursor \in Nat /\ cursor + 1 <= Len(Refs(pieces))
    BY <1>1, <1>2
  <2> QED
    BY <1>2, <2>1, JoinLinesStep
<1>3. CASE cursor < Len(Doc) /\ DeleteScalar("DeleteForward", cursor)
  <2>1. cursor \in Nat /\ cursor + 1 <= Len(Refs(pieces))
    BY <1>1, <1>3
  <2> QED
    BY <1>3, <2>1, DeleteScalarStep
<1>4. CASE EndRun /\ UNCHANGED cursor
  BY <1>1, <1>4, EndRunStep
<1> QED
  BY <1>2, <1>3, <1>4 DEF DeleteForward

LEMMA MoveStep ==
  ASSUME PInv, NEW to \in 0..Len(Doc), Move(to)
  PROVE  PInv' /\ (History!Next \/ UNCHANGED History!vars)
<1>1. Len(Doc) = Len(Refs(pieces))
  BY GoodReads DEF PInv, Doc
<1> QED
  BY <1>1, EndRunStep DEF Move

LEMMA SaveStep ==
  ASSUME PInv, Save
  PROVE  PInv' /\ History!Next
<1>1. UNCHANGED storage /\ UNCHANGED <<undo, redo, baseId, nextId, currentId, retained, discarded>>
      /\ activeRun' = NoRun
  BY DEF Save
<1>2. UNCHANGED <<Doc, Abstract(undo), Abstract(redo), add, pieces, cursor>>
  BY <1>1 DEF Doc, storage
<1>3. PInv'
  <2>1. Accounts'
    BY <1>1, <1>2 DEF PInv, Accounts
  <2>2. Numbered'
    <3>1. savedId' = currentId /\ unavailable' = FALSE /\ dirty' = FALSE
      BY DEF Save
    <3> QED
      BY <1>1, <3>1 DEF PInv, Numbered
  <2> QED
    BY <1>1, <1>2, <2>1, <2>2 DEF PInv
<1>4. History!Save
  BY <1>1, <1>2 DEF Save, History!Save, History!NoRun, NoRun
<1> QED
  BY <1>3, <1>4 DEF History!Next
-----------------------------------------------------------------------------
(* Replacements. *)

Batched(acc, d, Y) ==
  /\ acc = [pieces |-> acc.pieces, edits |-> acc.edits]
  /\ acc.pieces \in Docs /\ Refs(acc.pieces) \in Seq(Y)
  /\ acc.edits \in Seq(Edits) /\ Holds(acc.edits, Y) /\ Leads(d, acc.edits, Refs(acc.pieces))

LEMMA HoldsAppend ==
  ASSUME NEW es \in Seq(Edits), NEW Y, Holds(es, Y), NEW e \in Edits, Refs(e.pieces) \in Seq(Y)
  PROVE  Holds(Append(es, e), Y)
<1> DEFINE a == Append(es, e)
<1>1. /\ Len(es) \in Nat /\ Len(a) = Len(es) + 1 /\ \A i \in 1..Len(es) : a[i] = es[i]
      /\ a[Len(es) + 1] = e
  BY AppendAt
<1> HIDE DEF a
<1>2. \A k \in 1..Len(a) : Refs(a[k].pieces) \in Seq(Y)
  <2> SUFFICES ASSUME NEW k \in 1..Len(a)
               PROVE  Refs(a[k].pieces) \in Seq(Y)
    OBVIOUS
  <2>1. k \in 1..Len(es) \/ k = Len(es) + 1
    BY <1>1
  <2>2. CASE k \in 1..Len(es)
    BY <1>1, <2>2 DEF Holds
  <2>3. CASE k = Len(es) + 1
    BY <1>1, <2>3
  <2> QED
    BY <2>1, <2>2, <2>3
<1> QED
  BY <1>2 DEF Holds, a

\* One more edit of a batch.
LEMMA BatchedMore ==
  ASSUME NEW es \in Seq(Edits), NEW e \in Edits, NEW d, NEW Y, NEW f, NEW g,
         Holds(es, Y), Refs(e.pieces) \in Seq(Y), Leads(d, es, f), Moves(e, f, g)
  PROVE  /\ es \o <<e>> \in Seq(Edits) /\ Holds(es \o <<e>>, Y) /\ Leads(d, es \o <<e>>, g)
         /\ Offs(Refs(e.pieces)) \subseteq LiveOf(es \o <<e>>)
<1>1. es \o <<e>> = Append(es, e)
  OBVIOUS
<1>2. Leads(d, Append(es, e), g) /\ Append(es, e) \in Seq(Edits)
  BY LeadsAppend
<1>3. Holds(Append(es, e), Y)
  BY HoldsAppend
<1>4. Offs(Refs(e.pieces)) \subseteq LiveOf(Append(es, e))
  BY LiveOfAppend
<1> QED
  BY <1>1, <1>2, <1>3, <1>4

\* Removing a range.
LEMMA RangeRemoved ==
  ASSUME NEW Y \in SUBSET Ref, NEW d, NEW acc, Batched(acc, d, Y),
         NEW from \in Nat, NEW to \in Nat, from <= to, to <= Len(Refs(acc.pieces))
  PROVE  LET cut == DeleteRange(acc.pieces, from, to)
             del == IF cut.removed = <<>> THEN <<>> ELSE <<Delete(from, cut.removed)>>
         IN  /\ cut.pieces \in Docs /\ Refs(cut.pieces) \in Seq(Y) /\ from <= Len(Refs(cut.pieces))
             /\ acc.edits \o del \in Seq(Edits) /\ Holds(acc.edits \o del, Y)
             /\ Leads(d, acc.edits \o del, Refs(cut.pieces))
<1> DEFINE ps == acc.pieces
           es == acc.edits
           cut == DeleteRange(ps, from, to)
           left == cut.pieces
           removed == cut.removed
           del == IF removed = <<>> THEN <<>> ELSE <<Delete(from, removed)>>
<1>1. ps \in Docs /\ Refs(ps) \in Seq(Y) /\ es \in Seq(Edits) /\ Holds(es, Y) /\ Leads(d, es, Refs(ps))
  BY DEF Batched
<1>2. to <= Len(Refs(ps))
  OBVIOUS
<1> HIDE DEF ps, es
<1>3. CASE from = to
  <2>1. cut = [pieces |-> ps, removed |-> <<>>]
    BY <1>3 DEF DeleteRange
  <2>2. left = ps /\ removed = <<>>
    BY <2>1
  <2>3. es \o <<>> = es
    BY <1>1
  <2>4. from <= Len(Refs(ps))
    BY <1>2, <1>3
  <2> QED
    BY <1>1, <2>2, <2>3, <2>4 DEF ps, es
<1>4. CASE from < to
  <2>1. /\ left \in Docs /\ removed \in Seq(Kept) /\ removed # <<>>
        /\ Inserts(Refs(left), from, Refs(removed), Refs(ps))
    BY <1>1, <1>2, <1>4, DeleteRangeIs
  <2> HIDE DEF left, removed
  <2>2. left \in Seq(AnyPiece) /\ removed \in Seq(AnyPiece)
    BY <2>1, KeptIn
  <2>3. Refs(left) \in Seq(Ref) /\ Refs(removed) \in Seq(Ref)
    BY <2>2, RefsIn
  <2>4. Refs(left) \in Seq(Y) /\ Refs(removed) \in Seq(Y)
    BY <1>1, <2>1, <2>3, InsertsWithin
  <2>5. from <= Len(Refs(left))
    BY <2>1, <2>3, InsertsSize
  <2> DEFINE e == Delete(from, removed)
  <2>6. e \in Edits /\ e.op # "Insert" /\ e.at = from /\ e.pieces = removed
    BY <2>1 DEF Delete, Edits
  <2>7. del = <<e>>
    BY <2>1
  <2> HIDE DEF e, del
  <2>8. Moves(e, Refs(ps), Refs(left))
    BY <2>1, <2>6 DEF Moves
  <2>9. Refs(e.pieces) \in Seq(Y)
    BY <2>4, <2>6
  <2>10. es \o <<e>> \in Seq(Edits) /\ Holds(es \o <<e>>, Y) /\ Leads(d, es \o <<e>>, Refs(left))
    BY <1>1, <2>6, <2>8, <2>9, BatchedMore
  <2>11. es \o del \in Seq(Edits) /\ Holds(es \o del, Y) /\ Leads(d, es \o del, Refs(left))
    BY <2>7, <2>10
  <2>12. left \in Docs /\ Refs(left) \in Seq(Y) /\ from <= Len(Refs(left))
    BY <2>1, <2>4, <2>5
  <2> QED
    BY <2>11, <2>12 DEF left, del, removed, ps, es
<1> QED
  BY <1>3, <1>4

LEMMA ReplaceOneIs ==
  ASSUME NEW Y \in SUBSET Ref, NEW d, NEW acc, Batched(acc, d, Y), NEW r, r[1] \in Nat, r[2] \in Nat,
         r[1] <= r[2], r[2] <= Len(Refs(acc.pieces)), NEW new \in Seq(Kept), Refs(new) \in Seq(Y)
  PROVE  /\ Batched(ReplaceOne(acc, r, new), d, Y)
         /\ Len(Refs(ReplaceOne(acc, r, new).pieces)) \in Nat
         /\ r[1] + Len(Refs(new)) <= Len(Refs(ReplaceOne(acc, r, new).pieces))
         /\ Offs(Refs(new)) \subseteq LiveOf(ReplaceOne(acc, r, new).edits)
<1> DEFINE from == r[1]
           to == r[2]
           cut == DeleteRange(acc.pieces, from, to)
           left == cut.pieces
           del == IF cut.removed = <<>> THEN <<>> ELSE <<Delete(from, cut.removed)>>
           es == acc.edits \o del
           e == Insert(from, new)
           ins == IF new = <<>> THEN <<>> ELSE <<e>>
           ps == InsertPieces(left, from, new)
           x == ReplaceOne(acc, r, new)
<1>1. /\ left \in Docs /\ Refs(left) \in Seq(Y) /\ from <= Len(Refs(left))
      /\ es \in Seq(Edits) /\ Holds(es, Y) /\ Leads(d, es, Refs(left))
  <2> HIDE DEF from, to
  <2>1. from \in Nat /\ to \in Nat /\ from <= to /\ to <= Len(Refs(acc.pieces))
    BY DEF from, to
  <2> QED
    BY <2>1, RangeRemoved
<1>2. x = [pieces |-> ps, edits |-> es \o ins]
  BY DEF ReplaceOne
<1> HIDE DEF x, es
<1>3. from \in 0..Len(Refs(left)) /\ Refs(left) \in Seq(Ref) /\ Len(Refs(left)) \in Nat
  <2>1. Refs(left) \in Seq(Ref)
    BY <1>1, KeptIn, RefsIn
  <2> HIDE DEF left, from
  <2>2. Len(Refs(left)) \in Nat
    BY <2>1, LenProperties
  <2>3. from \in Nat
    BY DEF from
  <2> QED
    BY <1>1, <2>1, <2>2, <2>3
<1> HIDE DEF left
<1>4. new \in Seq(AnyPiece) /\ Refs(new) \in Seq(Ref)
  BY KeptIn, RefsIn
<1>5. ps \in Docs /\ Inserts(Refs(left), from, Refs(new), Refs(ps))
  BY <1>1, <1>3, <1>4, InsertPiecesIs
<1>6. Refs(ps) \in Seq(Y)
  <2> HIDE DEF ps, from
  <2> QED
    BY <1>1, <1>4, <1>5, InsertsWithin
<1>7. Len(Refs(ps)) \in Nat /\ from + Len(Refs(new)) <= Len(Refs(ps))
  <2> HIDE DEF ps, from
  <2>1. Len(Refs(ps)) = Len(Refs(left)) + Len(Refs(new)) /\ Len(Refs(new)) \in Nat
    BY <1>3, <1>4, <1>5, InsertsSize, LenProperties
  <2> QED
    BY <1>3, <2>1
<1>8. /\ es \o ins \in Seq(Edits) /\ Holds(es \o ins, Y) /\ Leads(d, es \o ins, Refs(ps))
      /\ Offs(Refs(new)) \subseteq LiveOf(es \o ins)
  <2>1. CASE new = <<>>
    <3>1. es \o ins = es /\ ps = left
      BY <1>1, <2>1 DEF InsertPieces
    <3>2. Offs(Refs(new)) = {}
      BY <2>1, RefsEmpty, OffsNone
    <3> QED
      BY <1>1, <3>1, <3>2
  <2>2. CASE new # <<>>
    <3>1. e \in Edits /\ e.op = "Insert" /\ e.at = from /\ e.pieces = new
      BY <1>3 DEF Insert, Edits
    <3>2. ins = <<e>>
      BY <2>2
    <3> HIDE DEF e, ins, ps, from
    <3>3. Moves(e, Refs(left), Refs(ps))
      BY <1>5, <3>1 DEF Moves
    <3>4. Refs(e.pieces) \in Seq(Y)
      BY <3>1
    <3>5. /\ es \o <<e>> \in Seq(Edits) /\ Holds(es \o <<e>>, Y) /\ Leads(d, es \o <<e>>, Refs(ps))
          /\ Offs(Refs(e.pieces)) \subseteq LiveOf(es \o <<e>>)
      BY <1>1, <3>1, <3>3, <3>4, BatchedMore
    <3> QED
      BY <3>1, <3>2, <3>5
  <2> QED
    BY <2>1, <2>2
<1> DEFINE all == es \o ins
<1> HIDE DEF ps, ins
<1>9. x.pieces = ps /\ x.edits = all /\ x = [pieces |-> ps, edits |-> all]
  BY <1>2
<1> HIDE DEF all
<1>10. all \in Seq(Edits) /\ Holds(all, Y) /\ Leads(d, all, Refs(ps)) /\ Offs(Refs(new)) \subseteq LiveOf(all)
  BY <1>8 DEF all
<1>11. Batched(x, d, Y)
  BY <1>5, <1>6, <1>9, <1>10 DEF Batched
<1>12. Len(Refs(x.pieces)) \in Nat /\ from + Len(Refs(new)) <= Len(Refs(x.pieces))
       /\ Offs(Refs(new)) \subseteq LiveOf(x.edits)
  BY <1>7, <1>9, <1>10
<1> QED
  BY <1>11, <1>12 DEF x, from
\* Ranges inside a document of the given size, from its end to its start.
Ordered(ranges, size) ==
  /\ ranges \in Seq(Nat \X Nat) /\ ranges # <<>> /\ ranges[1][2] <= size
  /\ \A k \in 1..Len(ranges) : ranges[k][1] <= ranges[k][2]
  /\ \A k \in 2..Len(ranges) : ranges[k][2] <= ranges[k - 1][1]

LEMMA BatchIs ==
  ASSUME NEW Y \in SUBSET Ref, NEW d, NEW base, Batched(base, d, Y), Len(Refs(base.pieces)) \in Nat,
         NEW ranges, Ordered(ranges, Len(Refs(base.pieces))), NEW new \in Seq(Kept), Refs(new) \in Seq(Y)
  PROVE  /\ Batched(ReplaceEach(base, ranges, new), d, Y)
         /\ Len(Refs(ReplaceEach(base, ranges, new).pieces)) \in Nat
         /\ Last(ranges)[1] + Len(Refs(new)) <= Len(Refs(ReplaceEach(base, ranges, new).pieces))
         /\ Offs(Refs(new)) \subseteq LiveOf(ReplaceEach(base, ranges, new).edits)
<1> DEFINE done == ReplaceEach(base, ranges, new)
           n == Len(ranges)
           s == ranges
           Step(f, k) == IF k = 0 THEN base ELSE ReplaceOne(f[k - 1], s[k], new)
           acc == CHOOSE f : f = [k \in 0..n |-> Step(f, k)]
           All == [pieces : Docs, edits : Seq(Edits)]
           Size(x) == Len(Refs(x.pieces))
           Room(x, k) == /\ Size(x) \in Nat /\ k > 0 => s[k][1] + Len(Refs(new)) <= Size(x)
                         /\ k < n => s[k + 1][2] <= Size(x)
                         /\ k > 0 => Offs(Refs(new)) \subseteq LiveOf(x.edits)
           G == [k \in 1..n |-> [x \in All |-> ReplaceOne(x, s[k], new)]]
           V == [k \in 0..n |-> {x \in All : Batched(x, d, Y) /\ Room(x, k)}]
<1>1. /\ n \in Nat \ {0} /\ 0 \in 0..n /\ n \in 0..n
      /\ \A k \in 1..n : k \in Nat /\ k \in 0..n /\ k # 0 /\ k - 1 \in 0..n /\ k > 0
  BY EmptySeq, LenProperties DEF Ordered
<1>2. \A k \in 1..n : s[k][1] \in Nat /\ s[k][2] \in Nat /\ s[k][1] <= s[k][2]
  <2> SUFFICES ASSUME NEW k \in 1..n
               PROVE  s[k][1] \in Nat /\ s[k][2] \in Nat /\ s[k][1] <= s[k][2]
    OBVIOUS
  <2>1. s[k] \in Nat \X Nat
    BY ElementOfSeq DEF Ordered
  <2> QED
    BY <2>1 DEF Ordered
<1>3. s[1][2] <= Size(base) /\ Size(base) \in Nat /\ \A k \in 2..n : s[k][2] <= s[k - 1][1]
  BY DEF Ordered
<1>4. \A x : Batched(x, d, Y) => x \in All
  BY DEF Batched
<1>5. Len(Refs(new)) \in Nat
  BY KeptIn, RefsIn, LenProperties
<1> HIDE DEF Size, n, s, All
<1>6. base \in V[0]
  <2>1. Room(base, 0)
    BY <1>1, <1>3
  <2> HIDE DEF Room
  <2> QED
    BY <1>1, <1>4, <2>1
<1>7. \A k \in 1..n : \A x \in V[k - 1] : G[k][x] = ReplaceOne(x, s[k], new) /\ G[k][x] \in V[k]
  <2> SUFFICES ASSUME NEW k \in 1..n, NEW x \in V[k - 1]
               PROVE  G[k][x] = ReplaceOne(x, s[k], new) /\ G[k][x] \in V[k]
    OBVIOUS
  <2> DEFINE y == ReplaceOne(x, s[k], new)
  <2>1. x \in All /\ Batched(x, d, Y) /\ Room(x, k - 1)
    BY <1>1
  <2>2. s[k][2] <= Size(x)
    <3>1. (k - 1) + 1 = k /\ k - 1 < n
      BY <1>1
    <3> QED
      BY <2>1, <3>1
  <2>3. Batched(y, d, Y) /\ Size(y) \in Nat /\ s[k][1] + Len(Refs(new)) <= Size(y)
        /\ Offs(Refs(new)) \subseteq LiveOf(y.edits)
    <3> HIDE DEF Room
    <3>1. s[k][2] <= Len(Refs(x.pieces))
      BY <2>2 DEF Size
    <3> QED
      BY <1>2, <2>1, <3>1, ReplaceOneIs DEF Size
  <2> HIDE DEF y
  <2>4. Room(y, k)
    <3>1. k < n => s[k + 1][2] <= Size(y)
      <4> SUFFICES ASSUME k < n
                   PROVE  s[k + 1][2] <= Size(y)
        OBVIOUS
      <4>1. k + 1 \in 2..n /\ (k + 1) - 1 = k /\ k + 1 \in 1..n
        BY <1>1
      <4>2. s[k + 1][2] <= s[k][1] /\ s[k + 1][2] \in Nat /\ s[k][1] \in Nat
        BY <1>2, <1>3, <4>1
      <4> QED
        BY <1>5, <2>3, <4>2
    <3> QED
      BY <2>3, <3>1
  <2> HIDE DEF Room
  <2>5. y \in All
    BY <1>4, <2>3
  <2> QED
    BY <1>1, <2>1, <2>3, <2>4, <2>5 DEF y
<1>8. PICK g : StepsAre(n, V, base, G, g)
  <2>1. StepsIn(n, V, base, G)
    BY <1>6, <1>7 DEF StepsIn
  <2> HIDE DEF G, V
  <2> QED
    BY <1>1, <2>1, StepsExist
<1>9. ASSUME NEW k \in 1..n
      PROVE  g[k] = ReplaceOne(g[k - 1], s[k], new)
  <2> HIDE DEF G, V
  <2> QED
    BY <1>1, <1>7, <1>8 DEF StepsAre
<1>10. Batched(g[n], d, Y) /\ Room(g[n], n)
  <2>1. g[n] \in V[n]
    BY <1>1, <1>8 DEF StepsAre
  <2> HIDE DEF Room
  <2> QED
    BY <1>1, <2>1
<1>11. done = acc[n]
  BY DEF ReplaceEach, Along, n, s
<1> HIDE DEF G, V, done
<1>12. ASSUME NEW k \in 0..n
       PROVE  g[k] = Step(g, k)
  <2>1. k = 0 \/ k \in 1..n
    BY <1>1
  <2> QED
    BY <1>8, <1>9, <2>1 DEF StepsAre
<1>13. g = [k \in 0..n |-> Step(g, k)]
  BY <1>8, <1>12 DEF StepsAre
<1>14. acc = [k \in 0..n |-> Step(acc, k)]
  BY <1>13, Zenon
<1> HIDE DEF acc
<1>15. InStep(acc, g, n)
  BY <1>1, <1>8, <1>9, <1>14 DEF InStep, StepsAre
<1>16. done = g[n]
  BY <1>1, <1>11, <1>15, Agree
<1>17. Last(ranges) = s[n]
  BY DEF Last, s, n
<1>18. n > 0
  BY <1>1
<1> QED
  BY <1>10, <1>16, <1>17, <1>18 DEF Size, done
\* The piece a replacement inserts.
LEMMA PastedIs ==
  ASSUME PInv, NEW text \in Texts, NEW new,
         new = IF text = <<>> THEN <<>> ELSE <<Piece("Add", Len(add), Len(text))>>
  PROVE  /\ new \in Seq(Kept) /\ Refs(new) \in Seq(Bounds(Cat(add, text))) /\ Len(Refs(new)) = Len(text)
         /\ Fresh(text) \subseteq Offs(Refs(new))
<1>1. CASE text = <<>>
  <2>1. new = NoPieces
    BY <1>1 DEF NoPieces
  <2>2. Refs(NoPieces) = <<>>
    BY RefsEmpty DEF NoPieces
  <2>3. NoPieces \in Seq(Kept)
    BY DEF NoPieces
  <2>4. Fresh(text) = {}
    BY <1>1, FreshNone DEF PInv
  <2> QED
    BY <1>1, <2>1, <2>2, <2>3, <2>4
<1>2. CASE text # <<>>
  <2> DEFINE p == Piece("Add", Len(add), Len(text))
  <2>1. add \in Texts
    BY DEF PInv
  <2>2. new = <<p>> /\ p.len = Len(text)
    BY <1>2 DEF Piece
  <2>3. p \in AnyPiece /\ p \in Solid /\ Cells(p) \in Seq(Bounds(Cat(add, text)))
    BY <1>2, <2>1, FreshIs
  <2>6. p = Piece("Add", Len(add), Len(text))
    OBVIOUS
  <2> HIDE DEF p
  <2>4. p \in Kept
    BY <2>3 DEF Solid, Kept
  <2>5. Refs(<<p>>) = Cells(p) /\ Len(Cells(p)) = p.len
    BY <2>3, RefsOne, CellsAt
  <2>7. Fresh(text) \subseteq Offs(Cells(p))
    BY <2>1, <2>3, <2>6, FreshCells
  <2> QED
    BY <2>2, <2>3, <2>4, <2>5, <2>7
<1> QED
  BY <1>1, <1>2

LEMMA ReplaceRangesStep ==
  ASSUME PInv, NEW text \in Texts, NEW ranges, Ordered(ranges, Len(Refs(pieces))), ReplaceRanges(ranges, text)
  PROVE  PInv' /\ History!Next
<1> DEFINE new  == IF text = <<>> THEN <<>> ELSE <<Piece("Add", Len(add), Len(text))>>
           none == <<>>
           base == [pieces |-> pieces, edits |-> none]
           done == ReplaceEach(base, ranges, new)
           es == done.edits
           ps == done.pieces
           to == Last(ranges)[1] + Len(text)
           Y == Bounds(Cat(add, text))
           d == Refs(pieces)
<1>1. cursor' = to /\ Record(es, to, ps, Cat(add, text), NoRun)
  BY DEF ReplaceRanges, Cat
<1>2. /\ new \in Seq(Kept) /\ Refs(new) \in Seq(Y) /\ Len(Refs(new)) = Len(text)
      /\ Fresh(text) \subseteq Offs(Refs(new))
  BY PastedIs
<1> HIDE DEF new, none
<1>3. add \in Texts /\ Good(pieces, add) /\ pieces \in Docs /\ d \in Seq(Bounds(add)) /\ Len(d) \in Nat
  BY GoodReads DEF PInv, Good
<1>4. Y \in SUBSET Ref /\ d \in Seq(Y)
  BY <1>3, BoundsIn, GrownReads
<1> HIDE DEF Y, d
<1>5. Batched(base, d, Y)
  <2>1. base = [pieces |-> base.pieces, edits |-> base.edits] /\ base.pieces = pieces /\ base.edits = none
    OBVIOUS
  <2> HIDE DEF base
  <2>2. none \in Seq(Edits) /\ Holds(none, Y) /\ Len(none) = 0
    BY DEF none, Holds
  <2>3. Leads(d, none, d)
    <3> DEFINE h == [k \in 0..0 |-> d]
    <3>1. h[0] = d /\ h[Len(none)] = d /\ \A k \in 1..Len(none) : Moves(none[k], h[k - 1], h[k])
      BY <2>2
    <3> HIDE DEF h
    <3> QED
      BY <3>1 DEF Leads
  <2> QED
    BY <1>3, <1>4, <2>1, <2>2, <2>3 DEF Batched, d
<1>6. Refs(base.pieces) = d
  BY DEF d
<1>7. Ordered(ranges, Len(Refs(base.pieces))) /\ Len(Refs(base.pieces)) \in Nat
  BY <1>3, <1>6 DEF d
<1> HIDE DEF base
<1>8. /\ Batched(done, d, Y) /\ Len(Refs(ps)) \in Nat /\ Last(ranges)[1] + Len(Refs(new)) <= Len(Refs(ps))
      /\ Offs(Refs(new)) \subseteq LiveOf(es)
  BY <1>2, <1>4, <1>5, <1>7, BatchIs
<1> HIDE DEF done
<1>9. /\ es \in Seq(Edits) /\ Good(ps, Cat(add, text)) /\ Holds(es, Bounds(Cat(add, text)))
      /\ Leads(Refs(pieces), es, Refs(ps)) /\ Fresh(text) \subseteq LiveOf(es)
  BY <1>2, <1>8 DEF Batched, Good, Y, d
<1>10. to \in 0..Len(Refs(ps))
  <2>1. Last(ranges)[1] \in Nat
    <3>1. Last(ranges) \in Nat \X Nat
      BY FrontAt DEF Ordered
    <3> QED
      BY <3>1
  <2>2. Len(text) \in Nat
    BY LenProperties DEF Texts
  <2> QED
    BY <1>2, <1>8, <2>1, <2>2
<1>11. NoRun \in Runs \cup {NoRun}
  OBVIOUS
<1> HIDE DEF to, es, ps
<1>12. PInv' /\ History!Push(NoRun)
  BY <1>1, <1>9, <1>10, <1>11, RecordIs
<1> QED
  BY <1>11, <1>12, PushNext

LEMMA BatchesOrdered ==
  ASSUME PInv, NEW text, NEW ranges \in Batches(text)
  PROVE  Ordered(ranges, Len(Refs(pieces)))
<1> DEFINE n == Len(Doc)
           R == {r \in (0..n) \X (0..n) : r[1] < r[2] \/ (r[1] = r[2] /\ text # <<>>)}
           Narrow == {r \in R : r[2] - r[1] \in Widths}
           In(s) == \A k \in 2..Len(s) : s[k][2] <= s[k - 1][1] /\ s[k][1] # s[k - 1][1]
<1>1. n \in Nat /\ n = Len(Refs(pieces))
  BY GoodReads DEF PInv, Doc
<1>2. (\E r \in R : ranges = <<r>>) \/ (\E m \in 2..MaxRanges : ranges \in [1..m -> Narrow] /\ In(ranges))
  BY DEF Batches
<1>3. \A r \in R : r \in Nat \X Nat /\ r[1] <= r[2] /\ r[2] <= n
  BY <1>1
<1>4. Narrow \subseteq R
  OBVIOUS
<1> HIDE DEF n, R, Narrow
<1>5. ASSUME NEW r \in R, ranges = <<r>>
      PROVE  Ordered(ranges, n)
  <2>1. Len(ranges) = 1 /\ ranges[1] = r /\ ranges # <<>>
    BY <1>5
  <2>2. ranges \in Seq(Nat \X Nat)
    BY <1>3, <1>5
  <2> QED
    BY <1>3, <2>1, <2>2 DEF Ordered
<1>6. ASSUME NEW m \in 2..MaxRanges, ranges \in [1..m -> Narrow], In(ranges)
      PROVE  Ordered(ranges, n)
  <2>1. m \in Nat /\ 1 \in 1..m
    OBVIOUS
  <2>2. \A k \in 1..m : ranges[k] \in R
    BY <1>4, <1>6
  <2>3. ranges \in [1..m -> Nat \X Nat]
    BY <1>3, <1>6, <2>2
  <2>4. ranges \in Seq(Nat \X Nat) /\ Len(ranges) = m
    BY <2>1, <2>3
  <2>5. ranges # <<>>
    BY <2>1, <2>4
  <2> QED
    BY <1>3, <1>6, <2>1, <2>2, <2>4, <2>5 DEF Ordered
<1>7. Ordered(ranges, n)
  BY <1>2, <1>5, <1>6
<1> QED
  BY <1>1, <1>7

-----------------------------------------------------------------------------
(* Undo and redo. *)

\* The newest transaction of us moves on top of rs.
\* The newest transaction t of us goes over to rs.
IsMoved(us, rs, t, rest, more) == us # <<>> /\ rest = Front(us) /\ t = Last(us) /\ more = Append(rs, t)

LEMMA MovedOver ==
  ASSUME NEW us \in Seq(Paid), NEW rs \in Seq(Paid), NEW rest, NEW t, NEW more,
         IsMoved(us, rs, t, rest, more)
  PROVE  /\ t \in Paid /\ rest \in Seq(Paid) /\ more \in Seq(Paid)
         /\ SumBytes(rest) + SumBytes(more) = SumBytes(us) + SumBytes(rs)
         /\ Len(rest) + Len(more) = Len(us) + Len(rs)
         /\ LiveIn(us) = LiveIn(rest) \cup LiveOf(t.edits) /\ LiveIn(more) = LiveIn(rs) \cup LiveOf(t.edits)
         /\ \A limit : Known(us, limit) => Known(rest, limit) /\ t.id < limit
         /\ \A limit : Known(us, limit) /\ Known(rs, limit) => Known(more, limit)
<1>1. rest \in Seq(Paid) /\ t \in Paid /\ us = Append(rest, t) /\ more = Append(rs, t)
  BY FrontAppend DEF IsMoved
<1>2. /\ SumBytes(us) = SumBytes(rest) + t.bytes /\ LiveIn(us) = LiveIn(rest) \cup LiveOf(t.edits)
      /\ SumBytes(rest) \in Nat /\ t.bytes \in Nat
  BY <1>1, PaidAppend
<1>3. /\ more \in Seq(Paid) /\ SumBytes(more) = SumBytes(rs) + t.bytes
      /\ LiveIn(more) = LiveIn(rs) \cup LiveOf(t.edits) /\ SumBytes(rs) \in Nat
      /\ \A limit : Known(rs, limit) /\ t.id < limit => Known(more, limit)
  BY <1>1, PaidAppend
<1>4. /\ Len(us) = Len(rest) + 1 /\ Len(rest) \in Nat /\ \A i \in 1..Len(rest) : us[i] = rest[i]
      /\ us[Len(rest) + 1] = t
  <2>1. /\ Len(Append(rest, t)) = Len(rest) + 1 /\ Append(rest, t)[Len(rest) + 1] = t
        /\ \A i \in 1..Len(rest) : Append(rest, t)[i] = rest[i]
    BY <1>1, AppendAt
  <2> QED
    BY <1>1, <2>1, LenProperties
<1>5. Len(more) = Len(rs) + 1 /\ Len(rs) \in Nat
  <2>1. Len(Append(rs, t)) = Len(rs) + 1
    BY <1>1, AppendAt
  <2> QED
    BY <1>1, <2>1, LenProperties
<1>6. SumBytes(rest) + SumBytes(more) = SumBytes(us) + SumBytes(rs)
  <2> DEFINE w == SumBytes(rest)
             x == SumBytes(rs)
             y == t.bytes
  <2>1. w \in Nat /\ x \in Nat /\ y \in Nat /\ SumBytes(us) = w + y /\ SumBytes(more) = x + y
    BY <1>2, <1>3
  <2> HIDE DEF w, x, y
  <2>2. w + (x + y) = (w + y) + x
    BY <2>1
  <2> QED
    BY <2>1, <2>2 DEF w, x
<1>7. Len(rest) + Len(more) = Len(us) + Len(rs)
  BY <1>4, <1>5
<1>8. ASSUME NEW limit, Known(us, limit)
      PROVE  Known(rest, limit) /\ t.id < limit
  <2>1. Len(rest) + 1 \in 1..Len(us) /\ \A i \in 1..Len(rest) : i \in 1..Len(us)
    BY <1>4
  <2> QED
    BY <1>4, <1>8, <2>1 DEF Known
<1> QED
  BY <1>1, <1>2, <1>3, <1>6, <1>7, <1>8

LEMMA UndoStep ==
  ASSUME PInv, Undo
  PROVE  PInv' /\ History!Next
<1> DEFINE t == Last(undo)
           es == t.edits
           ps == RevertEdits(pieces, es)
           rest == Front(undo)
           more == Append(redo, t)
           f == Refs(pieces)
<1>1. /\ undo # <<>> /\ pieces' = ps /\ cursor' = t.before /\ undo' = rest /\ redo' = more
      /\ currentId' = (IF undo' = <<>> THEN baseId ELSE Last(undo').id) /\ activeRun' = NoRun
      /\ UNCHANGED <<add, baseId, nextId, retained, discarded>> /\ RefreshDirty
  BY DEF Undo
<1>2. /\ add \in Texts /\ Good(pieces, add) /\ pieces \in Docs /\ undo \in Seq(Tx) /\ redo \in Seq(Tx)
      /\ Chain("undo", undo, f, add) /\ Chain("redo", redo, f, add)
  BY DEF PInv, Good
<1>3. t \in Tx /\ rest \in Seq(Tx)
  BY <1>1, <1>2, AbstractTop
<1>4. es \in Seq(Edits)
  BY <1>3 DEF Tx
<1>5. PICK d : Joins("undo", t, d, f, add) /\ Chain("undo", rest, d, add)
  BY <1>1, <1>2, ChainPop
<1>19. /\ rest \in Seq(Paid) /\ more \in Seq(Paid)
       /\ SumBytes(rest) + SumBytes(more) = SumBytes(undo) + SumBytes(redo)
       /\ Len(rest) + Len(more) = Len(undo) + Len(redo)
       /\ LiveIn(undo) = LiveIn(rest) \cup LiveOf(t.edits) /\ LiveIn(more) = LiveIn(redo) \cup LiveOf(t.edits)
       /\ Known(rest, nextId) /\ Known(more, nextId)
  <2>1. undo \in Seq(Paid) /\ redo \in Seq(Paid) /\ Known(undo, nextId) /\ Known(redo, nextId)
    BY DEF PInv, Accounts, Numbered
  <2> HIDE DEF t, rest, more
  <2>2. IsMoved(undo, redo, t, rest, more)
    BY <1>1 DEF IsMoved, rest, t, more
  <2> QED
    BY <2>1, <2>2, MovedOver
<1> HIDE DEF t, rest, more, f
<1>6. /\ d \in Seq(Bounds(add)) /\ Leads(d, es, f) /\ Read(d, add) = t.docBefore
      /\ t.before \in 0..Len(d) /\ Links(t, d, f, add)
  BY <1>5 DEF Joins, Links
<1>7. ps \in Docs /\ Refs(ps) = d
  <2> HIDE DEF es
  <2> QED
    BY <1>2, <1>4, <1>6, RevertEditsIs DEF f
<1> HIDE DEF ps, es
<1>8. Good(ps, add) /\ Text(ps, add) = t.docBefore
  BY <1>2, <1>6, <1>7, GoodReads DEF Good
<1>9. more \in Seq(Tx) /\ Chain("redo", more, d, add)
  <2>1. Joins("redo", t, f, d, add)
    BY <1>6 DEF Joins
  <2> QED
    BY <1>2, <1>3, <2>1, AppendAt, ChainPush DEF more
<1>10. nextId \in Nat /\ retained \in Int
  BY DEF PInv
<1>20. Accounts'
  <2>1. Offs(d) \cup LiveOf(t.edits) = Offs(f) \cup LiveOf(t.edits)
    <3> DEFINE x == t.edits
    <3>1. x \in Seq(Edits) /\ Leads(d, x, f)
      BY <1>4, <1>6 DEF es
    <3> HIDE DEF x
    <3>2. Offs(d) \cup LiveOf(x) = Offs(f) \cup LiveOf(x)
      BY <3>1, OffsLed
    <3> QED
      BY <3>2 DEF x
  <2>2. Live(ps, rest, more) = Live(pieces, undo, redo)
    BY <1>7, <1>19, <2>1 DEF Live, f
  <2>3. Accounts
    BY DEF PInv
  <2> QED
    BY <1>1, <1>19, <2>2, <2>3 DEF Accounts
<1>21. Numbered'
  <2>1. unavailable' \in BOOLEAN /\ dirty' \in BOOLEAN /\ savedId' = savedId
    BY <1>1, DirtyTypes
  <2>2. currentId' \in 0..nextId - 1
    <3>1. CASE rest = <<>>
      BY <1>1, <3>1 DEF PInv, Numbered
    <3>2. CASE rest # <<>>
      <4>1. Last(rest).id < nextId /\ Last(rest) \in Tx
        <5>1. Last(rest) = rest[Len(rest)] /\ Len(rest) \in Nat \ {0} /\ Last(rest) \in Tx
          BY <1>3, <3>2, FrontAt
        <5> QED
          BY <1>19, <5>1 DEF Known
      <4>2. Last(rest).id \in Nat
        BY <4>1 DEF Tx
      <4> QED
        BY <1>1, <1>10, <3>2, <4>1, <4>2
    <3> QED
      BY <3>1, <3>2
  <2>3. nextId' \in 1..MaxPosition /\ {baseId', currentId', savedId'} \subseteq 0..nextId' - 1
    BY <1>1, <2>1, <2>2 DEF PInv, Numbered
  <2>4. Known(undo', nextId') /\ Known(redo', nextId')
    BY <1>1, <1>19
  <2> QED
    BY <2>1, <2>3, <2>4 DEF Numbered
<1>11. PInv'
  <2>1. add' \in Texts /\ Good(pieces', add') /\ cursor' \in 0..Len(Refs(pieces'))
    BY <1>1, <1>2, <1>6, <1>7, <1>8
  <2>2. undo' \in Seq(Tx) /\ redo' \in Seq(Tx)
    BY <1>1, <1>3, <1>9
  <2>3. Chain("undo", undo', Refs(pieces'), add') /\ Chain("redo", redo', Refs(pieces'), add')
    BY <1>1, <1>5, <1>7, <1>9
  <2>4. nextId' \in Nat /\ retained' \in Int /\ activeRun' = NoRun
    BY <1>1, <1>10
  <2> QED
    BY <1>20, <1>21, <2>1, <2>2, <2>3, <2>4 DEF PInv
<1>12. /\ Abstract(undo) # <<>> /\ History!Newest(Abstract(undo)) = AbstractOf(t)
       /\ History!AllButNewest(Abstract(undo)) = Abstract(rest)
  BY <1>1, <1>2, AbstractTop DEF t, rest
<1>13. Abstract(more) = Append(Abstract(redo), AbstractOf(t))
  BY <1>2, <1>3, AbstractAppend DEF more
<1>14. Doc' = t.docBefore
  BY <1>1, <1>8 DEF Doc
<1>15. currentId' = IF Abstract(undo') = <<>> THEN baseId ELSE History!Newest(Abstract(undo')).id
  <2>1. CASE rest = <<>>
    <3>1. Abstract(rest) = <<>>
      BY <2>1, AbstractNone
    <3> QED
      BY <1>1, <2>1, <3>1
  <2>2. CASE rest # <<>>
    <3>1. Abstract(rest) # <<>> /\ History!Newest(Abstract(rest)) = AbstractOf(Last(rest))
      BY <1>3, <2>2, AbstractTop
    <3>2. \A x : AbstractOf(x).id = x.id
      BY DEF AbstractOf
    <3> QED
      BY <1>1, <2>2, <3>1, <3>2
  <2> QED
    BY <2>1, <2>2
<1>16. History!RefreshDirty
  BY <1>1, <1>3, <1>9, DirtyRefreshed
<1>17. AbstractOf(t).before = t.docBefore
  BY DEF AbstractOf
<1>18. History!Undo
  <2>1. Abstract(undo') = History!AllButNewest(Abstract(undo))
    BY <1>1, <1>12
  <2>2. Abstract(redo') = Append(Abstract(redo), History!Newest(Abstract(undo)))
    BY <1>1, <1>12, <1>13
  <2>3. Doc' = History!Newest(Abstract(undo)).before
    BY <1>12, <1>14, <1>17
  <2>4. activeRun' = History!NoRun
    BY <1>1 DEF NoRun, History!NoRun
  <2> QED
    BY <1>1, <1>12, <1>15, <1>16, <2>1, <2>2, <2>3, <2>4 DEF History!Undo
<1> QED
  BY <1>11, <1>18 DEF History!Next

LEMMA RedoStep ==
  ASSUME PInv, Redo
  PROVE  PInv' /\ History!Next
<1> DEFINE t == Last(redo)
           es == t.edits
           ps == ApplyEdits(pieces, es)
           rest == Front(redo)
           more == Append(undo, t)
           d == Refs(pieces)
<1>1. /\ redo # <<>> /\ pieces' = ps /\ cursor' = t.after /\ undo' = more /\ redo' = rest
      /\ currentId' = t.id /\ activeRun' = NoRun
      /\ UNCHANGED <<add, baseId, nextId, retained, discarded>> /\ RefreshDirty
  BY DEF Redo
<1>2. /\ add \in Texts /\ Good(pieces, add) /\ pieces \in Docs /\ undo \in Seq(Tx) /\ redo \in Seq(Tx)
      /\ Chain("undo", undo, d, add) /\ Chain("redo", redo, d, add)
  BY DEF PInv, Good
<1>3. t \in Tx /\ rest \in Seq(Tx)
  BY <1>1, <1>2, AbstractTop
<1>4. es \in Seq(Edits)
  BY <1>3 DEF Tx
<1>5. PICK f : Joins("redo", t, f, d, add) /\ Chain("redo", rest, f, add)
  BY <1>1, <1>2, ChainPop
<1>19. /\ rest \in Seq(Paid) /\ more \in Seq(Paid)
       /\ SumBytes(rest) + SumBytes(more) = SumBytes(redo) + SumBytes(undo)
       /\ Len(rest) + Len(more) = Len(redo) + Len(undo)
       /\ LiveIn(redo) = LiveIn(rest) \cup LiveOf(t.edits) /\ LiveIn(more) = LiveIn(undo) \cup LiveOf(t.edits)
       /\ Known(rest, nextId) /\ Known(more, nextId) /\ t.id < nextId
  <2>1. undo \in Seq(Paid) /\ redo \in Seq(Paid) /\ Known(undo, nextId) /\ Known(redo, nextId)
    BY DEF PInv, Accounts, Numbered
  <2> HIDE DEF t, rest, more
  <2>2. IsMoved(redo, undo, t, rest, more)
    BY <1>1 DEF IsMoved, rest, t, more
  <2> QED
    BY <2>1, <2>2, MovedOver
<1> HIDE DEF t, rest, more, d
<1>6. /\ f \in Seq(Bounds(add)) /\ Leads(d, es, f) /\ Read(f, add) = t.docAfter
      /\ t.after \in 0..Len(f) /\ Links(t, d, f, add)
  BY <1>5 DEF Joins, Links
<1>7. ps \in Docs /\ Refs(ps) = f
  <2> HIDE DEF es
  <2> QED
    BY <1>2, <1>4, <1>6, ApplyEditsIs DEF d
<1> HIDE DEF ps, es
<1>8. Good(ps, add) /\ Text(ps, add) = t.docAfter
  BY <1>2, <1>6, <1>7, GoodReads DEF Good
<1>9. more \in Seq(Tx) /\ Chain("undo", more, f, add)
  <2>1. Joins("undo", t, d, f, add)
    BY <1>6 DEF Joins
  <2> QED
    BY <1>2, <1>3, <2>1, AppendAt, ChainPush DEF more
<1>10. nextId \in Nat /\ retained \in Int
  BY DEF PInv
<1>20. Accounts'
  <2>1. Offs(d) \cup LiveOf(t.edits) = Offs(f) \cup LiveOf(t.edits)
    <3> DEFINE x == t.edits
    <3>1. x \in Seq(Edits) /\ Leads(d, x, f)
      BY <1>4, <1>6 DEF es
    <3> HIDE DEF x
    <3>2. Offs(d) \cup LiveOf(x) = Offs(f) \cup LiveOf(x)
      BY <3>1, OffsLed
    <3> QED
      BY <3>2 DEF x
  <2>2. Live(ps, more, rest) = Live(pieces, undo, redo)
    BY <1>7, <1>19, <2>1 DEF Live, d
  <2>3. Accounts
    BY DEF PInv
  <2>4. SumBytes(rest) \in Nat /\ SumBytes(more) \in Nat /\ SumBytes(undo) \in Nat /\ SumBytes(redo) \in Nat
        /\ Len(rest) \in Nat /\ Len(more) \in Nat /\ Len(undo) \in Nat /\ Len(redo) \in Nat
    BY <1>2, <1>3, <1>9, SumsIn, LenProperties
  <2>5. SumBytes(more) + SumBytes(rest) = SumBytes(undo) + SumBytes(redo)
        /\ Len(more) + Len(rest) = Len(undo) + Len(redo)
    BY <1>19, <2>4
  <2> QED
    BY <1>1, <1>19, <2>2, <2>3, <2>5 DEF Accounts
<1>21. Numbered'
  <2>1. unavailable' \in BOOLEAN /\ dirty' \in BOOLEAN /\ savedId' = savedId
    BY <1>1, DirtyTypes
  <2>2. currentId' \in 0..nextId - 1
    <3>1. t.id \in Nat
      BY <1>3 DEF Tx
    <3> QED
      BY <1>1, <1>10, <1>19, <3>1
  <2>3. nextId' \in 1..MaxPosition /\ {baseId', currentId', savedId'} \subseteq 0..nextId' - 1
    BY <1>1, <2>1, <2>2 DEF PInv, Numbered
  <2>4. Known(undo', nextId') /\ Known(redo', nextId')
    BY <1>1, <1>19
  <2> QED
    BY <2>1, <2>3, <2>4 DEF Numbered
<1>11. PInv'
  <2>1. add' \in Texts /\ Good(pieces', add') /\ cursor' \in 0..Len(Refs(pieces'))
    BY <1>1, <1>2, <1>6, <1>7, <1>8
  <2>2. undo' \in Seq(Tx) /\ redo' \in Seq(Tx)
    BY <1>1, <1>3, <1>9
  <2>3. Chain("undo", undo', Refs(pieces'), add') /\ Chain("redo", redo', Refs(pieces'), add')
    BY <1>1, <1>5, <1>7, <1>9
  <2>4. nextId' \in Nat /\ retained' \in Int /\ activeRun' = NoRun
    BY <1>1, <1>10
  <2> QED
    BY <1>20, <1>21, <2>1, <2>2, <2>3, <2>4 DEF PInv
<1>12. /\ Abstract(redo) # <<>> /\ History!Newest(Abstract(redo)) = AbstractOf(t)
       /\ History!AllButNewest(Abstract(redo)) = Abstract(rest)
  BY <1>1, <1>2, AbstractTop DEF t, rest
<1>13. Abstract(more) = Append(Abstract(undo), AbstractOf(t))
  BY <1>2, <1>3, AbstractAppend DEF more
<1>14. Doc' = t.docAfter
  BY <1>1, <1>8 DEF Doc
<1>15. History!RefreshDirty
  BY <1>1, <1>3, <1>9, DirtyRefreshed
<1>16. AbstractOf(t).after = t.docAfter
  BY DEF AbstractOf
<1>17. AbstractOf(t).id = t.id
  BY DEF AbstractOf
<1>18. History!Redo
  <2>1. Abstract(redo') = History!AllButNewest(Abstract(redo))
    BY <1>1, <1>12
  <2>2. Abstract(undo') = Append(Abstract(undo), History!Newest(Abstract(redo)))
    BY <1>1, <1>12, <1>13
  <2>3. Doc' = History!Newest(Abstract(redo)).after
    BY <1>12, <1>14, <1>16
  <2>4. activeRun' = History!NoRun
    BY <1>1 DEF NoRun, History!NoRun
  <2>5. currentId' = History!Newest(Abstract(redo)).id
    BY <1>1, <1>12, <1>17
  <2> QED
    BY <1>1, <1>12, <1>15, <2>1, <2>2, <2>3, <2>4, <2>5 DEF History!Redo
<1> QED
  BY <1>11, <1>18 DEF History!Next

-----------------------------------------------------------------------------
(* The whole system. *)

LEMMA InitHolds ==
  ASSUME Init
  PROVE  PInv /\ History!Init
<1>1. /\ add = <<>> /\ pieces = OpenPieces /\ cursor = 0 /\ undo = <<>> /\ redo = <<>>
      /\ baseId = 0 /\ nextId = 1 /\ currentId = 0 /\ activeRun = NoRun /\ retained = 0
      /\ savedId = 0 /\ unavailable = FALSE /\ dirty = FALSE /\ savedDoc = Original
  BY DEF Init
<1> DEFINE p == Piece("Original", 0, Len(Original))
           none == <<>>
<1>2. Original \in Texts /\ Len(Original) \in Nat /\ none \in Texts /\ none \in Seq(Tx) /\ none \in Seq(AnyPiece)
  BY PieceTableAssumption, LenProperties DEF Texts, Chars
<1>3. p \in AnyPiece /\ p.len = Len(Original) /\ p.start = 0 /\ p.src = "Original" /\ p \in Kept
  BY <1>2 DEF Piece, AnyPiece, Sources, Kept
<1> HIDE DEF p
<1>4. Refs(<<p>>) = Cells(p) /\ Cells(p) \in Seq(Ref) /\ Len(Cells(p)) = Len(Original)
      /\ \A k \in 1..Len(Original) : Cells(p)[k] = <<"Original", 0 + (k - 1)>>
  BY <1>3, RefsOne, CellsAt
<1>5. OpenPieces = <<p>>
  BY DEF OpenPieces, p
<1>6. Cells(p) \in Seq(Bounds(none)) /\ Read(Cells(p), none) = Original
  <2>1. Source("Original", none) = Original
    BY DEF Source
  <2>2. \A k \in 1..Len(Original) : Cells(p)[k] \in Bounds(none) /\ Scalar(Cells(p)[k], none) = Original[k]
    <3> SUFFICES ASSUME NEW k \in 1..Len(Original)
                 PROVE  Cells(p)[k] \in Bounds(none) /\ Scalar(Cells(p)[k], none) = Original[k]
      OBVIOUS
    <3>1. Cells(p)[k] \in Ref
      BY <1>4, ElementOfSeq
    <3>2. Cells(p)[k][1] = "Original" /\ Cells(p)[k][2] = k - 1 /\ (k - 1) + 1 = k /\ k - 1 < Len(Original)
      BY <1>2, <1>4
    <3> QED
      BY <2>1, <3>1, <3>2 DEF Bounds, Scalar
  <2>3. Cells(p) \in Seq(Bounds(none))
    BY <1>4, <2>2, AllIn
  <2>4. Read(Cells(p), none) = [k \in 1..Len(Original) |-> Original[k]]
    BY <1>4, <2>2 DEF Read
  <2>5. Original = [k \in 1..Len(Original) |-> Original[k]]
    BY <1>2, LenProperties DEF Texts
  <2> QED
    BY <2>3, <2>4, <2>5
<1>7. Good(pieces, add) /\ Doc = Original /\ Len(Refs(pieces)) \in Nat
  <2>1. pieces = <<p>> /\ add = none
    BY <1>1, <1>5
  <2>2. <<p>> \in Docs
    BY <1>3 DEF Docs
  <2> HIDE DEF none
  <2>3. Good(<<p>>, none)
    BY <1>4, <1>6, <2>2 DEF Good
  <2>4. Text(<<p>>, none) = Original /\ Len(Refs(<<p>>)) \in Nat
    BY <1>2, <1>4, <1>6, <2>3, GoodReads
  <2> QED
    BY <2>1, <2>3, <2>4 DEF Doc
<1>8. Chain("undo", none, Refs(pieces), add) /\ Chain("redo", none, Refs(pieces), add)
  BY ChainNone
<1>12. Accounts
  <2>1. add = <<>> /\ undo = none /\ redo = none /\ retained = 0 /\ discarded = 0
    BY <1>1 DEF Init
  <2>2. Len(undo) = 0 /\ Len(redo) = 0 /\ Len(add) = 0
    BY <2>1
  <2> DEFINE c == Cardinality(Live(pieces, undo, redo))
  <2>3. c \in Nat
    <3>1. pieces \in Seq(AnyPiece) /\ undo \in Seq(Paid) /\ redo \in Seq(Paid)
      BY <1>1, <1>7, NothingLive, KeptIn DEF Good
    <3> QED
      BY <3>1, LiveCounts
  <2> HIDE DEF c, none
  <2>4. Waste(Len(add), c, discarded)
    BY <2>1, <2>2, <2>3 DEF Waste
  <2>5. undo \in Seq(Paid) /\ redo \in Seq(Paid) /\ SumBytes(undo) = 0 /\ SumBytes(redo) = 0
    BY <1>1, NothingLive
  <2> QED
    BY <2>1, <2>2, <2>4, <2>5 DEF Accounts, c
<1>13. Numbered
  <2>1. nextId \in 1..MaxPosition /\ {baseId, currentId, savedId} \subseteq 0..nextId - 1
    BY <1>1, PieceTableAssumption
  <2>2. Len(undo) = 0 /\ Len(redo) = 0
    BY <1>1
  <2>3. Known(undo, nextId) /\ Known(redo, nextId)
    BY <2>2 DEF Known
  <2> QED
    BY <1>1, <2>1, <2>3 DEF Numbered
<1>9. PInv
  BY <1>1, <1>2, <1>7, <1>8, <1>12, <1>13 DEF PInv
<1>10. Abstract(none) = none
  BY AbstractNone
<1>11. History!Init
  BY <1>1, <1>2, <1>7, <1>10 DEF History!Init, History!NoRun, NoRun, Texts
<1> QED
  BY <1>9, <1>11

LEMMA StepHolds ==
  ASSUME PInv, [Next]_vars
  PROVE  PInv' /\ (History!Next \/ UNCHANGED History!vars)
<1>1. CASE \E ch \in Typed \ {Newline} : InsertChar(ch)
  BY <1>1, InsertCharStep
<1>2. CASE InsertNewline
  BY <1>2, InsertNewlineStep
<1>3. CASE DeleteBack
  BY <1>3, DeleteBackStep
<1>4. CASE DeleteForward
  BY <1>4, DeleteForwardStep
<1>5. CASE \E to \in 0..Len(Doc) : Move(to)
  BY <1>5, MoveStep
<1>6. CASE \E text \in Pastes : \E ranges \in Batches(text) : ReplaceRanges(ranges, text)
  <2>1. PICK text \in Pastes : \E ranges \in Batches(text) : ReplaceRanges(ranges, text)
    BY <1>6
  <2>2. PICK ranges \in Batches(text) : ReplaceRanges(ranges, text)
    BY <2>1
  <2>3. text \in Texts
    <3>1. text \in Seq(Scalars \cup {Newline})
      BY PieceTableAssumption
    <3> QED
      BY <3>1 DEF Texts, Chars
  <2>4. Ordered(ranges, Len(Refs(pieces)))
    BY BatchesOrdered
  <2> QED
    BY <2>2, <2>3, <2>4, ReplaceRangesStep
<1>7. CASE Undo
  BY <1>7, UndoStep
<1>8. CASE Redo
  BY <1>8, RedoStep
<1>9. CASE Save
  BY <1>9, SaveStep
<1>10. CASE UNCHANGED vars
  <2>1. UNCHANGED <<add, pieces, cursor, undo, redo, baseId, nextId, currentId, activeRun, retained,
                    savedId, unavailable, dirty, savedDoc>>
    BY <1>10 DEF vars, storage, history, file
  <2>4. discarded' = discarded
    BY <1>10 DEF vars, history
  <2>5. Accounts'
    BY <2>1, <2>4 DEF PInv, Accounts
  <2>6. Numbered'
    BY <2>1 DEF PInv, Numbered
  <2>2. UNCHANGED <<Doc, Abstract(undo), Abstract(redo)>>
    BY <2>1 DEF Doc
  <2>3. PInv'
    BY <2>1, <2>5, <2>6 DEF PInv
  <2> QED
    BY <2>1, <2>2, <2>3 DEF History!vars, History!history, History!file
<1> QED
  BY <1>1, <1>2, <1>3, <1>4, <1>5, <1>6, <1>7, <1>8, <1>9, <1>10, Zenon DEF Next

\* The piece table's edits, undo and redo are those of the abstract history.
THEOREM PieceTableImplementsHistory == Spec => ImplementsHistory
<1>1. Init => PInv /\ History!Init
  BY InitHolds
<1>2. PInv /\ [Next]_vars => PInv' /\ [History!Next]_(History!vars)
  BY StepHolds
<1> QED
  BY <1>1, <1>2, PTL DEF Spec, ImplementsHistory, History!Spec
-----------------------------------------------------------------------------
(* What the invariant says of the history. *)

LEMMA FitsInSource ==
  ASSUME NEW p \in Fits(add)
  PROVE  InSource(p)
<1>1. p.src \in Sources /\ p.start + p.len <= Len(Source(p.src, add))
  BY DEF Fits, AnyPiece
<1>2. Source(p.src, add) = IF p.src = "Add" THEN add ELSE Original
  BY DEF Source
<1> QED
  BY <1>1, <1>2 DEF InSource, Sources

LEMMA PInvTypes ==
  ASSUME PInv
  PROVE  TypeOK
<1>1. add \in Texts /\ Good(pieces, add) /\ undo \in Seq(Tx) /\ redo \in Seq(Tx) /\ Accounts /\ Numbered
      /\ cursor \in 0..Len(Refs(pieces))
  BY DEF PInv
<1>2. cursor \in 0..Len(Doc)
  BY <1>1, GoodReads DEF Doc
<1>3. retained \in Nat /\ discarded \in Nat
  <2>1. SumBytes(undo) \in Nat /\ SumBytes(redo) \in Nat
    BY <1>1, SumsIn
  <2> QED
    BY <1>1, <2>1 DEF Accounts
<1>4. activeRun \in Runs \cup {NoRun}
  BY DEF PInv
<1>5. PiecesOf(undo) \subseteq Fits(add) /\ PiecesOf(redo) \subseteq Fits(add)
  BY <1>1, ChainHolds DEF PInv
<1>6. pieces \in Seq(Fits(add))
  BY <1>1, FitsAre DEF Good, Docs
<1>7. ToSet(pieces) \subseteq Fits(add)
  BY <1>6, ElementOfSeq, LenProperties DEF ToSet
<1>8. \A p \in ToSet(pieces) \cup PiecesOf(undo) \cup PiecesOf(redo) : InSource(p)
  BY <1>5, <1>7, FitsInSource
<1> QED
  BY <1>1, <1>2, <1>3, <1>4, <1>8 DEF TypeOK, Numbered, Texts

LEMMA PInvAccounts ==
  ASSUME PInv
  PROVE  AccountingExact /\ GarbageBounded
<1>1. /\ undo \in Seq(Paid) /\ redo \in Seq(Paid) /\ retained = SumBytes(undo) + SumBytes(redo)
      /\ Len(undo) + Len(redo) > 1 => Len(undo) + Len(redo) <= MaxTransactions /\ retained <= MaxBytes
      /\ Waste(Len(add), Cardinality(Live(pieces, undo, redo)), discarded)
  BY DEF PInv, Accounts
<1>2. ToSet(undo) \subseteq Paid /\ ToSet(redo) \subseteq Paid
  BY <1>1, ElementOfSeq, LenProperties DEF ToSet
<1>3. AccountingExact
  BY <1>1, <1>2 DEF AccountingExact, Paid
<1>4. AddOffsets(ToSet(pieces) \cup PiecesOf(undo) \cup PiecesOf(redo)) = Live(pieces, undo, redo)
  <2>1. pieces \in Seq(AnyPiece) /\ undo \in Seq(Tx) /\ redo \in Seq(Tx)
    BY KeptIn DEF PInv, Good
  <2> QED
    BY <2>1, LiveIs
<1>5. GarbageBounded
  BY <1>1, <1>4 DEF GarbageBounded, Waste
<1> QED
  BY <1>3, <1>5

LEMMA PInvReplays ==
  ASSUME PInv
  PROVE  HistoryReplays
<1>1. \A i \in 1..Len(undo) :
        LET n == Len(undo)
            back[j \in 0..n] == IF j = n THEN pieces ELSE RevertEdits(back[j + 1], undo[j + 1].edits)
        IN  Text(back[i - 1], add) = undo[i].docBefore
  BY BackReplays DEF PInv, Good
<1>2. \A i \in 1..Len(redo) :
        LET n == Len(redo)
            on[j \in 1..(n + 1)] == IF j = n + 1 THEN pieces ELSE ApplyEdits(on[j + 1], redo[j].edits)
        IN  Text(on[i], add) = redo[i].docAfter
  BY OnReplays DEF PInv, Good
<1> QED
  BY <1>1, <1>2, Zenon DEF HistoryReplays

\* After any edits, undos, redos and saves the retained history spells the documents that
\* were there, undo back to the oldest and redo forward to the newest, although runs were
\* extended, transactions pruned and the add buffer compacted meanwhile; the bytes it is
\* charged for are those it holds and within the limits, no piece points outside its
\* source, and only a bounded part of the add buffer is referred to by nothing.
THEOREM HistoryExact == Spec => []HistoryIsExact
<1>1. Init => PInv
  BY InitHolds
<1>2. PInv /\ [Next]_vars => PInv'
  BY StepHolds
<1>3. PInv => HistoryIsExact
  BY PInvTypes, PInvAccounts, PInvReplays DEF HistoryIsExact
<1> QED
  BY <1>1, <1>2, <1>3, PTL DEF Spec
=============================================================================
