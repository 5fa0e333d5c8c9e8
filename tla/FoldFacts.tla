----------------------------- MODULE FoldFacts -----------------------------
(***************************************************************************)
(* What the proofs about recursive functions rest on: induction on a       *)
(* natural number and on a sequence, each over a set, and the existence    *)
(* and equality of functions that fold a sequence.                         *)
(***************************************************************************)
EXTENDS Naturals, SequencesExt, SequenceTheorems, WellFoundedInduction, TLAPS

-----------------------------------------------------------------------------
(* Naturals and sequences. *)

LEMMA Induction ==
  ASSUME NEW T, 0 \in T, \A k \in Nat : k \in T => k + 1 \in T
  PROVE  Nat \subseteq T
<1> DEFINE U == Nat \ T
<1> SUFFICES ASSUME U # {}
             PROVE  FALSE
  OBVIOUS
<1>1. PICK x \in U : \A y \in U : ~(<<y, x>> \in OpToRel(<, Nat))
  <2>1. U \in SUBSET Nat
    OBVIOUS
  <2> HIDE DEF U
  <2> QED
    BY <2>1, NatLessThanWellFounded, WFMin
<1>2. x \in Nat /\ x \notin T /\ x # 0
  OBVIOUS
<1>3. x - 1 \in Nat /\ (x - 1) + 1 = x /\ x - 1 < x
  BY <1>2
<1>4. x - 1 \notin T
  BY <1>2, <1>3
<1>5. <<x - 1, x>> \in OpToRel(<, Nat)
  BY <1>2, <1>3, Zenon DEF OpToRel
<1> QED
  BY <1>1, <1>3, <1>4, <1>5

\* What holds of the empty sequence and of every sequence one longer holds of all.
LEMMA SeqInduction ==
  ASSUME NEW S, NEW T, <<>> \in T,
         \A s \in Seq(S), e \in S : s \in T => Append(s, e) \in T
  PROVE  Seq(S) \subseteq T
<1> DEFINE U == {n \in Nat : \A s \in Seq(S) : Len(s) = n => s \in T}
<1>1. 0 \in U
  <2>1. \A s \in Seq(S) : Len(s) = 0 => s = <<>>
    BY EmptySeq
  <2> QED
    BY <2>1
<1>2. ASSUME NEW n \in Nat, n \in U
      PROVE  n + 1 \in U
  <2> SUFFICES ASSUME NEW s \in Seq(S), Len(s) = n + 1
               PROVE  s \in T
    OBVIOUS
  <2>1. s # <<>>
    BY EmptySeq
  <2>2. PICK r \in Seq(S), e \in S : s = Append(r, e)
    BY <2>1, SequenceEmptyOrAppend
  <2>3. Len(s) = Len(r) + 1 /\ Len(r) \in Nat
    BY <2>2, AppendProperties, LenProperties
  <2>4. r \in T
    BY <1>2, <2>3
  <2> QED
    BY <2>2, <2>4
<1>3. Nat \subseteq U
  <2> HIDE DEF U
  <2> QED
    BY <1>1, <1>2, Induction
<1> SUFFICES ASSUME NEW s \in Seq(S)
             PROVE  s \in T
  OBVIOUS
<1>4. Len(s) \in Nat
  BY LenProperties
<1> QED
  BY <1>3, <1>4

LEMMA AppendAt ==
  ASSUME NEW S, NEW s \in Seq(S), NEW t \in S
  PROVE  /\ Append(s, t) \in Seq(S) /\ Append(s, t) # <<>>
         /\ Len(s) \in Nat /\ Len(Append(s, t)) = Len(s) + 1
         /\ \A i \in 1..Len(s) : Append(s, t)[i] = s[i]
         /\ Append(s, t)[Len(s) + 1] = t
  BY AppendProperties

LEMMA PrefixAt ==
  ASSUME NEW S, NEW s \in Seq(S), NEW k \in 0..Len(s)
  PROVE  /\ SubSeq(s, 1, k) \in Seq(S) /\ Len(SubSeq(s, 1, k)) = k
         /\ \A i \in 1..k : SubSeq(s, 1, k)[i] = s[i]
<1>1. \A i \in 1..k : s[i] \in S
  BY ElementOfSeq
<1> QED
  BY <1>1, SubSeqProperties

LEMMA SplitIsAll ==
  ASSUME NEW S, NEW s \in Seq(S), NEW k \in 0..Len(s)
  PROVE  s = SubSeq(s, 1, k) \o SubSeq(s, k + 1, Len(s))
<1>1. 1 \in 1..Len(s) + 1 /\ k \in 1 - 1..Len(s) /\ Len(s) \in k..Len(s)
  BY LenProperties
<1>2. SubSeq(s, 1, k) \o SubSeq(s, k + 1, Len(s)) = SubSeq(s, 1, Len(s))
  BY <1>1, ConcatAdjacentSubSeq
<1>3. SubSeq(s, 1, Len(s)) = s
  BY SubSeqFull
<1> QED
  BY <1>2, <1>3

LEMMA FrontAt ==
  ASSUME NEW S, NEW s \in Seq(S), s # <<>>
  PROVE  /\ Len(s) \in Nat \ {0} /\ Last(s) = s[Len(s)] /\ Last(s) \in S
         /\ Front(s) \in Seq(S) /\ Len(Front(s)) = Len(s) - 1
         /\ \A i \in 1..Len(s) - 1 : Front(s)[i] = s[i]
         /\ s = Append(Front(s), Last(s))
<1>1. Len(s) \in Nat \ {0}
  BY EmptySeq
<1>2. Len(s) \in 1..Len(s) /\ Last(s) = s[Len(s)]
  BY <1>1 DEF Last
<1>3. Last(s) \in S
  BY <1>2, ElementOfSeq
<1>4. /\ Front(s) \in Seq(S) /\ Len(Front(s)) = Len(s) - 1
      /\ \A i \in 1..Len(s) - 1 : Front(s)[i] = s[i]
  <2>1. Len(s) - 1 \in 0..Len(s)
    BY <1>1
  <2> QED
    BY <2>1, PrefixAt DEF Front
<1>5. s = Append(Front(s), Last(s))
  <2> DEFINE a == Append(Front(s), Last(s))
  <2>1. /\ a \in Seq(S) /\ Len(a) = Len(Front(s)) + 1
        /\ \A i \in 1..Len(Front(s)) : a[i] = Front(s)[i]
        /\ a[Len(Front(s)) + 1] = Last(s)
    BY <1>3, <1>4, AppendAt
  <2> HIDE DEF a
  <2>2. Len(a) = Len(s) /\ \A i \in 1..Len(s) : s[i] = a[i]
    BY <1>1, <1>2, <1>4, <2>1
  <2> QED
    BY <2>1, <2>2, SeqEqual DEF a
<1> QED
  BY <1>1, <1>2, <1>3, <1>4, <1>5

LEMMA SuffixAt ==
  ASSUME NEW S, NEW s \in Seq(S), NEW k \in 0..Len(s)
  PROVE  /\ SubSeq(s, k + 1, Len(s)) \in Seq(S)
         /\ Len(SubSeq(s, k + 1, Len(s))) = Len(s) - k
         /\ \A i \in 1..Len(s) - k : SubSeq(s, k + 1, Len(s))[i] = s[k + i]
<1>1. \A i \in k + 1..Len(s) : s[i] \in S
  BY ElementOfSeq
<1> QED
  BY <1>1, SubSeqProperties

LEMMA ConcatAppend ==
  ASSUME NEW S, NEW u \in Seq(S), NEW x \in Seq(S), NEW t \in S
  PROVE  /\ u \o x \in Seq(S)
         /\ u \o Append(x, t) = Append(u \o x, t)
<1>1. <<t>> \in Seq(S)
  OBVIOUS
<1>2. u \o x \in Seq(S)
  BY ConcatProperties
<1>3. Append(x, t) = x \o <<t>>
  BY AppendIsConcat
<1>4. Append(u \o x, t) = (u \o x) \o <<t>>
  BY <1>2, AppendIsConcat
<1>5. (u \o x) \o <<t>> = u \o (x \o <<t>>)
  BY <1>1, ConcatAssociative
<1> QED
  BY <1>2, <1>3, <1>4, <1>5

LEMMA Associative ==
  ASSUME NEW S
  PROVE  \A s, t, u \in Seq(S) : (s \o t) \o u = s \o (t \o u)
<1> SUFFICES ASSUME NEW s \in Seq(S), NEW t \in Seq(S), NEW u \in Seq(S)
             PROVE  (s \o t) \o u = s \o (t \o u)
  OBVIOUS
<1> QED
  BY ConcatAssociative

\* Concatenation, place by place.
LEMMA ConcatAt ==
  ASSUME NEW S
  PROVE  \A s, t \in Seq(S) :
           /\ s \o t \in Seq(S) /\ Len(s \o t) = Len(s) + Len(t)
           /\ \A i \in 1..Len(s) : (s \o t)[i] = s[i]
           /\ \A i \in 1..Len(t) : (s \o t)[Len(s) + i] = t[i]
<1> SUFFICES ASSUME NEW s \in Seq(S), NEW t \in Seq(S)
             PROVE  /\ s \o t \in Seq(S) /\ Len(s \o t) = Len(s) + Len(t)
                    /\ \A i \in 1..Len(s) : (s \o t)[i] = s[i]
                    /\ \A i \in 1..Len(t) : (s \o t)[Len(s) + i] = t[i]
  OBVIOUS
<1>1. /\ s \o t \in Seq(S) /\ Len(s \o t) = Len(s) + Len(t)
      /\ \A i \in 1..Len(s) + Len(t) : (s \o t)[i] = IF i <= Len(s) THEN s[i] ELSE t[i - Len(s)]
      /\ Len(s) \in Nat /\ Len(t) \in Nat
  BY ConcatProperties, LenProperties
<1>2. ASSUME NEW i \in 1..Len(s)
      PROVE  (s \o t)[i] = s[i]
  <2>1. i \in 1..Len(s) + Len(t) /\ i <= Len(s)
    BY <1>1
  <2> QED
    BY <1>1, <2>1
<1>3. ASSUME NEW i \in 1..Len(t)
      PROVE  (s \o t)[Len(s) + i] = t[i]
  <2>1. Len(s) + i \in 1..Len(s) + Len(t) /\ ~(Len(s) + i <= Len(s)) /\ (Len(s) + i) - Len(s) = i
    BY <1>1
  <2> QED
    BY <1>1, <2>1
<1> QED
  BY <1>1, <1>2, <1>3

\* What is a prefix and what follows it, place by place.
LEMMA IsConcat ==
  ASSUME NEW S
  PROVE  \A s, t, u \in Seq(S) :
           /\ Len(u) = Len(s) + Len(t)
           /\ \A i \in 1..Len(s) : u[i] = s[i]
           /\ \A i \in 1..Len(t) : u[Len(s) + i] = t[i]
           => u = s \o t
<1> SUFFICES ASSUME NEW s \in Seq(S), NEW t \in Seq(S), NEW u \in Seq(S),
                    Len(u) = Len(s) + Len(t),
                    \A i \in 1..Len(s) : u[i] = s[i],
                    \A i \in 1..Len(t) : u[Len(s) + i] = t[i]
             PROVE  u = s \o t
  OBVIOUS
<1> DEFINE c == s \o t
<1>1. /\ c \in Seq(S) /\ Len(c) = Len(s) + Len(t)
      /\ \A i \in 1..Len(s) : c[i] = s[i]
      /\ \A i \in 1..Len(t) : c[Len(s) + i] = t[i]
      /\ Len(s) \in Nat /\ Len(t) \in Nat
  BY ConcatAt, LenProperties
<1> HIDE DEF c
<1>2. ASSUME NEW i \in 1..Len(u)
      PROVE  u[i] = c[i]
  <2>1. CASE i <= Len(s)
    <3>1. i \in 1..Len(s)
      BY <1>1, <2>1
    <3> QED
      BY <1>1, <3>1
  <2>2. CASE i > Len(s)
    <3>1. i - Len(s) \in 1..Len(t) /\ Len(s) + (i - Len(s)) = i
      BY <1>1, <2>2
    <3> QED
      BY <1>1, <3>1
  <2> QED
    BY <1>1, <2>1, <2>2
<1>3. u = c
  BY <1>1, <1>2, SeqEqual
<1> QED
  BY <1>3 DEF c

\* A text is cut at a place in one way.
LEMMA CutOnce ==
  ASSUME NEW S
  PROVE  \A a, b, c, d \in Seq(S) : a \o b = c \o d /\ Len(a) = Len(c) => a = c /\ b = d
<1> SUFFICES ASSUME NEW a \in Seq(S), NEW b \in Seq(S), NEW c \in Seq(S), NEW d \in Seq(S)
             PROVE  a \o b = c \o d /\ Len(a) = Len(c) => a = c /\ b = d
  OBVIOUS
<1> DEFINE u == a \o b
           v == c \o d
<1>1. /\ Len(u) = Len(a) + Len(b)
      /\ \A i \in 1..Len(a) : u[i] = a[i]
      /\ \A i \in 1..Len(b) : u[Len(a) + i] = b[i]
  BY ConcatAt
<1>2. /\ Len(v) = Len(c) + Len(d)
      /\ \A i \in 1..Len(c) : v[i] = c[i]
      /\ \A i \in 1..Len(d) : v[Len(c) + i] = d[i]
  BY ConcatAt
<1>3. Len(a) \in Nat /\ Len(b) \in Nat /\ Len(c) \in Nat /\ Len(d) \in Nat
  BY LenProperties
<1> HIDE DEF u, v
<1>4. ASSUME u = v, Len(a) = Len(c)
      PROVE  a = c /\ b = d
  <2>1. \A i \in 1..Len(a) : a[i] = c[i]
    BY <1>1, <1>2, <1>4
  <2>2. a = c
    BY <1>4, <2>1, SeqEqual
  <2>3. Len(b) = Len(d)
    BY <1>1, <1>2, <1>3, <1>4
  <2>4. ASSUME NEW i \in 1..Len(b)
        PROVE  b[i] = d[i]
    BY <1>1, <1>2, <1>4, <2>3
  <2>5. b = d
    BY <2>3, <2>4, SeqEqual
  <2> QED
    BY <2>2, <2>5
<1> QED
  BY <1>4 DEF u, v

LEMMA AllIn ==
  ASSUME NEW S, NEW T, NEW s \in Seq(S), \A k \in 1..Len(s) : s[k] \in T
  PROVE  s \in Seq(T)
<1>1. Len(s) \in Nat /\ s = [k \in 1..Len(s) |-> s[k]]
  BY LenProperties
<1> DEFINE n == Len(s)
<1> HIDE DEF n
<1>2. s \in [1..n -> T]
  BY <1>1 DEF n
<1> QED
  BY <1>1, <1>2 DEF n

\* The elements of a concatenation are those of its parts.
LEMMA PartsIn ==
  ASSUME NEW S, NEW T
  PROVE  \A s, t \in Seq(S) : s \o t \in Seq(T) => s \in Seq(T) /\ t \in Seq(T)
<1> SUFFICES ASSUME NEW s \in Seq(S), NEW t \in Seq(S), s \o t \in Seq(T)
             PROVE  s \in Seq(T) /\ t \in Seq(T)
  OBVIOUS
<1> DEFINE u == s \o t
<1>1. /\ Len(u) = Len(s) + Len(t) /\ Len(s) \in Nat /\ Len(t) \in Nat
      /\ \A i \in 1..Len(s) : u[i] = s[i]
      /\ \A i \in 1..Len(t) : u[Len(s) + i] = t[i]
  BY ConcatAt, LenProperties
<1>2. \A i \in 1..Len(u) : u[i] \in T
  BY ElementOfSeq
<1> HIDE DEF u
<1>3. \A i \in 1..Len(s) : s[i] \in T
  <2>1. \A i \in 1..Len(s) : i \in 1..Len(u)
    BY <1>1
  <2> QED
    BY <1>1, <1>2, <2>1
<1>4. \A i \in 1..Len(t) : t[i] \in T
  <2>1. \A i \in 1..Len(t) : Len(s) + i \in 1..Len(u)
    BY <1>1
  <2> QED
    BY <1>1, <1>2, <2>1
<1>5. s \in [1..Len(s) -> T] /\ t \in [1..Len(t) -> T]
  BY <1>3, <1>4, LenProperties
<1> QED
  BY <1>1, <1>5

\* A list in three parts.
LEMMA ThreeParts ==
  ASSUME NEW S, NEW s \in Seq(S), NEW from \in 1..Len(s), NEW to \in from..Len(s)
  PROVE  /\ SubSeq(s, 1, from - 1) \in Seq(S) /\ Len(SubSeq(s, 1, from - 1)) = from - 1
         /\ SubSeq(s, from, to) \in Seq(S) /\ Len(SubSeq(s, from, to)) = to - from + 1
         /\ \A k \in 1..(to - from + 1) : SubSeq(s, from, to)[k] = s[from + k - 1]
         /\ SubSeq(s, to + 1, Len(s)) \in Seq(S)
         /\ s = (SubSeq(s, 1, from - 1) \o SubSeq(s, from, to)) \o SubSeq(s, to + 1, Len(s))
<1>1. Len(s) \in Nat /\ from \in Nat /\ to \in Nat /\ from >= 1 /\ from <= to /\ to <= Len(s)
  BY LenProperties
<1>2. SubSeq(s, 1, from - 1) \in Seq(S) /\ Len(SubSeq(s, 1, from - 1)) = from - 1
  <2>1. from - 1 \in 0..Len(s)
    BY <1>1
  <2> QED
    BY <2>1, PrefixAt
<1>3. SubSeq(s, to + 1, Len(s)) \in Seq(S)
  <2>1. to \in 0..Len(s)
    BY <1>1
  <2> QED
    BY <2>1, SuffixAt
<1>4. /\ SubSeq(s, from, to) \in Seq(S) /\ Len(SubSeq(s, from, to)) = to - from + 1
      /\ \A k \in 1..(to - from + 1) : SubSeq(s, from, to)[k] = s[from + k - 1]
  <2>1. \A i \in from..to : s[i] \in S
    <3>1. \A i \in from..to : i \in 1..Len(s)
      BY <1>1
    <3> QED
      BY <3>1, ElementOfSeq
  <2> QED
    BY <1>1, <2>1, SubSeqProperties
<1>5. SubSeq(s, 1, from - 1) \o SubSeq(s, from, to) = SubSeq(s, 1, to)
  <2>1. 1 \in 1..Len(s) + 1 /\ from - 1 \in 1 - 1..Len(s) /\ to \in from - 1..Len(s) /\ (from - 1) + 1 = from
    BY <1>1
  <2>2. SubSeq(s, 1, from - 1) \o SubSeq(s, (from - 1) + 1, to) = SubSeq(s, 1, to)
    BY <2>1, ConcatAdjacentSubSeq
  <2> QED
    BY <2>1, <2>2
<1>6. s = SubSeq(s, 1, to) \o SubSeq(s, to + 1, Len(s))
  <2>1. to \in 0..Len(s)
    BY <1>1
  <2> QED
    BY <2>1, SplitIsAll
<1> QED
  BY <1>2, <1>3, <1>4, <1>5, <1>6

\* One element changed: what is before it and after it stays.
LEMMA OneChanged ==
  ASSUME NEW S, NEW s \in Seq(S), NEW i \in 1..Len(s), NEW e \in S,
         NEW t, t = [s EXCEPT ![i] = e]
  PROVE  /\ t \in Seq(S) /\ Len(t) = Len(s) /\ SubSeq(t, i, i) = <<e>>
         /\ SubSeq(t, 1, i - 1) = SubSeq(s, 1, i - 1)
         /\ SubSeq(t, i + 1, Len(t)) = SubSeq(s, i + 1, Len(s))
<1>1. /\ t \in Seq(S) /\ Len(t) = Len(s) /\ Len(s) \in Nat
      /\ \A j \in 1..Len(s) : t[j] = IF j = i THEN e ELSE s[j]
  BY ExceptSeq, LenProperties
<1>2. SubSeq(t, 1, i - 1) = SubSeq(s, 1, i - 1)
  <2>1. i - 1 \in 0..Len(s) /\ i - 1 \in 0..Len(t)
    BY <1>1
  <2>2. /\ SubSeq(s, 1, i - 1) \in Seq(S) /\ Len(SubSeq(s, 1, i - 1)) = i - 1
        /\ \A j \in 1..i - 1 : SubSeq(s, 1, i - 1)[j] = s[j]
    BY <2>1, PrefixAt
  <2>3. /\ SubSeq(t, 1, i - 1) \in Seq(S) /\ Len(SubSeq(t, 1, i - 1)) = i - 1
        /\ \A j \in 1..i - 1 : SubSeq(t, 1, i - 1)[j] = t[j]
    BY <1>1, <2>1, PrefixAt
  <2>4. \A j \in 1..i - 1 : j \in 1..Len(s) /\ j # i
    BY <1>1
  <2>5. \A j \in 1..i - 1 : SubSeq(t, 1, i - 1)[j] = SubSeq(s, 1, i - 1)[j]
    BY <1>1, <2>2, <2>3, <2>4
  <2> QED
    BY <2>2, <2>3, <2>5, SeqEqual
<1>3. SubSeq(t, i + 1, Len(t)) = SubSeq(s, i + 1, Len(s))
  <2> DEFINE x == SubSeq(s, i + 1, Len(s))
             y == SubSeq(t, i + 1, Len(t))
  <2>1. i \in 0..Len(s) /\ i \in 0..Len(t)
    BY <1>1
  <2>2. x \in Seq(S) /\ Len(x) = Len(s) - i /\ \A j \in 1..Len(s) - i : x[j] = s[i + j]
    BY <2>1, SuffixAt
  <2>3. y \in Seq(S) /\ Len(y) = Len(t) - i /\ \A j \in 1..Len(t) - i : y[j] = t[i + j]
    BY <1>1, <2>1, SuffixAt
  <2> HIDE DEF x, y
  <2>4. \A j \in 1..Len(s) - i : i + j \in 1..Len(s) /\ i + j # i
    BY <1>1
  <2>5. \A j \in 1..Len(y) : y[j] = x[j]
    BY <1>1, <2>2, <2>3, <2>4
  <2>6. y = x
    BY <1>1, <2>2, <2>3, <2>5, SeqEqual
  <2> QED
    BY <2>6 DEF x, y
<1>4. SubSeq(t, i, i) = <<e>>
  <2>1. i \in 1..Len(t) /\ i \in i..Len(t) /\ i - i + 1 = 1 /\ i + 1 - 1 = i /\ 1 \in 1..1
    BY <1>1
  <2>2. /\ SubSeq(t, i, i) \in Seq(S) /\ Len(SubSeq(t, i, i)) = i - i + 1
        /\ \A k \in 1..(i - i + 1) : SubSeq(t, i, i)[k] = t[i + k - 1]
    BY <1>1, <2>1, ThreeParts
  <2>3. Len(SubSeq(t, i, i)) = 1 /\ SubSeq(t, i, i)[1] = e
    BY <1>1, <2>1, <2>2
  <2>4. <<e>> \in Seq(S) /\ Len(<<e>>) = 1 /\ <<e>>[1] = e
    OBVIOUS
  <2> DEFINE x == SubSeq(t, i, i)
             y == <<e>>
  <2> HIDE DEF x, y
  <2>5. x \in Seq(S) /\ y \in Seq(S) /\ Len(x) = Len(y) /\ \A j \in 1..Len(x) : x[j] = y[j]
    BY <2>2, <2>3, <2>4 DEF x, y
  <2>6. x = y
    BY <2>5, SeqEqual
  <2> QED
    BY <2>6 DEF x, y
<1> QED
  BY <1>1, <1>2, <1>3, <1>4

LEMMA RangeIn ==
  ASSUME NEW S, NEW s \in Seq(S), NEW m \in 1..Len(s) + 1, NEW n \in (m - 1)..Len(s)
  PROVE  SubSeq(s, m, n) \in Seq(S)
<1>1. Len(s) \in Nat /\ m \in Int /\ n \in Int /\ \A i \in m..n : i \in 1..Len(s)
  BY LenProperties
<1>2. \A i \in m..n : s[i] \in S
  BY <1>1, ElementOfSeq
<1> QED
  BY <1>1, <1>2, SubSeqProperties

\* Concatenation as one operator, which the provers leave folded.
Cat(s, t) == s \o t

LEMMA CatIn ==
  ASSUME NEW S
  PROVE  \A s, t \in Seq(S) : /\ Cat(s, t) \in Seq(S) /\ Len(Cat(s, t)) = Len(s) + Len(t)
                              /\ Len(s) \in Nat /\ Len(t) \in Nat
  BY ConcatProperties, LenProperties DEF Cat

LEMMA CatOf ==
  ASSUME NEW S
  PROVE  \A s, t, u \in Seq(S) : Cat(Cat(s, t), u) = Cat(s, Cat(t, u))
<1> SUFFICES ASSUME NEW s \in Seq(S), NEW t \in Seq(S), NEW u \in Seq(S)
             PROVE  Cat(Cat(s, t), u) = Cat(s, Cat(t, u))
  OBVIOUS
<1>1. (s \o t) \o u = s \o (t \o u)
  BY ConcatAssociative
<1> QED
  BY <1>1, Zenon DEF Cat

LEMMA CatEmpty ==
  ASSUME NEW S
  PROVE  \A s \in Seq(S) : Cat(s, <<>>) = s /\ Cat(<<>>, s) = s
  BY ConcatEmptySeq DEF Cat

LEMMA CatOnce ==
  ASSUME NEW S
  PROVE  \A a, b, c, d \in Seq(S) : Cat(a, b) = Cat(c, d) /\ Len(a) = Len(c) => a = c /\ b = d
  BY CutOnce, Zenon DEF Cat

LEMMA CatAt ==
  ASSUME NEW S, NEW s \in Seq(S), NEW t \in Seq(S)
  PROVE  /\ Cat(s, t) \in Seq(S) /\ Len(Cat(s, t)) = Len(s) + Len(t)
         /\ \A i \in 1..Len(s) : Cat(s, t)[i] = s[i]
         /\ \A i \in 1..Len(t) : Cat(s, t)[Len(s) + i] = t[i]
         /\ Len(s) \in Nat /\ Len(t) \in Nat
  BY ConcatAt, LenProperties DEF Cat

LEMMA IsCat ==
  ASSUME NEW S
  PROVE  \A s, t, u \in Seq(S) :
           /\ Len(u) = Len(s) + Len(t)
           /\ \A i \in 1..Len(s) : u[i] = s[i]
           /\ \A i \in 1..Len(t) : u[Len(s) + i] = t[i]
           => u = Cat(s, t)
  BY IsConcat DEF Cat

LEMMA CatAppend ==
  ASSUME NEW S, NEW u \in Seq(S), NEW x \in Seq(S), NEW t \in S
  PROVE  /\ Cat(u, x) \in Seq(S)
         /\ Cat(u, Append(x, t)) = Append(Cat(u, x), t)
  BY ConcatAppend DEF Cat

LEMMA SplitIsCat ==
  ASSUME NEW S, NEW s \in Seq(S), NEW k \in 0..Len(s)
  PROVE  s = Cat(SubSeq(s, 1, k), SubSeq(s, k + 1, Len(s)))
  BY SplitIsAll DEF Cat

LEMMA CatAdjacent ==
  ASSUME NEW S, NEW s \in Seq(S), NEW m \in 1..Len(s) + 1, NEW k \in m - 1..Len(s), NEW n \in k..Len(s)
  PROVE  Cat(SubSeq(s, m, k), SubSeq(s, k + 1, n)) = SubSeq(s, m, n)
  BY ConcatAdjacentSubSeq DEF Cat

LEMMA ThreeCats ==
  ASSUME NEW S, NEW s \in Seq(S), NEW from \in 1..Len(s), NEW to \in from..Len(s)
  PROVE  /\ SubSeq(s, 1, from - 1) \in Seq(S) /\ Len(SubSeq(s, 1, from - 1)) = from - 1
         /\ SubSeq(s, from, to) \in Seq(S) /\ Len(SubSeq(s, from, to)) = to - from + 1
         /\ \A k \in 1..(to - from + 1) : SubSeq(s, from, to)[k] = s[from + k - 1]
         /\ SubSeq(s, to + 1, Len(s)) \in Seq(S)
         /\ s = Cat(Cat(SubSeq(s, 1, from - 1), SubSeq(s, from, to)), SubSeq(s, to + 1, Len(s)))
  BY ThreeParts DEF Cat

LEMMA CatsOfFour ==
  ASSUME NEW S
  PROVE  \A a, d, e, f \in Seq(S) : Cat(Cat(a, Cat(f, d)), e) = Cat(Cat(a, f), Cat(d, e))
  BY CatIn, CatOf

LEMMA CatsInside ==
  ASSUME NEW S
  PROVE  \A a, b, c, d \in Seq(S) : Cat(a, Cat(Cat(b, c), d)) = Cat(Cat(Cat(a, b), c), d)
  BY CatIn, CatOf

LEMMA NoCat ==
  ASSUME NEW S
  PROVE  \A s, t \in Seq(S) : /\ Len(s) = 0 => Cat(s, t) = t
                              /\ Len(t) = 0 => Cat(s, t) = s
<1>1. \A s \in Seq(S) : Len(s) = 0 => s = <<>>
  BY EmptySeq
<1> QED
  BY <1>1, CatEmpty

LEMMA PairIsCat ==
  ASSUME NEW S, NEW a \in S, NEW b \in S
  PROVE  <<a, b>> = Cat(<<a>>, <<b>>) /\ <<a, b>> \in Seq(S)
<1>1. <<a>> \in Seq(S)
  OBVIOUS
<1>2. Append(<<a>>, b) = <<a>> \o <<b>> /\ Append(<<a>>, b) \in Seq(S)
  BY <1>1, AppendIsConcat, AppendProperties
<1>3. Append(<<a>>, b) = <<a, b>>
  <2> DEFINE s == <<a>>
             u == <<a, b>>
             v == Append(s, b)
  <2>1. u \in Seq(S) /\ Len(u) = 2 /\ u[1] = a /\ u[2] = b
    OBVIOUS
  <2>2. s \in Seq(S) /\ Len(s) = 1 /\ s[1] = a
    OBVIOUS
  <2> HIDE DEF s, u
  <2>3. v \in Seq(S) /\ Len(v) = 2 /\ v[1] = a /\ v[2] = b
    <3>1. /\ v \in Seq(S) /\ Len(v) = Len(s) + 1 /\ \A i \in 1..Len(s) : v[i] = s[i]
          /\ v[Len(s) + 1] = b
      <4>1. s \in Seq(S)
        BY <2>2
      <4> QED
        BY <4>1, AppendAt
    <3> HIDE DEF v
    <3> QED
      BY <2>2, <3>1
  <2> HIDE DEF v
  <2>4. Len(u) = Len(v) /\ \A i \in 1..Len(u) : u[i] = v[i]
    <3>1. \A i \in 1..2 : i = 1 \/ i = 2
      OBVIOUS
    <3> QED
      BY <2>1, <2>3, <3>1
  <2>5. u = v
    BY <2>1, <2>3, <2>4, SeqEqual
  <2> QED
    BY <2>5 DEF s, u, v
<1> QED
  BY <1>2, <1>3 DEF Cat

LEMMA CatsOfFive ==
  ASSUME NEW S
  PROVE  \A a, b, c, d, e \in Seq(S) :
           Cat(Cat(a, Cat(Cat(b, c), d)), e) = Cat(Cat(Cat(a, b), c), Cat(d, e))
<1> SUFFICES ASSUME NEW a \in Seq(S), NEW b \in Seq(S), NEW c \in Seq(S), NEW d \in Seq(S), NEW e \in Seq(S)
             PROVE  Cat(Cat(a, Cat(Cat(b, c), d)), e) = Cat(Cat(Cat(a, b), c), Cat(d, e))
  OBVIOUS
<1>1. Cat(b, c) \in Seq(S)
  BY CatIn
<1>2. Cat(Cat(a, Cat(Cat(b, c), d)), e) = Cat(Cat(a, Cat(b, c)), Cat(d, e))
  BY <1>1, CatsOfFour
<1>3. Cat(a, Cat(b, c)) = Cat(Cat(a, b), c)
  BY CatOf
<1> QED
  BY <1>2, <1>3

\* The least and the greatest of a set of places.
LEMMA LeastPlace ==
  ASSUME NEW n \in Nat, NEW T \in SUBSET (1..n), T # {}
  PROVE  \E i \in T : \A j \in T : i <= j
<1>1. PICK x \in T : \A y \in T : ~(<<y, x>> \in OpToRel(<, Nat))
  <2>1. T \in SUBSET Nat
    OBVIOUS
  <2> QED
    BY <2>1, NatLessThanWellFounded, WFMin
<1>2. ASSUME NEW y \in T
      PROVE  x <= y
  <2>1. x \in Nat /\ y \in Nat
    OBVIOUS
  <2>2. ~(y < x)
    BY <1>1, <2>1, Zenon DEF OpToRel
  <2> QED
    BY <2>1, <2>2
<1> QED
  BY <1>2

LEMMA GreatestPlace ==
  ASSUME NEW n \in Nat, NEW T \in SUBSET (1..n), T # {}
  PROVE  \E i \in T : \A j \in T : j <= i
<1> DEFINE U == {n + 1 - i : i \in T}
<1>1. U \in SUBSET (1..n) /\ U # {}
  <2>1. \A i \in T : n + 1 - i \in 1..n
    OBVIOUS
  <2>2. PICK i \in T : TRUE
    OBVIOUS
  <2>3. n + 1 - i \in U
    OBVIOUS
  <2> QED
    BY <2>1, <2>3
<1>2. PICK u \in U : \A v \in U : u <= v
  <2> HIDE DEF U
  <2> QED
    BY <1>1, LeastPlace
<1>3. PICK i \in T : u = n + 1 - i
  OBVIOUS
<1>4. ASSUME NEW j \in T
      PROVE  j <= i
  <2>1. n + 1 - j \in U
    OBVIOUS
  <2>2. u <= n + 1 - j
    BY <1>2, <2>1
  <2> QED
    BY <1>3, <2>2
<1> QED
  BY <1>4

\* The parts of a list of rows around one of them.
Apart(S, head, row, foot, all) ==
  /\ all \in Seq(S) /\ all # <<>> /\ Len(all) = Len(head) + 1 + Len(foot)
  /\ SubSeq(all, 1, Len(head)) = head /\ all[Len(head) + 1] = row
  /\ SubSeq(all, Len(head) + 2, Len(all)) = foot

LEMMA RowsApart ==
  ASSUME NEW S
  PROVE  \A head \in Seq(S), row \in S, foot \in Seq(S) :
           Apart(S, head, row, foot, (head \o <<row>>) \o foot)
<1> SUFFICES ASSUME NEW head \in Seq(S), NEW row \in S, NEW foot \in Seq(S), NEW all,
                    all = (head \o <<row>>) \o foot
             PROVE  Apart(S, head, row, foot, all)
  BY Zenon
<1> DEFINE top == head \o <<row>>
           n == Len(head)
<1>1. n \in Nat /\ Len(foot) \in Nat /\ <<row>> \in Seq(S) /\ Len(<<row>>) = 1
  BY LenProperties
<1>2. /\ top \in Seq(S) /\ Len(top) = n + 1 /\ top[n + 1] = row
      /\ \A i \in 1..n : top[i] = head[i]
  BY AppendIsConcat, AppendAt
<1> HIDE DEF top
<1>3. /\ all \in Seq(S) /\ Len(all) = Len(top) + Len(foot)
      /\ \A i \in 1..Len(top) + Len(foot) :
           all[i] = IF i <= Len(top) THEN top[i] ELSE foot[i - Len(top)]
  BY <1>2, ConcatProperties DEF top
<1> HIDE DEF n
<1>4. all # <<>> /\ Len(all) = n + 1 + Len(foot)
  BY <1>1, <1>2, <1>3, EmptySeq
<1>5. all[n + 1] = row
  <2>1. n + 1 \in 1..Len(top) + Len(foot) /\ n + 1 <= Len(top)
    BY <1>1, <1>2
  <2> QED
    BY <1>2, <1>3, <2>1
<1>6. SubSeq(all, 1, n) = head
  <2>1. n \in 0..Len(all)
    BY <1>1, <1>4
  <2>2. /\ SubSeq(all, 1, n) \in Seq(S) /\ Len(SubSeq(all, 1, n)) = n
        /\ \A i \in 1..n : SubSeq(all, 1, n)[i] = all[i]
    BY <1>3, <2>1, PrefixAt
  <2>3. \A i \in 1..n : SubSeq(all, 1, n)[i] = head[i]
    BY <1>1, <1>2, <1>3, <2>2
  <2> QED
    BY <2>2, <2>3, SeqEqual DEF n
<1>7. SubSeq(all, n + 2, Len(all)) = foot
  <2>1. n + 1 \in 0..Len(all) /\ (n + 1) + 1 = n + 2 /\ Len(all) - (n + 1) = Len(foot)
    BY <1>1, <1>4
  <2> DEFINE rest == SubSeq(all, (n + 1) + 1, Len(all))
  <2>2. /\ rest \in Seq(S) /\ Len(rest) = Len(all) - (n + 1)
        /\ \A i \in 1..Len(all) - (n + 1) : rest[i] = all[(n + 1) + i]
    BY <1>3, <2>1, SuffixAt
  <2>3. rest = SubSeq(all, n + 2, Len(all))
    BY <2>1
  <2> HIDE DEF rest
  <2>4. \A i \in 1..Len(foot) : rest[i] = foot[i]
    <3> SUFFICES ASSUME NEW i \in 1..Len(foot)
                 PROVE  rest[i] = foot[i]
      OBVIOUS
    <3>1. /\ (n + 1) + i \in 1..Len(top) + Len(foot) /\ ~((n + 1) + i <= Len(top))
          /\ ((n + 1) + i) - Len(top) = i
      BY <1>1, <1>2
    <3>2. all[(n + 1) + i] = foot[i]
      BY <1>3, <3>1
    <3> QED
      BY <2>1, <2>2, <3>2
  <2>5. rest = foot
    BY <2>1, <2>2, <2>4, SeqEqual
  <2> QED
    BY <2>3, <2>5
<1> QED
  BY <1>1, <1>3, <1>4, <1>5, <1>6, <1>7 DEF n, Apart

LEMMA FirstApart ==
  ASSUME NEW S, NEW s \in Seq(S), NEW k \in Nat, k + 1 <= Len(s)
  PROVE  /\ SubSeq(s, k + 1, Len(s)) = <<s[k + 1]>> \o SubSeq(s, k + 2, Len(s))
         /\ <<s[k + 1]>> \in Seq(S) /\ SubSeq(s, k + 2, Len(s)) \in Seq(S)
<1>1. Len(s) \in Nat /\ k + 1 \in 1..Len(s) /\ k \in 0..Len(s) /\ k + 1 \in 0..Len(s)
      /\ (k + 1) + 1 = k + 2 /\ Len(s) \in k + 1..Len(s) /\ k + 1 \in 1..Len(s) + 1
      /\ k + 1 \in (k + 1) - 1..Len(s)
  BY LenProperties
<1>2. s[k + 1] \in S
  BY <1>1, ElementOfSeq
<1>3. SubSeq(s, k + 2, Len(s)) \in Seq(S)
  <2>1. SubSeq(s, (k + 1) + 1, Len(s)) \in Seq(S)
    BY <1>1, SuffixAt
  <2> QED
    BY <1>1, <2>1
<1>4. SubSeq(s, k + 1, k + 1) = <<s[k + 1]>>
  <2> DEFINE one == SubSeq(s, k + 1, k + 1)
  <2>1. /\ one \in Seq(S) /\ Len(one) = 1 /\ one[1] = s[k + 1]
    <3>1. \A i \in k + 1..k + 1 : s[i] \in S
      BY <1>2
    <3> QED
      BY <1>1, <3>1, SubSeqProperties
  <2> HIDE DEF one
  <2>2. <<s[k + 1]>> \in Seq(S) /\ Len(<<s[k + 1]>>) = 1 /\ <<s[k + 1]>>[1] = s[k + 1]
    BY <1>2
  <2>3. one = <<s[k + 1]>>
    BY <2>1, <2>2, SeqEqual
  <2> QED
    BY <2>3 DEF one
<1>5. SubSeq(s, k + 1, k + 1) \o SubSeq(s, (k + 1) + 1, Len(s)) = SubSeq(s, k + 1, Len(s))
  BY <1>1, ConcatAdjacentSubSeq
<1> QED
  BY <1>1, <1>2, <1>3, <1>4, <1>5

\* A list is what is above a row, the row, and what is below it.
LEMMA SplitAround ==
  ASSUME NEW S, NEW s \in Seq(S), NEW k \in Nat, k + 1 <= Len(s)
  PROVE  (SubSeq(s, 1, k) \o <<s[k + 1]>>) \o SubSeq(s, k + 2, Len(s)) = s
<1>1. k \in 0..Len(s)
  BY LenProperties
<1>2. s = SubSeq(s, 1, k) \o SubSeq(s, k + 1, Len(s)) /\ SubSeq(s, 1, k) \in Seq(S)
  BY <1>1, SplitIsAll, PrefixAt
<1>3. /\ SubSeq(s, k + 1, Len(s)) = <<s[k + 1]>> \o SubSeq(s, k + 2, Len(s))
      /\ <<s[k + 1]>> \in Seq(S) /\ SubSeq(s, k + 2, Len(s)) \in Seq(S)
  BY FirstApart
<1>4. (SubSeq(s, 1, k) \o <<s[k + 1]>>) \o SubSeq(s, k + 2, Len(s))
        = SubSeq(s, 1, k) \o (<<s[k + 1]>> \o SubSeq(s, k + 2, Len(s)))
  <2>1. \A a, b, c \in Seq(S) : (a \o b) \o c = a \o (b \o c)
    BY Associative
  <2> QED
    BY <1>2, <1>3, <2>1, Zenon
<1> QED
  BY <1>2, <1>3, <1>4, Zenon

\* A row put at the end of what is above, or before what is below.
LEMMA RowBetween ==
  ASSUME NEW S
  PROVE  \A head, rows, foot \in Seq(S), row \in S :
           (head \o Append(rows, row)) \o foot = (head \o rows) \o (<<row>> \o foot)
<1>1. \A s, t, u \in Seq(S) : (s \o t) \o u = s \o (t \o u)
  BY Associative
<1>2. \A s, t \in Seq(S) : s \o t \in Seq(S)
  BY ConcatProperties
<1>3. \A s \in Seq(S), e \in S : Append(s, e) = s \o <<e>> /\ <<e>> \in Seq(S)
  BY AppendIsConcat
<1> SUFFICES ASSUME NEW a \in Seq(S), NEW b \in Seq(S), NEW d \in Seq(S), NEW e \in S
             PROVE  (a \o Append(b, e)) \o d = (a \o b) \o (<<e>> \o d)
  OBVIOUS
<1> DEFINE c == <<e>>
<1>4. Append(b, e) = b \o c /\ c \in Seq(S)
  BY <1>3, Zenon
<1> HIDE DEF c
<1>5. (a \o b) \o c = a \o (b \o c)
  BY <1>1, <1>4, Zenon
<1>6. a \o b \in Seq(S)
  BY <1>2, Zenon
<1>7. ((a \o b) \o c) \o d = (a \o b) \o (c \o d)
  BY <1>1, <1>4, <1>6, Zenon
<1> QED
  BY <1>4, <1>5, <1>7, Zenon DEF c

-----------------------------------------------------------------------------
(* Recursive functions of a list. *)

\* f folds a list: f[k] is what the first k elements make of a.
Folds(f, a, G, n) == f[0] = a /\ \A k \in 1..n : f[k] = G[k][f[k - 1]]

LEMMA FoldExists ==
  ASSUME NEW A, NEW a \in A, NEW N \in Nat, NEW G \in [1..N -> [A -> A]]
  PROVE  \E f \in [0..N -> A] : Folds(f, a, G, N)
<1> DEFINE T == {n \in Nat : n <= N => \E f \in [0..n -> A] : Folds(f, a, G, n)}
<1>1. 0 \in T
  <2> DEFINE f == [k \in 0..0 |-> a]
  <2>1. f \in [0..0 -> A] /\ Folds(f, a, G, 0)
    BY DEF Folds
  <2> QED
    BY <2>1
<1>2. ASSUME NEW n \in Nat, n \in T
      PROVE  n + 1 \in T
  <2> SUFFICES ASSUME n + 1 <= N
               PROVE  \E f \in [0..n + 1 -> A] : Folds(f, a, G, n + 1)
    OBVIOUS
  <2>1. PICK f \in [0..n -> A] : Folds(f, a, G, n)
    BY <1>2
  <2> DEFINE g == [k \in 0..n + 1 |-> IF k = n + 1 THEN G[n + 1][f[n]] ELSE f[k]]
  <2>2. g \in [0..n + 1 -> A]
    <3>1. n + 1 \in 1..N /\ n \in 0..n
      OBVIOUS
    <3>2. G[n + 1] \in [A -> A] /\ f[n] \in A
      BY <3>1
    <3>3. G[n + 1][f[n]] \in A
      BY <3>2
    <3>4. ASSUME NEW k \in 0..n + 1, k # n + 1
          PROVE  f[k] \in A
      BY <3>4
    <3> QED
      BY <3>3, <3>4
  <2>3. g[0] = a
    BY <2>1 DEF Folds
  <2>4. ASSUME NEW k \in 1..n + 1
        PROVE  g[k] = G[k][g[k - 1]]
    <3>1. k - 1 \in 0..n /\ k - 1 # n + 1
      OBVIOUS
    <3>2. g[k - 1] = f[k - 1]
      BY <3>1
    <3>3. CASE k = n + 1
      BY <3>2, <3>3
    <3>4. CASE k # n + 1
      <4>1. k \in 1..n /\ g[k] = f[k]
        BY <3>4
      <4> QED
        BY <2>1, <3>2, <4>1 DEF Folds
    <3> QED
      BY <3>3, <3>4
  <2> HIDE DEF g
  <2> QED
    BY <2>2, <2>3, <2>4 DEF Folds
<1>3. N \in T
  <2> HIDE DEF T
  <2> QED
    BY <1>1, <1>2, Induction
<1> QED
  BY <1>3

\* What two functions that agree at first agree on as long as each step keeps it so.
InStep(f, g, n) == f[0] = g[0] /\ \A k \in 1..n : f[k - 1] = g[k - 1] => f[k] = g[k]

LEMMA Agree ==
  ASSUME NEW f, NEW g, NEW N \in Nat, InStep(f, g, N)
  PROVE  \A k \in 0..N : f[k] = g[k]
<1> USE DEF InStep
<1> DEFINE T == {n \in Nat : n <= N => f[n] = g[n]}
<1>1. 0 \in T
  OBVIOUS
<1>2. ASSUME NEW n \in Nat, n \in T
      PROVE  n + 1 \in T
  <2> SUFFICES ASSUME n + 1 <= N
               PROVE  f[n + 1] = g[n + 1]
    OBVIOUS
  <2>1. n + 1 \in 1..N /\ (n + 1) - 1 = n /\ f[n] = g[n]
    BY <1>2
  <2> QED
    BY <2>1
<1>3. Nat \subseteq T
  <2> HIDE DEF T
  <2> QED
    BY <1>1, <1>2, Induction
<1> QED
  BY <1>3

-----------------------------------------------------------------------------
(* Folds of a sequence by a function of two arguments. *)

\* A fold that starts with a and takes step G[k] from V[k - 1] to V[k], and its values.
StepsIn(N, V, a, G) == a \in V[0] /\ \A k \in 1..N : \A x \in V[k - 1] : G[k][x] \in V[k]
StepsAre(N, V, a, G, h) ==
  /\ DOMAIN h = 0..N /\ h[0] = a /\ h = [k \in 0..N |-> h[k]]
  /\ \A k \in 1..N : h[k] = G[k][h[k - 1]]
  /\ \A k \in 0..N : h[k] \in V[k]

LEMMA StepsExist ==
  ASSUME NEW N \in Nat, NEW V, NEW a, NEW G, StepsIn(N, V, a, G)
  PROVE  \E h : StepsAre(N, V, a, G, h)
<1> USE DEF StepsIn, StepsAre
<1> DEFINE Solves(h, n) == /\ DOMAIN h = 0..n /\ h[0] = a /\ h = [k \in 0..n |-> h[k]]
                           /\ \A k \in 1..n : h[k] = G[k][h[k - 1]]
                           /\ \A k \in 0..n : h[k] \in V[k]
           T == {n \in Nat : n <= N => \E h : Solves(h, n)}
<1>1. 0 \in T
  <2> DEFINE h == [k \in 0..0 |-> a]
  <2>1. Solves(h, 0)
    OBVIOUS
  <2> QED
    BY <2>1
<1>2. ASSUME NEW n \in Nat, n \in T
      PROVE  n + 1 \in T
  <2> SUFFICES ASSUME n + 1 <= N
               PROVE  \E h : Solves(h, n + 1)
    OBVIOUS
  <2>1. PICK h : Solves(h, n)
    BY <1>2
  <2> DEFINE g == [k \in 0..n + 1 |-> IF k = n + 1 THEN G[n + 1][h[n]] ELSE h[k]]
  <2>2. DOMAIN g = 0..n + 1 /\ g[0] = a /\ g = [k \in 0..n + 1 |-> g[k]]
    BY <2>1
  <2>3. ASSUME NEW k \in 0..n
        PROVE  g[k] = h[k] /\ g[k] \in V[k]
    BY <2>1
  <2>4. g[n + 1] = G[n + 1][g[n]] /\ g[n + 1] \in V[n + 1]
    <3>1. n \in 0..n /\ n + 1 \in 1..N /\ (n + 1) - 1 = n
      OBVIOUS
    <3>2. g[n] = h[n] /\ g[n] \in V[n]
      BY <2>3, <3>1
    <3>3. g[n + 1] = G[n + 1][h[n]]
      OBVIOUS
    <3> HIDE DEF g
    <3> QED
      BY <3>1, <3>2, <3>3
  <2> HIDE DEF g
  <2>5. ASSUME NEW k \in 1..n + 1
        PROVE  g[k] = G[k][g[k - 1]]
    <3>1. CASE k = n + 1
      BY <2>4, <3>1
    <3>2. CASE k # n + 1
      <4>1. k \in 1..n /\ k \in 0..n /\ k - 1 \in 0..n
        BY <3>2
      <4> QED
        BY <2>1, <2>3, <4>1
    <3> QED
      BY <3>1, <3>2
  <2>6. ASSUME NEW k \in 0..n + 1
        PROVE  g[k] \in V[k]
    <3>1. CASE k = n + 1
      BY <2>4, <3>1
    <3>2. CASE k # n + 1
      BY <2>3, <3>2
    <3> QED
      BY <3>1, <3>2
  <2>7. Solves(g, n + 1)
    BY <2>2, <2>5, <2>6
  <2> QED
    BY <2>7
<1>3. N \in T
  <2> HIDE DEF T
  <2> QED
    BY <1>1, <1>2, Induction
<1> QED
  BY <1>3

\* A function that takes a value of A and an element of S to a value of A, and the
\* result of a fold of s by it.
Turns(A, S) == [A \X S -> A]
Result(T, a, s) ==
  LET r[k \in 0..Len(s)] == IF k = 0 THEN a ELSE T[<<r[k - 1], s[k]>>] IN r[Len(s)]

LEMMA ResultUnfolds ==
  ASSUME NEW A, NEW S, NEW T \in Turns(A, S), NEW a \in A, NEW s \in Seq(S)
  PROVE  \E r \in [0..Len(s) -> A] :
           /\ r[0] = a /\ \A k \in 1..Len(s) : r[k] = T[<<r[k - 1], s[k]>>]
           /\ Result(T, a, s) = r[Len(s)]
<1> DEFINE n == Len(s)
           G == [k \in 1..n |-> [x \in A |-> T[<<x, s[k]>>]]]
           Step(f, k) == IF k = 0 THEN a ELSE T[<<f[k - 1], s[k]>>]
           r == CHOOSE f : f = [k \in 0..n |-> Step(f, k)]
<1>1. n \in Nat /\ \A k \in 1..n : s[k] \in S
  BY LenProperties, ElementOfSeq
<1>2. \A k \in 1..n : \A x \in A : G[k][x] = T[<<x, s[k]>>] /\ G[k][x] \in A
  BY <1>1 DEF Turns
<1>3. PICK f \in [0..n -> A] : Folds(f, a, G, n)
  <2>1. G \in [1..n -> [A -> A]]
    BY <1>1 DEF Turns
  <2> HIDE DEF G, n
  <2> QED
    BY <1>1, <2>1, FoldExists
<1> HIDE DEF G
<1>4. ASSUME NEW k \in 0..n
      PROVE  f[k] = Step(f, k)
  <2>1. CASE k = 0
    BY <1>3, <2>1 DEF Folds
  <2>2. CASE k # 0
    <3>1. k \in 1..n /\ k - 1 \in 0..n
      BY <1>1, <2>2
    <3>2. f[k - 1] \in A /\ f[k] = G[k][f[k - 1]]
      BY <1>3, <3>1 DEF Folds
    <3> QED
      BY <1>2, <2>2, <3>1, <3>2
  <2> QED
    BY <2>1, <2>2
<1>5. f = [k \in 0..n |-> Step(f, k)]
  BY <1>3, <1>4
<1>6. r = [k \in 0..n |-> Step(r, k)]
  BY <1>5, Zenon
<1>7. Result(T, a, s) = r[n]
  BY DEF Result
<1>8. \A k \in 0..n : r[k] = Step(r, k)
  <2> HIDE DEF r, n
  <2> QED
    BY <1>6
<1> HIDE DEF r
<1>9. r[0] = f[0] /\ \A k \in 1..n : r[k - 1] = f[k - 1] => r[k] = f[k]
  <2>1. 0 \in 0..n /\ \A k \in 1..n : k \in 0..n /\ k # 0
    BY <1>1
  <2> HIDE DEF n
  <2> QED
    BY <1>4, <1>8, <2>1
<1>10. \A k \in 0..n : r[k] = f[k]
  <2>1. InStep(r, f, n)
    BY <1>9 DEF InStep
  <2> HIDE DEF n
  <2> QED
    BY <1>1, <2>1, Agree
<1>11. f[0] = a /\ \A k \in 1..n : f[k] = T[<<f[k - 1], s[k]>>]
  <2>1. 0 \in 0..n /\ \A k \in 1..n : k \in 0..n /\ k # 0
    BY <1>1
  <2> HIDE DEF n
  <2> QED
    BY <1>4, <2>1
<1>12. n \in 0..n
  BY <1>1
<1> QED
  BY <1>3, <1>7, <1>10, <1>11, <1>12

LEMMA ResultIn ==
  ASSUME NEW A, NEW S, NEW T \in Turns(A, S), NEW a \in A, NEW s \in Seq(S)
  PROVE  Result(T, a, s) \in A
<1>1. PICK r \in [0..Len(s) -> A] : Result(T, a, s) = r[Len(s)]
  BY ResultUnfolds
<1>2. Len(s) \in 0..Len(s)
  BY LenProperties
<1> QED
  BY <1>1, <1>2

\* Whatever follows the steps of the fold ends with its result.
LEMMA ResultIs ==
  ASSUME NEW A, NEW S, NEW T \in Turns(A, S), NEW a \in A, NEW s \in Seq(S), NEW f,
         f[0] = a, \A k \in 1..Len(s) : f[k - 1] \in A => f[k] = T[<<f[k - 1], s[k]>>]
  PROVE  f[Len(s)] = Result(T, a, s)
<1>1. PICK r \in [0..Len(s) -> A] :
        /\ r[0] = a /\ \A k \in 1..Len(s) : r[k] = T[<<r[k - 1], s[k]>>]
        /\ Result(T, a, s) = r[Len(s)]
  BY ResultUnfolds
<1>2. Len(s) \in Nat /\ Len(s) \in 0..Len(s)
  BY LenProperties
<1>3. ASSUME NEW k \in 1..Len(s), f[k - 1] = r[k - 1]
      PROVE  f[k] = r[k]
  <2>1. k - 1 \in 0..Len(s)
    BY <1>2
  <2>2. f[k - 1] \in A
    BY <1>1, <1>3, <2>1
  <2> QED
    BY <1>1, <1>3, <2>2
<1>4. InStep(f, r, Len(s))
  BY <1>1, <1>3 DEF InStep
<1> QED
  BY <1>1, <1>2, <1>4, Agree

LEMMA ResultEmpty ==
  ASSUME NEW A, NEW S, NEW T \in Turns(A, S), NEW a \in A
  PROVE  Result(T, a, <<>>) = a
<1>1. ASSUME NEW s \in Seq(S)
      PROVE  \E r : r[0] = a /\ Result(T, a, s) = r[Len(s)]
  <2>1. PICK r \in [0..Len(s) -> A] :
          /\ r[0] = a /\ \A k \in 1..Len(s) : r[k] = T[<<r[k - 1], s[k]>>]
          /\ Result(T, a, s) = r[Len(s)]
    BY ResultUnfolds
  <2> QED
    BY <2>1
<1>2. <<>> \in Seq(S) /\ Len(<<>>) = 0
  BY EmptySeq
<1> QED
  BY <1>1, <1>2

LEMMA ResultAppend ==
  ASSUME NEW A, NEW S, NEW T \in Turns(A, S), NEW a \in A, NEW s \in Seq(S), NEW e \in S
  PROVE  Result(T, a, Append(s, e)) = T[<<Result(T, a, s), e>>]
<1> DEFINE u == Append(s, e)
           n == Len(s)
<1>1. /\ u \in Seq(S) /\ n \in Nat /\ Len(u) = n + 1 /\ u[n + 1] = e
      /\ \A k \in 1..n : u[k] = s[k]
  BY AppendAt
<1> HIDE DEF u
<1>2. PICK r \in [0..Len(u) -> A] :
        /\ r[0] = a /\ \A k \in 1..Len(u) : r[k] = T[<<r[k - 1], u[k]>>]
        /\ Result(T, a, u) = r[Len(u)]
  BY <1>1, ResultUnfolds
<1>3. ASSUME NEW k \in 1..n
      PROVE  r[k] = T[<<r[k - 1], s[k]>>]
  <2>1. k \in 1..Len(u)
    BY <1>1
  <2> QED
    BY <1>1, <1>2, <2>1
<1>4. r[n] = Result(T, a, s)
  BY <1>2, <1>3, ResultIs
<1>5. n + 1 \in 1..Len(u) /\ (n + 1) - 1 = n
  BY <1>1
<1>6. r[n + 1] = T[<<r[n], e>>]
  BY <1>1, <1>2, <1>5
<1> QED
  BY <1>1, <1>2, <1>4, <1>6 DEF u

-----------------------------------------------------------------------------
(* Sums over a sequence. *)

Nought == 0
Weights(S) == [S -> Nat]
Weigh(w, S) == [x \in Nat \X S |-> x[1] + w[x[2]]]

\* The sum of the weights w of the elements of s.
Total(w, S, s) == Result(Weigh(w, S), Nought, s)

LEMMA TotalFacts ==
  ASSUME NEW S, NEW w \in Weights(S)
  PROVE  /\ Total(w, S, <<>>) = 0
         /\ \A s \in Seq(S) : Total(w, S, s) \in Nat
         /\ \A s \in Seq(S), e \in S : Total(w, S, Append(s, e)) = Total(w, S, s) + w[e]
<1> DEFINE T == Weigh(w, S)
           N == Nat
<1>1. T \in Turns(N, S)
  BY DEF Weigh, Weights, Turns
<1>2. Nought \in N
  BY DEF Nought
<1>3. ASSUME NEW x \in Nat, NEW e \in S
      PROVE  T[<<x, e>>] = x + w[e]
  BY DEF Weigh
<1> HIDE DEF T, N
<1>4. Result(T, Nought, <<>>) = Nought
  BY <1>1, <1>2, ResultEmpty
<1>5. \A s \in Seq(S) : Result(T, Nought, s) \in N
  BY <1>1, <1>2, ResultIn
<1>6. \A s \in Seq(S), e \in S :
        Result(T, Nought, Append(s, e)) = T[<<Result(T, Nought, s), e>>]
  BY <1>1, <1>2, ResultAppend
<1> QED
  BY <1>3, <1>4, <1>5, <1>6 DEF Total, T, N, Nought

\* The sum as a function of the prefix.
LEMMA TotalUnfolds ==
  ASSUME NEW S, NEW w \in Weights(S), NEW s \in Seq(S)
  PROVE  \E r : r = [k \in 0..Len(s) |-> IF k = 0 THEN 0 ELSE r[k - 1] + w[s[k]]]
<1> DEFINE T == Weigh(w, S)
           n == Len(s)
           N == Nat
<1>1. T \in Turns(N, S) /\ n \in Nat
  BY LenProperties DEF Weigh, Weights, Turns
<1>2. Nought \in N
  BY DEF Nought
<1>3. ASSUME NEW x \in Nat, NEW e \in S
      PROVE  T[<<x, e>>] = x + w[e]
  BY DEF Weigh
<1> HIDE DEF T, N
<1>4. PICK r \in [0..n -> N] : r[0] = Nought /\ \A k \in 1..n : r[k] = T[<<r[k - 1], s[k]>>]
  <2>1. PICK r \in [0..Len(s) -> N] :
           /\ r[0] = Nought /\ \A k \in 1..Len(s) : r[k] = T[<<r[k - 1], s[k]>>]
           /\ Result(T, Nought, s) = r[Len(s)]
    BY <1>1, <1>2, ResultUnfolds
  <2> QED
    BY <2>1
<1>5. ASSUME NEW k \in 0..n
      PROVE  r[k] = IF k = 0 THEN 0 ELSE r[k - 1] + w[s[k]]
  <2>1. CASE k = 0
    BY <1>4, <2>1 DEF Nought
  <2>2. CASE k # 0
    <3>1. k \in 1..n /\ k - 1 \in 0..n
      BY <1>1, <2>2
    <3>2. r[k - 1] \in Nat /\ s[k] \in S
      BY <1>4, <3>1, ElementOfSeq DEF N
    <3> QED
      BY <1>3, <1>4, <2>2, <3>1, <3>2
  <2> QED
    BY <2>1, <2>2
<1> QED
  BY <1>4, <1>5

LEMMA TotalIs ==
  ASSUME NEW S, NEW w \in Weights(S), NEW s \in Seq(S), NEW f,
         f[0] = 0, \A k \in 1..Len(s) : f[k] = f[k - 1] + w[s[k]]
  PROVE  f[Len(s)] = Total(w, S, s)
<1> DEFINE T == Weigh(w, S)
           N == Nat
<1>1. T \in Turns(N, S)
  BY DEF Weigh, Weights, Turns
<1>2. Nought \in N /\ f[0] = Nought
  BY DEF Nought
<1>3. ASSUME NEW x \in Nat, NEW e \in S
      PROVE  T[<<x, e>>] = x + w[e]
  BY DEF Weigh
<1> HIDE DEF T, N
<1>4. \A k \in 1..Len(s) : f[k - 1] \in N => f[k] = T[<<f[k - 1], s[k]>>]
  BY <1>3, ElementOfSeq DEF N
<1>5. f[Len(s)] = Result(T, Nought, s)
  BY <1>1, <1>2, <1>4, ResultIs
<1> QED
  BY <1>5 DEF Total, T

LEMMA TotalConcat ==
  ASSUME NEW S, NEW w \in Weights(S), NEW s \in Seq(S)
  PROVE  \A t \in Seq(S) : Total(w, S, s \o t) = Total(w, S, s) + Total(w, S, t)
<1> DEFINE T == {t \in Seq(S) : Total(w, S, s \o t) = Total(w, S, s) + Total(w, S, t)}
<1>1. <<>> \in T
  BY TotalFacts, EmptySeq, ConcatEmptySeq
<1>2. ASSUME NEW t \in Seq(S), NEW e \in S, t \in T
      PROVE  Append(t, e) \in T
  <2>1. s \o t \in Seq(S) /\ s \o Append(t, e) = Append(s \o t, e) /\ Append(t, e) \in Seq(S)
    BY ConcatAppend, AppendProperties
  <2>2. /\ Total(w, S, Append(s \o t, e)) = Total(w, S, s \o t) + w[e]
        /\ Total(w, S, Append(t, e)) = Total(w, S, t) + w[e]
        /\ Total(w, S, s) \in Nat /\ Total(w, S, t) \in Nat /\ w[e] \in Nat
    BY <2>1, TotalFacts DEF Weights
  <2>3. Total(w, S, s \o t) = Total(w, S, s) + Total(w, S, t)
    BY <1>2
  <2>4. Total(w, S, Append(s \o t, e)) = Total(w, S, s) + Total(w, S, Append(t, e))
    BY <2>2, <2>3
  <2>5. Total(w, S, s \o Append(t, e)) = Total(w, S, s) + Total(w, S, Append(t, e))
    BY <2>1, <2>4, Zenon
  <2> QED
    BY <2>1, <2>5
<1>3. Seq(S) \subseteq T
  <2> HIDE DEF T
  <2> QED
    BY <1>1, <1>2, SeqInduction
<1> QED
  BY <1>3
=============================================================================
