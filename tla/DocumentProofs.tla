--------------------------- MODULE DocumentProofs ---------------------------
(***************************************************************************)
(* Proofs about the history of a document, for every set of documents,     *)
(* every transaction limit and every bound on positions, and about its     *)
(* recovery sidecar, for every number of edits, writes, faults and         *)
(* restarts.                                                               *)
(***************************************************************************)
EXTENDS UndoHistory, Catnap, SequenceTheorems, TLAPS

-----------------------------------------------------------------------------
(* UndoHistory.  The safety properties are not inductive by themselves: that
   the saved position still names the saved document needs that positions
   along the history strictly increase from the oldest undo transaction to
   the oldest redo transaction, so that a new position is never an old one.
   Inv adds exactly that. *)

(* The invariant, over the components of a history so that it can be stated
   of the history before and after a prune:
   b the base position, u and r the undo and redo transactions,
   c the current position, n the next one, d the document. *)

Ordered(b, u, r, c, n) ==
  /\ b <= c /\ c < n
  /\ c = IF u = <<>> THEN b ELSE u[Len(u)].id
  /\ \A i \in 1..Len(u) : b < u[i].id /\ u[i].id <= c
  /\ \A i, j \in 1..Len(u) : i < j => u[i].id < u[j].id
  /\ \A i \in 1..Len(r) : c < r[i].id /\ r[i].id < n
  /\ \A i, j \in 1..Len(r) : i < j => r[j].id < r[i].id

Chain(u, r, d) ==
  /\ \A i \in 1..Len(u) :
       u[i].after = IF i = Len(u) THEN d ELSE u[i + 1].before
  /\ \A i \in 1..Len(r) :
       r[i].before = IF i = Len(r) THEN d ELSE r[i + 1].after

SavedHere(b, u, r, d, s, sd) ==
  /\ b = s => sd = IF u = <<>> THEN d ELSE u[1].before
  /\ \A i \in 1..Len(u) : u[i].id = s => u[i].after = sd
  /\ \A i \in 1..Len(r) : r[i].id = s => r[i].after = sd

Inv ==
  /\ InTypes
  /\ Ordered(baseId, undo, redo, currentId, nextId)
  /\ Chain(undo, redo, doc)
  /\ SavedHere(baseId, undo, redo, doc, savedId, savedDoc)
  /\ savedId < nextId
  /\ dirty = (unavailable \/ currentId # savedId)
  /\ ActiveRunIsNewest
  /\ WithinTransactionLimit

-----------------------------------------------------------------------------
(* Facts about the sequence operations of the history. *)

(* Appending a transaction leaves the older ones where they are. *)
LEMMA AppendFacts ==
  ASSUME NEW s \in Seq(Transaction), NEW t \in Transaction
  PROVE  /\ Append(s, t) \in Seq(Transaction)
         /\ Append(s, t) # <<>>
         /\ Len(Append(s, t)) = Len(s) + 1
         /\ \A i \in 1..Len(s) : Append(s, t)[i] = s[i]
         /\ Append(s, t)[Len(s) + 1] = t
BY AppendProperties

(* Dropping the newest transaction leaves the older ones where they are. *)
LEMMA FrontFacts ==
  ASSUME NEW s \in Seq(Transaction), s # <<>>
  PROVE  /\ Len(s) \in Nat \ {0}
         /\ Newest(s) \in Transaction
         /\ AllButNewest(s) \in Seq(Transaction)
         /\ Len(AllButNewest(s)) = Len(s) - 1
         /\ \A i \in 1..(Len(s) - 1) : AllButNewest(s)[i] = s[i]
         /\ AllButNewest(s) = <<>> <=> Len(s) = 1
<1>1. Len(s) \in Nat \ {0}
  BY EmptySeq
<1>2. \A i \in 1..Len(s) : s[i] \in Transaction
  BY ElementOfSeq
<1> DEFINE front == AllButNewest(s)
<1>3. /\ front \in Seq(Transaction)
      /\ Len(front) = IF 1 <= Len(s) - 1 THEN (Len(s) - 1) - 1 + 1 ELSE 0
      /\ \A i \in 1..((Len(s) - 1) - 1 + 1) : front[i] = s[1 + i - 1]
  <2>1. \A i \in 1..(Len(s) - 1) : s[i] \in Transaction
    BY <1>1, <1>2
  <2>2. 1 \in Int /\ Len(s) - 1 \in Int
    BY <1>1
  <2> QED
    BY <2>1, <2>2, SubSeqProperties DEF AllButNewest
<1> HIDE DEF front
<1>4. Len(front) = Len(s) - 1
  <2> DEFINE n == Len(s)
             m == Len(front)
  <2>1. n \in Nat \ {0} /\ m = IF 1 <= n - 1 THEN (n - 1) - 1 + 1 ELSE 0
    BY <1>1, <1>3
  <2> HIDE DEF n, m
  <2>2. m = n - 1
    BY <2>1
  <2> QED
    BY <2>2 DEF n, m
<1>5. \A i \in 1..(Len(s) - 1) : front[i] = s[i]
  BY <1>1, <1>3
<1>6. front = <<>> <=> Len(s) = 1
  BY <1>1, <1>3, <1>4, EmptySeq
<1> QED
  BY <1>1, <1>2, <1>3, <1>4, <1>5, <1>6 DEF Newest, front

(* What pruning a non-empty list of transactions leaves: its newest ones, at
   most as many as the policy allows, with the base moved to the position of
   the last one dropped. *)
LEMMA PruneFacts ==
  ASSUME NEW u \in Seq(Transaction), u # <<>>, Prune(u)
  PROVE  \E k \in 0..(Len(u) - 1) :
           /\ undo' \in Seq(Transaction)
           /\ undo' # <<>>
           /\ Len(undo') = Len(u) - k
           /\ Len(undo') <= MaxTransactions
           /\ \A i \in 1..(Len(u) - k) : undo'[i] = u[k + i]
           /\ baseId' = IF k = 0 THEN baseId ELSE u[k].id
<1>1. Len(u) \in Nat \ {0} /\ \A i \in 1..Len(u) : u[i] \in Transaction
  BY EmptySeq, ElementOfSeq
<1>2. PICK k \in 0..(Len(u) - 1) :
        /\ Len(u) - k <= MaxTransactions
        /\ undo' = SubSeq(u, k + 1, Len(u))
        /\ baseId' = IF k = 0 THEN baseId ELSE u[k].id
  BY DEF Prune, DropCounts
<1>3. k + 1 \in Int /\ Len(u) \in Int /\ k + 1 <= Len(u)
  BY <1>1
<1>4. \A i \in (k + 1)..Len(u) : u[i] \in Transaction
  BY <1>1
<1>5. /\ undo' \in Seq(Transaction)
      /\ Len(undo') = IF k + 1 <= Len(u) THEN Len(u) - (k + 1) + 1 ELSE 0
      /\ \A i \in 1..(Len(u) - (k + 1) + 1) : undo'[i] = u[(k + 1) + i - 1]
  BY <1>2, <1>3, <1>4, SubSeqProperties
<1>6. Len(undo') = Len(u) - k
  <2> DEFINE n == Len(u)
             m == Len(undo')
  <2>1. n \in Nat \ {0} /\ m = IF k + 1 <= n THEN n - (k + 1) + 1 ELSE 0
    BY <1>1, <1>5
  <2>2. k \in Nat /\ k + 1 <= n
    BY <1>1
  <2> HIDE DEF n, m
  <2>3. m = n - k
    BY <2>1, <2>2
  <2> QED
    BY <2>3 DEF n, m
<1>7. undo' # <<>>
  BY <1>1, <1>6, EmptySeq
<1>8. \A i \in 1..(Len(u) - k) : undo'[i] = u[k + i]
  BY <1>1, <1>5
<1> QED
  BY <1>2, <1>5, <1>6, <1>7, <1>8

-----------------------------------------------------------------------------
(* The invariant is kept. *)

(* Dropping the oldest transactions of u keeps everything the invariant says
   of a history whose undo side is u. *)
LEMMA PruneKeepsOrder ==
  ASSUME NEW u \in Seq(Transaction), u # <<>>, Prune(u), baseId \in Position,
         NEW r \in Seq(Transaction), NEW c \in Position, NEW n \in Position,
         Ordered(baseId, u, r, c, n)
  PROVE  Ordered(baseId', undo', r, c, n) /\ baseId' \in Position
<1>1. PICK k \in 0..(Len(u) - 1) :
        /\ undo' \in Seq(Transaction)
        /\ undo' # <<>>
        /\ Len(undo') = Len(u) - k
        /\ \A i \in 1..(Len(u) - k) : undo'[i] = u[k + i]
        /\ baseId' = IF k = 0 THEN baseId ELSE u[k].id
  BY PruneFacts
<1>2. Len(u) \in Nat \ {0} /\ \A i \in 1..Len(u) : u[i] \in Transaction
  BY EmptySeq, ElementOfSeq
<1>3. \A i \in 1..Len(u) : u[i].id \in Nat
  BY <1>2 DEF Transaction, Position
<1>4. baseId' \in Position
  <2>1. CASE k = 0
    BY <2>1, <1>1
  <2>2. CASE k # 0
    <3>1. k \in 1..Len(u)
      BY <2>2, <1>2
    <3> QED
      BY <3>1, <2>2, <1>1, <1>2 DEF Transaction
  <2> QED
    BY <2>1, <2>2
<1>5. baseId \in Nat /\ baseId' \in Nat /\ c \in Nat /\ n \in Nat
  BY <1>4 DEF Position
<1>6. c = u[Len(u)].id /\ undo'[Len(undo')] = u[Len(u)]
  <2>1. Len(u) - k \in 1..(Len(u) - k) /\ k + (Len(u) - k) = Len(u)
    BY <1>2
  <2> QED
    BY <2>1, <1>1 DEF Ordered
<1>7. \A i \in 1..Len(undo') : k + i \in 1..Len(u) /\ undo'[i] = u[k + i]
  BY <1>1, <1>2
<1>8. \A i \in 1..Len(undo') : baseId' < undo'[i].id /\ undo'[i].id <= c
  <2> SUFFICES ASSUME NEW i \in 1..Len(undo')
               PROVE  baseId' < undo'[i].id /\ undo'[i].id <= c
    OBVIOUS
  <2>1. k + i \in 1..Len(u) /\ undo'[i] = u[k + i]
    BY <1>7
  <2>2. undo'[i].id <= c /\ baseId < undo'[i].id
    BY <2>1 DEF Ordered
  <2>3. CASE k = 0
    BY <2>2, <2>3, <1>1
  <2>4. CASE k # 0
    <3>1. k \in 1..Len(u) /\ k < k + i
      BY <2>4, <1>2, <1>1
    <3>2. u[k].id < u[k + i].id
      BY <3>1, <2>1 DEF Ordered
    <3> QED
      BY <3>2, <2>1, <2>2, <2>4, <1>1
  <2> QED
    BY <2>3, <2>4
<1>9. \A i, j \in 1..Len(undo') : i < j => undo'[i].id < undo'[j].id
  <2> SUFFICES ASSUME NEW i \in 1..Len(undo'), NEW j \in 1..Len(undo'), i < j
               PROVE  undo'[i].id < undo'[j].id
    OBVIOUS
  <2>1. k + i \in 1..Len(u) /\ k + j \in 1..Len(u)
    BY <1>7
  <2>2. k + i < k + j
    BY <1>1
  <2>3. u[k + i].id < u[k + j].id
    BY <2>1, <2>2 DEF Ordered
  <2> QED
    BY <2>3, <1>7
<1>10. baseId' <= c
  <2>1. 1 \in 1..Len(undo') /\ undo'[1].id \in Nat
    BY <1>1, <1>2, <1>3, <1>7
  <2>2. baseId' < undo'[1].id /\ undo'[1].id <= c
    BY <2>1, <1>8
  <2> QED
    BY <2>1, <2>2, <1>5
<1>11. c < n
  BY DEF Ordered
<1>12. /\ \A i \in 1..Len(r) : c < r[i].id /\ r[i].id < n
       /\ \A i, j \in 1..Len(r) : i < j => r[j].id < r[i].id
  BY DEF Ordered
<1> QED
  BY <1>1, <1>4, <1>6, <1>8, <1>9, <1>10, <1>11, <1>12 DEF Ordered

(* What is left after a prune still links up, down to the document. *)
LEMMA PruneKeepsChain ==
  ASSUME NEW u \in Seq(Transaction), u # <<>>, Prune(u),
         NEW r, NEW d, Chain(u, r, d)
  PROVE  Chain(undo', r, d)
<1>1. PICK k \in 0..(Len(u) - 1) :
        /\ Len(undo') = Len(u) - k
        /\ \A i \in 1..(Len(u) - k) : undo'[i] = u[k + i]
  BY PruneFacts
<1>2. Len(u) \in Nat \ {0}
  BY EmptySeq
<1>3. ASSUME NEW i \in 1..Len(undo')
      PROVE  undo'[i].after = IF i = Len(undo') THEN d ELSE undo'[i + 1].before
  <2>1. k + i \in 1..Len(u) /\ undo'[i] = u[k + i]
    BY <1>1, <1>2
  <2>2. u[k + i].after = IF k + i = Len(u) THEN d ELSE u[k + i + 1].before
    BY <2>1 DEF Chain
  <2>3. CASE i = Len(undo')
    <3>1. k + i = Len(u)
      BY <2>3, <1>1, <1>2
    <3> QED
      BY <3>1, <2>1, <2>2, <2>3
  <2>4. CASE i # Len(undo')
    <3>1. k + i # Len(u) /\ i + 1 \in 1..(Len(u) - k) /\ k + (i + 1) = k + i + 1
      <4> DEFINE n == Len(u)
                 m == Len(undo')
      <4>1. /\ n \in Nat \ {0} /\ m = n - k /\ k \in 0..(n - 1)
            /\ i \in 1..m /\ i # m
        BY <2>4, <1>1, <1>2
      <4> HIDE DEF n, m
      <4>2. k + i # n /\ i + 1 \in 1..(n - k) /\ k + (i + 1) = k + i + 1
        BY <4>1
      <4> QED
        BY <4>2 DEF n
    <3>2. undo'[i + 1] = u[k + i + 1]
      BY <3>1, <1>1
    <3> QED
      BY <3>1, <3>2, <2>1, <2>2, <2>4
  <2> QED
    BY <2>3, <2>4
<1> QED
  BY <1>3 DEF Chain

(* A prune never makes the saved position name another document: where the
   base moves to a dropped transaction, it names what that one led to. *)
LEMMA PruneKeepsSaved ==
  ASSUME NEW u \in Seq(Transaction), u # <<>>, Prune(u),
         NEW r, NEW d, NEW s, NEW sd, Chain(u, r, d),
         SavedHere(baseId, u, r, d, s, sd)
  PROVE  SavedHere(baseId', undo', r, d, s, sd)
<1>1. PICK k \in 0..(Len(u) - 1) :
        /\ undo' # <<>>
        /\ Len(undo') = Len(u) - k
        /\ \A i \in 1..(Len(u) - k) : undo'[i] = u[k + i]
        /\ baseId' = IF k = 0 THEN baseId ELSE u[k].id
  BY PruneFacts
<1>2. Len(u) \in Nat \ {0}
  BY EmptySeq
<1>3. \A i \in 1..Len(undo') : undo'[i].id = s => undo'[i].after = sd
  <2> SUFFICES ASSUME NEW i \in 1..Len(undo'), undo'[i].id = s
               PROVE  undo'[i].after = sd
    OBVIOUS
  <2>1. k + i \in 1..Len(u) /\ undo'[i] = u[k + i]
    BY <1>1, <1>2
  <2> QED
    BY <2>1 DEF SavedHere
<1>4. ASSUME baseId' = s
      PROVE  sd = undo'[1].before
  <2>1. 1 \in 1..(Len(u) - k) /\ undo'[1] = u[k + 1]
    <3>1. 1 \in 1..(Len(u) - k)
      BY <1>2
    <3> QED
      BY <3>1, <1>1
  <2>2. CASE k = 0
    BY <2>1, <2>2, <1>1, <1>4 DEF SavedHere
  <2>3. CASE k # 0
    <3>1. k \in 1..Len(u) /\ k # Len(u)
      BY <2>3, <1>2
    <3>2. u[k].id = s
      BY <2>3, <1>1, <1>4
    <3>3. u[k].after = sd
      BY <3>1, <3>2 DEF SavedHere
    <3>4. u[k].after = u[k + 1].before
      BY <3>1 DEF Chain
    <3> QED
      BY <3>3, <3>4, <2>1
  <2> QED
    BY <2>2, <2>3
<1> QED
  BY <1>1, <1>3, <1>4 DEF SavedHere

(* A step that records a transaction keeps the invariant: u is the undo side
   with the recorded transaction on top, before the prune. *)
LEMMA RecordedKeepsInv ==
  ASSUME Inv,
         NEW u \in Seq(Transaction), u # <<>>, Prune(u),
         Ordered(baseId, u, <<>>, nextId, nextId + 1),
         Chain(u, <<>>, doc'),
         SavedHere(baseId, u, <<>>, doc', savedId, savedDoc),
         doc' \in Content, redo' = <<>>,
         nextId < MaxPosition, currentId' = nextId, nextId' = nextId + 1,
         activeRun' \in Runs \cup {NoRun}, RefreshDirty
  PROVE  Inv'
<1>1. /\ baseId \in Position /\ nextId \in Position /\ nextId + 1 \in Position
      /\ <<>> \in Seq(Transaction)
      /\ savedId \in Position /\ savedDoc \in Content /\ unavailable \in BOOLEAN
  BY UndoHistoryAssumption, EmptySeq DEF Inv, InTypes, Position
<1>2. /\ undo' \in Seq(Transaction)
      /\ undo' # <<>>
      /\ Len(undo') <= MaxTransactions
  BY PruneFacts
<1>3. Ordered(baseId', undo', <<>>, nextId, nextId + 1) /\ baseId' \in Position
  BY <1>1, PruneKeepsOrder
<1>4. Chain(undo', <<>>, doc')
  BY PruneKeepsChain
<1>5. SavedHere(baseId', undo', <<>>, doc', savedId, savedDoc)
  BY PruneKeepsSaved
<1>6. /\ savedId' = savedId /\ savedDoc' = savedDoc
      /\ unavailable' \in BOOLEAN
      /\ dirty' = (unavailable' \/ currentId' # savedId)
  BY <1>1 DEF RefreshDirty
<1>7. InTypes'
  BY <1>1, <1>2, <1>3, <1>6 DEF InTypes
<1>8. savedId' < nextId'
  BY <1>1, <1>6 DEF Inv, Position
<1>9. WithinTransactionLimit'
  <2>1. Len(undo') + Len(redo') = Len(undo')
    BY <1>2, EmptySeq
  <2> QED
    BY <2>1, <1>2 DEF WithinTransactionLimit
<1>10. ActiveRunIsNewest'
  BY <1>2 DEF ActiveRunIsNewest
<1> QED
  BY <1>3, <1>4, <1>5, <1>6, <1>7, <1>8, <1>9, <1>10 DEF Inv

(* A step that appends transaction t to undo side v keeps the invariant, when
   v is a history that ends in the document t starts from. *)
LEMMA AppendedKeepsInv ==
  ASSUME Inv,
         NEW v \in Seq(Transaction), NEW t \in Transaction, NEW c \in Nat,
         Ordered(baseId, v, <<>>, c, nextId),
         Chain(v, <<>>, t.before),
         SavedHere(baseId, v, <<>>, t.before, savedId, savedDoc),
         t.id = nextId, t.after = doc', Prune(Append(v, t)),
         redo' = <<>>, nextId < MaxPosition,
         currentId' = nextId, nextId' = nextId + 1,
         activeRun' \in Runs \cup {NoRun}, RefreshDirty
  PROVE  Inv'
<1> DEFINE u == Append(v, t)
<1>1. /\ Len(v) \in Nat /\ doc' \in Content
      /\ nextId \in Nat /\ baseId \in Nat /\ savedId \in Nat
  BY LenProperties DEF Inv, InTypes, Position, Transaction
<1>2. /\ u \in Seq(Transaction) /\ u # <<>>
      /\ Len(u) = Len(v) + 1
      /\ \A i \in 1..Len(v) : u[i] = v[i]
      /\ u[Len(v) + 1] = t
  BY AppendFacts
<1>3. Prune(u)
  OBVIOUS
<1> HIDE DEF u
<1>4. \A i \in 1..Len(u) : i \in 1..Len(v) \/ i = Len(v) + 1
  BY <1>1, <1>2
<1>5. \A i \in 1..Len(v) : v[i].id \in Nat
  <2>1. \A i \in 1..Len(v) : v[i] \in Transaction
    BY ElementOfSeq
  <2> QED
    BY <2>1 DEF Transaction, Position
<1>6. Len(<<>>) = 0
  BY EmptySeq
<1>7. Ordered(baseId, u, <<>>, nextId, nextId + 1)
  <2>1. baseId <= nextId /\ nextId < nextId + 1
    BY <1>1 DEF Ordered
  <2>2. nextId = u[Len(u)].id
    BY <1>2
  <2>3. \A i \in 1..Len(v) : baseId < v[i].id /\ v[i].id < nextId
    BY <1>1, <1>5 DEF Ordered
  <2>4. ASSUME NEW i \in 1..Len(u)
        PROVE  baseId < u[i].id /\ u[i].id <= nextId
    <3>1. CASE i \in 1..Len(v)
      BY <3>1, <2>3, <1>1, <1>2, <1>5
    <3>2. CASE i = Len(v) + 1
      BY <3>2, <1>1, <1>2 DEF Ordered
    <3> QED
      BY <3>1, <3>2, <1>4
  <2>5. ASSUME NEW i \in 1..Len(u), NEW j \in 1..Len(u), i < j
        PROVE  u[i].id < u[j].id
    <3>1. i \in 1..Len(v)
      BY <2>5, <1>1, <1>2
    <3>2. CASE j \in 1..Len(v)
      BY <3>1, <3>2, <2>5, <1>2 DEF Ordered
    <3>3. CASE j = Len(v) + 1
      BY <3>1, <3>3, <2>3, <1>2
    <3> QED
      BY <3>2, <3>3, <1>4
  <2> QED
    BY <2>1, <2>2, <2>4, <2>5, <1>2, <1>6 DEF Ordered
<1>8. Chain(u, <<>>, doc')
  <2>1. ASSUME NEW i \in 1..Len(u)
        PROVE  u[i].after = IF i = Len(u) THEN doc' ELSE u[i + 1].before
    <3>1. CASE i = Len(v) + 1
      BY <3>1, <1>2
    <3>2. CASE i \in 1..Len(v)
      <4>1. i # Len(u) /\ v[i].after = IF i = Len(v) THEN t.before ELSE v[i + 1].before
        BY <3>2, <1>1, <1>2 DEF Chain
      <4>2. CASE i = Len(v)
        BY <4>1, <4>2, <3>2, <1>2
      <4>3. CASE i # Len(v)
        <5>1. i + 1 \in 1..Len(v)
          BY <4>3, <3>2, <1>1
        <5> QED
          BY <5>1, <4>1, <4>3, <3>2, <1>2
      <4> QED
        BY <4>2, <4>3
    <3> QED
      BY <3>1, <3>2, <1>4
  <2> QED
    BY <2>1, <1>6 DEF Chain
<1>9. SavedHere(baseId, u, <<>>, doc', savedId, savedDoc)
  <2>1. ASSUME baseId = savedId
        PROVE  savedDoc = u[1].before
    <3>1. CASE v = <<>>
      BY <3>1, <2>1, <1>2, <1>6 DEF SavedHere
    <3>2. CASE v # <<>>
      <4>1. 1 \in 1..Len(v)
        BY <3>2, <1>1, EmptySeq
      <4> QED
        BY <4>1, <3>2, <2>1, <1>2 DEF SavedHere
    <3> QED
      BY <3>1, <3>2
  <2>2. ASSUME NEW i \in 1..Len(u), u[i].id = savedId
        PROVE  u[i].after = savedDoc
    <3>1. savedId < nextId
      BY DEF Inv
    <3>2. i \in 1..Len(v)
      BY <3>1, <2>2, <1>1, <1>2, <1>4
    <3> QED
      BY <3>2, <2>2, <1>2 DEF SavedHere
  <2> QED
    BY <2>1, <2>2, <1>2, <1>6 DEF SavedHere
<1> QED
  BY <1>1, <1>2, <1>3, <1>7, <1>8, <1>9, RecordedKeepsInv

(* Nothing the invariant says of a history is lost by forgetting redo. *)
LEMMA WithoutRedo ==
  ASSUME NEW b, NEW u, NEW r, NEW c, NEW n, NEW d, NEW s, NEW sd,
         Ordered(b, u, r, c, n), Chain(u, r, d), SavedHere(b, u, r, d, s, sd)
  PROVE  /\ Ordered(b, u, <<>>, c, n)
         /\ Chain(u, <<>>, d)
         /\ SavedHere(b, u, <<>>, d, s, sd)
<1>1. Len(<<>>) = 0
  BY EmptySeq
<1> QED
  BY <1>1 DEF Ordered, Chain, SavedHere

(* A transaction of its own. *)
LEMMA PushKeepsInv ==
  ASSUME Inv, NEW run \in Runs \cup {NoRun}, Push(run)
  PROVE  Inv'
<1> DEFINE t == [id |-> nextId, before |-> doc, after |-> doc']
<1>1. undo \in Seq(Transaction) /\ currentId \in Nat
  BY DEF Inv, InTypes, Position
<1>2. t \in Transaction /\ t.id = nextId /\ t.before = doc /\ t.after = doc'
  BY DEF Transaction, Inv, InTypes, Push
<1>3. /\ redo' = <<>> /\ currentId' = nextId
      /\ nextId' = nextId + 1 /\ activeRun' = run
      /\ Prune(Append(undo, t)) /\ RefreshDirty /\ nextId < MaxPosition
  BY DEF Push
<1> HIDE DEF t
<1>4. /\ Ordered(baseId, undo, <<>>, currentId, nextId)
      /\ Chain(undo, <<>>, doc)
      /\ SavedHere(baseId, undo, <<>>, doc, savedId, savedDoc)
  BY WithoutRedo DEF Inv
<1> QED
  BY <1>1, <1>2, <1>3, <1>4, AppendedKeepsInv

(* Moving the newest undo transaction to the redo side. *)
LEMMA MoveBack ==
  ASSUME NEW b \in Nat, NEW u \in Seq(Transaction), u # <<>>,
         NEW r \in Seq(Transaction), NEW c \in Nat, NEW n \in Nat,
         NEW d, NEW s, NEW sd,
         Ordered(b, u, r, c, n), Chain(u, r, d), SavedHere(b, u, r, d, s, sd),
         NEW p, p = IF AllButNewest(u) = <<>> THEN b ELSE Newest(AllButNewest(u)).id
  PROVE  /\ Ordered(b, AllButNewest(u), Append(r, Newest(u)), p, n)
         /\ Chain(AllButNewest(u), Append(r, Newest(u)), Newest(u).before)
         /\ SavedHere(b, AllButNewest(u), Append(r, Newest(u)),
                      Newest(u).before, s, sd)
<1> DEFINE f == AllButNewest(u)
           t == Newest(u)
           q == Append(r, t)
           k == Len(u)
           m == Len(r)
<1>1. /\ k \in Nat \ {0} /\ t \in Transaction /\ f \in Seq(Transaction)
      /\ Len(f) = k - 1
      /\ \A i \in 1..(k - 1) : f[i] = u[i]
      /\ f = <<>> <=> k = 1
  BY FrontFacts
<1>2. /\ q \in Seq(Transaction)
      /\ Len(q) = m + 1 /\ m \in Nat
      /\ \A i \in 1..m : q[i] = r[i]
      /\ q[m + 1] = t
  BY <1>1, AppendFacts, LenProperties
<1>3. t = u[k] /\ k \in 1..k
  BY <1>1 DEF Newest
<1>4. /\ \A i \in 1..k : u[i].id \in Nat
      /\ \A i \in 1..m : r[i].id \in Nat
  <2>1. (\A i \in 1..k : u[i] \in Transaction) /\ (\A i \in 1..m : r[i] \in Transaction)
    BY ElementOfSeq
  <2> QED
    BY <2>1 DEF Transaction, Position
<1>5. p = IF k = 1 THEN b ELSE u[k - 1].id
  BY <1>1 DEF Newest
<1> HIDE DEF f, t, q, k, m
<1>6. \A i \in 1..(m + 1) : i \in 1..m \/ i = m + 1
  BY <1>2
<1>7. c = t.id
  <2>1. c = u[k].id
    BY DEF Ordered, k
  <2> QED
    BY <2>1, <1>3
<1>8. /\ \A i \in 1..k : b < u[i].id /\ u[i].id <= c
      /\ \A i, j \in 1..k : i < j => u[i].id < u[j].id
      /\ \A i \in 1..m : c < r[i].id /\ r[i].id < n
      /\ \A i, j \in 1..m : i < j => r[j].id < r[i].id
      /\ c < n
  BY DEF Ordered, k, m
<1>9. b <= p /\ p < c /\ p \in Nat
  <2>1. CASE k = 1
    BY <2>1, <1>3, <1>5, <1>7, <1>8
  <2>2. CASE k # 1
    <3>1. k - 1 \in 1..k /\ k - 1 < k
      BY <2>2, <1>1
    <3>2. b < u[k - 1].id /\ u[k - 1].id < u[k].id /\ u[k - 1].id \in Nat
      BY <3>1, <1>3, <1>4, <1>8
    <3> QED
      BY <3>2, <2>2, <1>3, <1>5, <1>7
  <2> QED
    BY <2>1, <2>2
<1>10. Ordered(b, f, q, p, n)
  <2>1. b <= p /\ p < n
    BY <1>8, <1>9
  <2>2. p = IF f = <<>> THEN b ELSE f[Len(f)].id
    <3>1. CASE k = 1
      BY <3>1, <1>1, <1>5
    <3>2. CASE k # 1
      <4>1. k - 1 \in 1..(k - 1)
        BY <3>2, <1>1
      <4> QED
        BY <4>1, <3>2, <1>1, <1>5
    <3> QED
      BY <3>1, <3>2
  <2>3. ASSUME NEW i \in 1..Len(f)
        PROVE  b < f[i].id /\ f[i].id <= p
    <3>1. i \in 1..k /\ f[i] = u[i] /\ k # 1 /\ k - 1 \in 1..k
      BY <1>1
    <3>2. i = k - 1 \/ i < k - 1
      BY <1>1
    <3>3. u[i].id <= u[k - 1].id
      <4>1. CASE i = k - 1
        BY <4>1, <3>1, <1>4
      <4>2. CASE i < k - 1
        <5>1. u[i].id < u[k - 1].id
          BY <4>2, <3>1, <1>8
        <5> QED
          BY <5>1, <3>1, <1>4
      <4> QED
        BY <3>2, <4>1, <4>2
    <3> QED
      BY <3>1, <3>3, <1>5, <1>8
  <2>4. ASSUME NEW i \in 1..Len(f), NEW j \in 1..Len(f), i < j
        PROVE  f[i].id < f[j].id
    <3>1. i \in 1..k /\ j \in 1..k /\ f[i] = u[i] /\ f[j] = u[j]
      BY <1>1
    <3> QED
      BY <3>1, <2>4, <1>8
  <2>5. ASSUME NEW i \in 1..Len(q)
        PROVE  p < q[i].id /\ q[i].id < n
    <3>1. CASE i \in 1..m
      <4>1. c < r[i].id /\ r[i].id < n /\ r[i].id \in Nat
        BY <3>1, <1>4, <1>8
      <4> QED
        BY <4>1, <3>1, <1>2, <1>9
    <3>2. CASE i = m + 1
      BY <3>2, <1>2, <1>7, <1>8, <1>9
    <3> QED
      BY <3>1, <3>2, <1>2, <1>6
  <2>6. ASSUME NEW i \in 1..Len(q), NEW j \in 1..Len(q), i < j
        PROVE  q[j].id < q[i].id
    <3>1. i \in 1..m
      BY <2>6, <1>2
    <3>2. CASE j \in 1..m
      BY <3>1, <3>2, <2>6, <1>2, <1>8
    <3>3. CASE j = m + 1
      BY <3>1, <3>3, <1>2, <1>7, <1>8
    <3> QED
      BY <3>2, <3>3, <1>2, <1>6
  <2> QED
    BY <2>1, <2>2, <2>3, <2>4, <2>5, <2>6 DEF Ordered
<1>11. Chain(f, q, t.before)
  <2>1. ASSUME NEW i \in 1..Len(f)
        PROVE  f[i].after = IF i = Len(f) THEN t.before ELSE f[i + 1].before
    <3>1. i \in 1..k /\ i # k /\ i + 1 \in 1..k /\ f[i] = u[i]
      BY <1>1
    <3>2. u[i].after = u[i + 1].before
      BY <3>1 DEF Chain, k
    <3>3. CASE i = Len(f)
      <4>1. i + 1 = k
        BY <3>3, <1>1
      <4> QED
        BY <4>1, <3>1, <3>2, <3>3, <1>3
    <3>4. CASE i # Len(f)
      <4>1. i + 1 \in 1..(k - 1)
        BY <3>4, <1>1
      <4> QED
        BY <4>1, <3>1, <3>2, <3>4, <1>1
    <3> QED
      BY <3>3, <3>4
  <2>2. t.after = d
    <3>1. u[k].after = d
      BY <1>3 DEF Chain, k
    <3> QED
      BY <3>1, <1>3
  <2>3. ASSUME NEW i \in 1..Len(q)
        PROVE  q[i].before = IF i = Len(q) THEN t.before ELSE q[i + 1].after
    <3>1. CASE i = m + 1
      BY <3>1, <1>2
    <3>2. CASE i \in 1..m
      <4>1. i # Len(q) /\ r[i].before = IF i = m THEN d ELSE r[i + 1].after
        BY <3>2, <1>2 DEF Chain, m
      <4>2. CASE i = m
        BY <4>1, <4>2, <3>2, <2>2, <1>2
      <4>3. CASE i # m
        <5>1. i + 1 \in 1..m
          BY <4>3, <3>2, <1>2
        <5> QED
          BY <5>1, <4>1, <4>3, <3>2, <1>2
      <4> QED
        BY <4>2, <4>3
    <3> QED
      BY <3>1, <3>2, <1>2, <1>6
  <2> QED
    BY <2>1, <2>3 DEF Chain
<1>12. SavedHere(b, f, q, t.before, s, sd)
  <2>1. /\ b = s => sd = u[1].before
        /\ \A i \in 1..k : u[i].id = s => u[i].after = sd
        /\ \A i \in 1..m : r[i].id = s => r[i].after = sd
    BY DEF SavedHere, k, m
  <2>2. ASSUME b = s
        PROVE  sd = IF f = <<>> THEN t.before ELSE f[1].before
    <3>1. CASE k = 1
      BY <3>1, <2>1, <2>2, <1>1, <1>3
    <3>2. CASE k # 1
      <4>1. 1 \in 1..(k - 1)
        BY <3>2, <1>1
      <4> QED
        BY <4>1, <3>2, <2>1, <2>2, <1>1
    <3> QED
      BY <3>1, <3>2
  <2>3. ASSUME NEW i \in 1..Len(f), f[i].id = s
        PROVE  f[i].after = sd
    <3>1. i \in 1..k /\ f[i] = u[i]
      BY <1>1
    <3> QED
      BY <3>1, <2>1, <2>3
  <2>4. ASSUME NEW i \in 1..Len(q), q[i].id = s
        PROVE  q[i].after = sd
    <3>1. CASE i \in 1..m
      BY <3>1, <2>1, <2>4, <1>2
    <3>2. CASE i = m + 1
      BY <3>2, <2>1, <2>4, <1>2, <1>3
    <3> QED
      BY <3>1, <3>2, <1>2, <1>6
  <2> QED
    BY <2>2, <2>3, <2>4 DEF SavedHere
<1> QED
  BY <1>10, <1>11, <1>12 DEF f, q, t

(* Moving the newest redo transaction to the undo side. *)
LEMMA MoveForward ==
  ASSUME NEW b \in Nat, NEW u \in Seq(Transaction),
         NEW r \in Seq(Transaction), r # <<>>, NEW c \in Nat, NEW n \in Nat,
         NEW d, NEW s, NEW sd,
         Ordered(b, u, r, c, n), Chain(u, r, d), SavedHere(b, u, r, d, s, sd)
  PROVE  /\ Ordered(b, Append(u, Newest(r)), AllButNewest(r), Newest(r).id, n)
         /\ Chain(Append(u, Newest(r)), AllButNewest(r), Newest(r).after)
         /\ SavedHere(b, Append(u, Newest(r)), AllButNewest(r),
                      Newest(r).after, s, sd)
<1> DEFINE f == AllButNewest(r)
           t == Newest(r)
           q == Append(u, t)
           k == Len(u)
           m == Len(r)
<1>1. /\ m \in Nat \ {0} /\ t \in Transaction /\ f \in Seq(Transaction)
      /\ Len(f) = m - 1
      /\ \A i \in 1..(m - 1) : f[i] = r[i]
  BY FrontFacts
<1>2. /\ q \in Seq(Transaction) /\ q # <<>>
      /\ Len(q) = k + 1 /\ k \in Nat
      /\ \A i \in 1..k : q[i] = u[i]
      /\ q[k + 1] = t
  BY <1>1, AppendFacts, LenProperties
<1>3. t = r[m] /\ m \in 1..m
  BY <1>1 DEF Newest
<1>4. /\ \A i \in 1..k : u[i].id \in Nat
      /\ \A i \in 1..m : r[i].id \in Nat
  <2>1. (\A i \in 1..k : u[i] \in Transaction) /\ (\A i \in 1..m : r[i] \in Transaction)
    BY ElementOfSeq
  <2> QED
    BY <2>1 DEF Transaction, Position
<1>5. u = <<>> <=> k = 0
  BY <1>2, EmptySeq
<1> HIDE DEF f, t, q, k, m
<1>6. \A i \in 1..(k + 1) : i \in 1..k \/ i = k + 1
  BY <1>2
<1>7. /\ \A i \in 1..k : b < u[i].id /\ u[i].id <= c
      /\ \A i, j \in 1..k : i < j => u[i].id < u[j].id
      /\ \A i \in 1..m : c < r[i].id /\ r[i].id < n
      /\ \A i, j \in 1..m : i < j => r[j].id < r[i].id
      /\ b <= c
  BY DEF Ordered, k, m
<1>8. c < t.id /\ t.id < n /\ t.id \in Nat
  BY <1>3, <1>4, <1>7
<1>9. Ordered(b, q, f, t.id, n)
  <2>1. b <= t.id /\ b < t.id /\ t.id < n
    BY <1>7, <1>8
  <2>2. t.id = q[Len(q)].id
    BY <1>2
  <2>3. ASSUME NEW i \in 1..Len(q)
        PROVE  b < q[i].id /\ q[i].id <= t.id
    <3>1. CASE i \in 1..k
      <4>1. b < u[i].id /\ u[i].id <= c /\ u[i].id \in Nat
        BY <3>1, <1>4, <1>7
      <4> QED
        BY <4>1, <3>1, <1>2, <1>8
    <3>2. CASE i = k + 1
      BY <3>2, <2>1, <1>2, <1>8
    <3> QED
      BY <3>1, <3>2, <1>2, <1>6
  <2>4. ASSUME NEW i \in 1..Len(q), NEW j \in 1..Len(q), i < j
        PROVE  q[i].id < q[j].id
    <3>1. i \in 1..k
      BY <2>4, <1>2
    <3>2. CASE j \in 1..k
      BY <3>1, <3>2, <2>4, <1>2, <1>7
    <3>3. CASE j = k + 1
      <4>1. u[i].id <= c /\ u[i].id \in Nat
        BY <3>1, <1>4, <1>7
      <4> QED
        BY <4>1, <3>1, <3>3, <1>2, <1>8
    <3> QED
      BY <3>2, <3>3, <1>2, <1>6
  <2>5. ASSUME NEW i \in 1..Len(f)
        PROVE  t.id < f[i].id /\ f[i].id < n
    <3>1. i \in 1..m /\ i < m /\ f[i] = r[i]
      BY <1>1
    <3> QED
      BY <3>1, <1>3, <1>7
  <2>6. ASSUME NEW i \in 1..Len(f), NEW j \in 1..Len(f), i < j
        PROVE  f[j].id < f[i].id
    <3>1. i \in 1..m /\ j \in 1..m /\ f[i] = r[i] /\ f[j] = r[j]
      BY <1>1
    <3> QED
      BY <3>1, <2>6, <1>7
  <2> QED
    BY <2>1, <2>2, <2>3, <2>4, <2>5, <2>6, <1>2 DEF Ordered
<1>10. Chain(q, f, t.after)
  <2>1. t.before = d
    <3>1. r[m].before = d
      BY <1>3 DEF Chain, m
    <3> QED
      BY <3>1, <1>3
  <2>2. ASSUME NEW i \in 1..Len(q)
        PROVE  q[i].after = IF i = Len(q) THEN t.after ELSE q[i + 1].before
    <3>1. CASE i = k + 1
      BY <3>1, <1>2
    <3>2. CASE i \in 1..k
      <4>1. i # Len(q) /\ u[i].after = IF i = k THEN d ELSE u[i + 1].before
        BY <3>2, <1>2 DEF Chain, k
      <4>2. CASE i = k
        BY <4>1, <4>2, <3>2, <2>1, <1>2
      <4>3. CASE i # k
        <5>1. i + 1 \in 1..k
          BY <4>3, <3>2, <1>2
        <5> QED
          BY <5>1, <4>1, <4>3, <3>2, <1>2
      <4> QED
        BY <4>2, <4>3
    <3> QED
      BY <3>1, <3>2, <1>2, <1>6
  <2>3. ASSUME NEW i \in 1..Len(f)
        PROVE  f[i].before = IF i = Len(f) THEN t.after ELSE f[i + 1].after
    <3>1. i \in 1..m /\ i # m /\ i + 1 \in 1..m /\ f[i] = r[i]
      BY <1>1
    <3>2. r[i].before = r[i + 1].after
      BY <3>1 DEF Chain, m
    <3>3. CASE i = Len(f)
      <4>1. i + 1 = m
        BY <3>3, <1>1
      <4> QED
        BY <4>1, <3>1, <3>2, <3>3, <1>3
    <3>4. CASE i # Len(f)
      <4>1. i + 1 \in 1..(m - 1)
        BY <3>4, <1>1
      <4> QED
        BY <4>1, <3>1, <3>2, <3>4, <1>1
    <3> QED
      BY <3>3, <3>4
  <2> QED
    BY <2>2, <2>3 DEF Chain
<1>11. SavedHere(b, q, f, t.after, s, sd)
  <2>1. /\ b = s => sd = IF u = <<>> THEN d ELSE u[1].before
        /\ \A i \in 1..k : u[i].id = s => u[i].after = sd
        /\ \A i \in 1..m : r[i].id = s => r[i].after = sd
    BY DEF SavedHere, k, m
  <2>2. ASSUME b = s
        PROVE  sd = q[1].before
    <3>1. CASE k = 0
      <4>1. r[m].before = d
        BY <1>3 DEF Chain, m
      <4> QED
        BY <4>1, <3>1, <2>1, <2>2, <1>2, <1>3, <1>5
    <3>2. CASE k # 0
      <4>1. 1 \in 1..k
        BY <3>2, <1>2
      <4> QED
        BY <4>1, <3>2, <2>1, <2>2, <1>2, <1>5
    <3> QED
      BY <3>1, <3>2
  <2>3. ASSUME NEW i \in 1..Len(q), q[i].id = s
        PROVE  q[i].after = sd
    <3>1. CASE i \in 1..k
      BY <3>1, <2>1, <2>3, <1>2
    <3>2. CASE i = k + 1
      BY <3>2, <2>1, <2>3, <1>2, <1>3
    <3> QED
      BY <3>1, <3>2, <1>2, <1>6
  <2>4. ASSUME NEW i \in 1..Len(f), f[i].id = s
        PROVE  f[i].after = sd
    <3>1. i \in 1..m /\ f[i] = r[i]
      BY <1>1
    <3> QED
      BY <3>1, <2>1, <2>4
  <2> QED
    BY <2>2, <2>3, <2>4, <1>2 DEF SavedHere
<1> QED
  BY <1>9, <1>10, <1>11 DEF f, q, t

(* A run that goes on. *)
LEMMA ExtendKeepsInv ==
  ASSUME Inv, NEW run \in Runs, ExtendRun(run)
  PROVE  Inv'
<1> DEFINE v == AllButNewest(undo)
           t == [id |-> nextId, before |-> Newest(undo).before, after |-> doc']
           p == IF v = <<>> THEN baseId ELSE Newest(v).id
<1>1. /\ undo \in Seq(Transaction) /\ undo # <<>> /\ redo \in Seq(Transaction)
      /\ currentId \in Nat /\ baseId \in Nat /\ nextId \in Nat
      /\ nextId \in Position
  BY DEF Inv, InTypes, Position, ExtendRun
<1>2. Newest(undo) \in Transaction /\ v \in Seq(Transaction)
  BY <1>1, FrontFacts
<1>3. /\ t \in Transaction /\ t.id = nextId
      /\ t.before = Newest(undo).before /\ t.after = doc'
  BY <1>1, <1>2 DEF Transaction, ExtendRun
<1>4. redo = <<>>
  BY DEF Inv, ActiveRunIsNewest, ExtendRun, Runs, NoRun
<1>5. /\ redo' = <<>> /\ currentId' = nextId
      /\ nextId' = nextId + 1 /\ activeRun' \in Runs \cup {NoRun}
      /\ Prune(Append(v, t)) /\ RefreshDirty /\ nextId < MaxPosition
  BY <1>4 DEF ExtendRun
<1>6. /\ Ordered(baseId, undo, redo, currentId, nextId)
      /\ Chain(undo, redo, doc)
      /\ SavedHere(baseId, undo, redo, doc, savedId, savedDoc)
  BY DEF Inv
<1>7. /\ Ordered(baseId, v, Append(redo, Newest(undo)), p, nextId)
      /\ Chain(v, Append(redo, Newest(undo)), t.before)
      /\ SavedHere(baseId, v, Append(redo, Newest(undo)), t.before, savedId, savedDoc)
  BY <1>1, <1>6, MoveBack
<1>8. p \in Nat
  <2>1. CASE v = <<>>
    BY <2>1, <1>1
  <2>2. CASE v # <<>>
    <3>1. Newest(v) \in Transaction
      BY <2>2, <1>2, FrontFacts
    <3> QED
      BY <3>1, <2>2 DEF Transaction, Position
  <2> QED
    BY <2>1, <2>2
<1> HIDE DEF v, t, p
<1>9. /\ Ordered(baseId, v, <<>>, p, nextId)
      /\ Chain(v, <<>>, t.before)
      /\ SavedHere(baseId, v, <<>>, t.before, savedId, savedDoc)
  BY <1>7, WithoutRedo
<1> QED
  BY <1>2, <1>3, <1>5, <1>8, <1>9, AppendedKeepsInv

(* Undo. *)
LEMMA UndoKeepsInv == Inv /\ Undo => Inv'
<1> SUFFICES ASSUME Inv, Undo
             PROVE  Inv'
  OBVIOUS
<1> DEFINE t == Newest(undo)
           v == AllButNewest(undo)
           q == Append(redo, t)
<1>1. /\ undo \in Seq(Transaction) /\ undo # <<>> /\ redo \in Seq(Transaction)
      /\ currentId \in Nat /\ baseId \in Nat /\ nextId \in Nat
  BY DEF Inv, InTypes, Position, Undo
<1>2. /\ Len(undo) \in Nat \ {0} /\ t \in Transaction
      /\ v \in Seq(Transaction) /\ Len(v) = Len(undo) - 1
  BY <1>1, FrontFacts
<1>3. q \in Seq(Transaction) /\ Len(q) = Len(redo) + 1 /\ Len(redo) \in Nat
  BY <1>1, <1>2, AppendFacts, LenProperties
<1>4. /\ undo' = v /\ redo' = q /\ doc' = t.before /\ activeRun' = NoRun
      /\ currentId' = IF v = <<>> THEN baseId ELSE Newest(v).id
      /\ baseId' = baseId /\ nextId' = nextId
  BY DEF Undo
<1>5. /\ savedId' = savedId /\ savedDoc' = savedDoc
      /\ unavailable' \in BOOLEAN
      /\ dirty' = (unavailable' \/ currentId' # savedId)
  BY DEF Undo, RefreshDirty, Inv, InTypes
<1>6. /\ Ordered(baseId, undo, redo, currentId, nextId)
      /\ Chain(undo, redo, doc)
      /\ SavedHere(baseId, undo, redo, doc, savedId, savedDoc)
  BY DEF Inv
<1>7. /\ Ordered(baseId, v, q, currentId', nextId)
      /\ Chain(v, q, t.before)
      /\ SavedHere(baseId, v, q, t.before, savedId, savedDoc)
  BY <1>1, <1>4, <1>6, MoveBack
<1>8. currentId' \in Position
  <2>1. CASE v = <<>>
    BY <2>1, <1>4 DEF Inv, InTypes
  <2>2. CASE v # <<>>
    <3>1. Newest(v) \in Transaction
      BY <2>2, <1>2, FrontFacts
    <3> QED
      BY <3>1, <2>2, <1>4 DEF Transaction
  <2> QED
    BY <2>1, <2>2
<1>9. Len(v) + Len(q) <= MaxTransactions
  <2>1. Len(undo) + Len(redo) <= MaxTransactions
    BY DEF Inv, WithinTransactionLimit
  <2>2. Len(v) + Len(q) = Len(undo) + Len(redo)
    BY <1>2, <1>3
  <2> QED
    BY <2>1, <2>2
<1> HIDE DEF t, v, q
<1>10. t.before \in Content
  BY <1>2 DEF Transaction
<1>11. InTypes'
  BY <1>2, <1>3, <1>4, <1>5, <1>8, <1>10 DEF Inv, InTypes
<1> QED
  BY <1>4, <1>5, <1>7, <1>9, <1>11
  DEF Inv, WithinTransactionLimit, ActiveRunIsNewest

(* Redo. *)
LEMMA RedoKeepsInv == Inv /\ Redo => Inv'
<1> SUFFICES ASSUME Inv, Redo
             PROVE  Inv'
  OBVIOUS
<1> DEFINE t == Newest(redo)
           v == AllButNewest(redo)
           q == Append(undo, t)
<1>1. /\ undo \in Seq(Transaction) /\ redo \in Seq(Transaction) /\ redo # <<>>
      /\ currentId \in Nat /\ baseId \in Nat /\ nextId \in Nat
  BY DEF Inv, InTypes, Position, Redo
<1>2. /\ Len(redo) \in Nat \ {0} /\ t \in Transaction
      /\ v \in Seq(Transaction) /\ Len(v) = Len(redo) - 1
  BY <1>1, FrontFacts
<1>3. q \in Seq(Transaction) /\ Len(q) = Len(undo) + 1 /\ Len(undo) \in Nat
  BY <1>1, <1>2, AppendFacts, LenProperties
<1>4. /\ undo' = q /\ redo' = v /\ doc' = t.after /\ activeRun' = NoRun
      /\ currentId' = t.id /\ baseId' = baseId /\ nextId' = nextId
  BY DEF Redo
<1>5. /\ savedId' = savedId /\ savedDoc' = savedDoc
      /\ unavailable' \in BOOLEAN
      /\ dirty' = (unavailable' \/ currentId' # savedId)
  BY DEF Redo, RefreshDirty, Inv, InTypes
<1>6. /\ Ordered(baseId, undo, redo, currentId, nextId)
      /\ Chain(undo, redo, doc)
      /\ SavedHere(baseId, undo, redo, doc, savedId, savedDoc)
  BY DEF Inv
<1>7. /\ Ordered(baseId, q, v, t.id, nextId)
      /\ Chain(q, v, t.after)
      /\ SavedHere(baseId, q, v, t.after, savedId, savedDoc)
  BY <1>1, <1>6, MoveForward
<1>8. Len(q) + Len(v) <= MaxTransactions
  <2>1. Len(undo) + Len(redo) <= MaxTransactions
    BY DEF Inv, WithinTransactionLimit
  <2>2. Len(q) + Len(v) = Len(undo) + Len(redo)
    BY <1>2, <1>3
  <2> QED
    BY <2>1, <2>2
<1> HIDE DEF t, v, q
<1>9. t.after \in Content /\ t.id \in Position
  BY <1>2 DEF Transaction
<1>10. InTypes'
  BY <1>2, <1>3, <1>4, <1>5, <1>9 DEF Inv, InTypes
<1> QED
  BY <1>4, <1>5, <1>7, <1>8, <1>10
  DEF Inv, WithinTransactionLimit, ActiveRunIsNewest

(* A history without transactions. *)
LEMMA EmptyHistory ==
  ASSUME NEW d
  PROVE  /\ Ordered(0, <<>>, <<>>, 0, 1)
         /\ Chain(<<>>, <<>>, d)
         /\ SavedHere(0, <<>>, <<>>, d, 0, d)
<1>1. Len(<<>>) = 0
  BY EmptySeq
<1> QED
  BY <1>1 DEF Ordered, Chain, SavedHere

(* A freshly opened buffer. *)
LEMMA InitInv == Init => Inv
<1> SUFFICES ASSUME Init
             PROVE  Inv
  OBVIOUS
<1>1. InTypes
  BY UndoHistoryAssumption, EmptySeq DEF Init, InTypes, Position
<1>2. WithinTransactionLimit
  <2>1. Len(undo) = 0 /\ Len(redo) = 0
    BY EmptySeq DEF Init
  <2> QED
    BY <2>1, UndoHistoryAssumption DEF WithinTransactionLimit
<1> QED
  BY <1>1, <1>2, EmptyHistory DEF Init, Inv, ActiveRunIsNewest

(* A reload starts over with an empty history. *)
LEMMA ReloadKeepsInv == ASSUME Reload PROVE Inv'
<1>1. InTypes'
  <2>1. <<>> \in Seq(Transaction) /\ 0 \in Position /\ 1 \in Position
    BY UndoHistoryAssumption, EmptySeq DEF Position
  <2> QED
    BY <2>1 DEF Reload, InTypes
<1>2. WithinTransactionLimit'
  <2>1. Len(undo') = 0 /\ Len(redo') = 0
    BY EmptySeq DEF Reload
  <2> QED
    BY <2>1, UndoHistoryAssumption DEF WithinTransactionLimit
<1>3. /\ Ordered(baseId', undo', redo', currentId', nextId')
      /\ Chain(undo', redo', doc')
      /\ SavedHere(baseId', undo', redo', doc', savedId', savedDoc')
  BY EmptyHistory DEF Reload
<1>4. savedId' < nextId' /\ ActiveRunIsNewest'
  BY DEF Reload, ActiveRunIsNewest
<1>5. dirty' = (unavailable' \/ currentId' # savedId')
  BY Zenon DEF Reload
<1> QED
  BY <1>1, <1>2, <1>3, <1>4, <1>5 DEF Inv

(* A save makes the present position the saved one. *)
LEMMA SaveKeepsInv == Inv /\ Save => Inv'
<1> SUFFICES ASSUME Inv, Save
             PROVE  Inv'
  OBVIOUS
<1>1. /\ currentId \in Nat /\ undo \in Seq(Transaction) /\ redo \in Seq(Transaction)
  BY DEF Inv, InTypes, Position
<1>2. Ordered(baseId, undo, redo, currentId, nextId) /\ Chain(undo, redo, doc)
  BY DEF Inv
<1>3. SavedHere(baseId, undo, redo, doc, currentId, doc)
  <2>1. \A i \in 1..Len(undo) : undo[i].id = currentId => undo[i].after = doc
    <3> SUFFICES ASSUME NEW i \in 1..Len(undo), undo[i].id = currentId
                 PROVE  undo[i].after = doc
      OBVIOUS
    <3>1. Len(undo) \in Nat \ {0} /\ Len(undo) \in 1..Len(undo) /\ undo # <<>>
      BY <1>1, EmptySeq
    <3>2. currentId = undo[Len(undo)].id
      BY <3>1, <1>2 DEF Ordered
    <3>3. ~ (i < Len(undo))
      BY <3>1, <3>2, <1>1, <1>2 DEF Ordered
    <3>4. i = Len(undo)
      BY <3>1, <3>3
    <3> QED
      BY <3>4, <1>2 DEF Chain
  <2>2. \A i \in 1..Len(redo) : redo[i].id # currentId
    BY <1>1, <1>2 DEF Ordered
  <2>3. ASSUME baseId = currentId
        PROVE  undo = <<>>
    <3> SUFFICES ASSUME undo # <<>>
                 PROVE  FALSE
      OBVIOUS
    <3>1. Len(undo) \in Nat \ {0} /\ Len(undo) \in 1..Len(undo)
      BY <1>1, EmptySeq
    <3>2. currentId = undo[Len(undo)].id /\ baseId < undo[Len(undo)].id
      BY <3>1, <1>2 DEF Ordered
    <3> QED
      BY <3>2, <2>3, <1>1
  <2> QED
    BY <2>1, <2>2, <2>3 DEF SavedHere
<1>4. currentId < nextId
  BY <1>2 DEF Ordered
<1>5. InTypes'
  BY DEF Save, Inv, InTypes
<1> QED
  BY <1>2, <1>3, <1>4, <1>5
  DEF Save, Inv, WithinTransactionLimit, ActiveRunIsNewest

(* Every step keeps the invariant. *)
LEMMA NextKeepsInv == Inv /\ [Next]_vars => Inv'
<1> SUFFICES ASSUME Inv, [Next]_vars
             PROVE  Inv'
  OBVIOUS
<1>1. CASE Record
  BY <1>1, PushKeepsInv DEF Record
<1>2. ASSUME NEW run \in Runs, RecordRun(run)
      PROVE  Inv'
  BY <1>2, PushKeepsInv DEF RecordRun
<1>3. ASSUME NEW run \in Runs, ExtendRun(run)
      PROVE  Inv'
  BY <1>3, ExtendKeepsInv
<1>4. CASE Reload
  BY <1>4, ReloadKeepsInv
<1>5. CASE FinishRun
  BY <1>5 DEF FinishRun, Inv, InTypes, WithinTransactionLimit, ActiveRunIsNewest, file
<1>6. CASE Undo
  BY <1>6, UndoKeepsInv
<1>7. CASE Redo
  BY <1>7, RedoKeepsInv
<1>8. CASE Save
  BY <1>8, SaveKeepsInv
<1>9. CASE UNCHANGED vars
  BY <1>9 DEF vars, history, file, Inv, InTypes, WithinTransactionLimit, ActiveRunIsNewest
<1> QED
  BY <1>1, <1>2, <1>3, <1>4, <1>5, <1>6, <1>7, <1>8, <1>9 DEF Next

(* What the invariant gives. *)
LEMMA InvGives ==
  Inv => CleanIsSaved /\ SavedPositionHoldsSavedDoc /\ HistoryIsAChain
<1> SUFFICES ASSUME Inv
             PROVE  CleanIsSaved /\ SavedPositionHoldsSavedDoc /\ HistoryIsAChain
  OBVIOUS
<1>1. HistoryIsAChain
  BY DEF Inv, Chain, HistoryIsAChain
<1>2. SavedPositionHoldsSavedDoc
  <2>1. SavedHere(baseId, undo, redo, doc, savedId, savedDoc)
    BY DEF Inv
  <2>2. undo \in Seq(Transaction)
    BY DEF Inv, InTypes
  <2>3. ASSUME NEW i \in 1..Len(undo), i = 1, baseId = savedId
        PROVE  undo[i].before = savedDoc
    <3>1. undo # <<>>
      BY <2>3, EmptySeq
    <3> QED
      BY <3>1, <2>1, <2>3 DEF SavedHere
  <2> QED
    BY <2>1, <2>3 DEF SavedHere, SavedPositionHoldsSavedDoc
<1>3. CleanIsSaved
  <2> SUFFICES ASSUME ~dirty
               PROVE  doc = savedDoc
    BY DEF CleanIsSaved
  <2>1. /\ currentId = savedId
        /\ SavedHere(baseId, undo, redo, doc, savedId, savedDoc)
        /\ Chain(undo, redo, doc)
        /\ currentId = IF undo = <<>> THEN baseId ELSE undo[Len(undo)].id
        /\ undo \in Seq(Transaction)
    BY DEF Inv, Ordered, InTypes
  <2>2. CASE undo = <<>>
    BY <2>1, <2>2 DEF SavedHere
  <2>3. CASE undo # <<>>
    <3>1. Len(undo) \in 1..Len(undo)
      BY <2>1, <2>3, EmptySeq
    <3> QED
      BY <3>1, <2>1, <2>3 DEF SavedHere, Chain
  <2> QED
    BY <2>2, <2>3
<1> QED
  BY <1>1, <1>2, <1>3

-----------------------------------------------------------------------------
(* The theorems. *)

(* The variables keep their types. *)
THEOREM TypeCorrect == Spec => []TypeOK
<1>1. Inv => TypeOK
  <2> SUFFICES ASSUME Inv PROVE TypeOK
    OBVIOUS
  <2>1. InTypes
    BY DEF Inv
  <2>2. {baseId, currentId, nextId, savedId} \subseteq Nat
    BY <2>1 DEF InTypes, Position
  <2>3. baseId <= currentId /\ currentId < nextId /\ savedId < nextId
    BY DEF Inv, Ordered
  <2> QED
    BY <2>1, <2>2, <2>3 DEF TypeOK
<1> QED
  BY InitInv, NextKeepsInv, <1>1, PTL DEF Spec

(* A buffer that is shown as clean holds the document last opened or saved,
   for every history of edits, runs, prunes, undos, redos, saves, reloads. *)
THEOREM CleanBufferIsSaved == Spec => []CleanIsSaved
BY InitInv, NextKeepsInv, InvGives, PTL DEF Spec

(* The saved position, while it is retained, names the saved document. *)
THEOREM SavedPositionNamesSavedDoc == Spec => []SavedPositionHoldsSavedDoc
BY InitInv, NextKeepsInv, InvGives, PTL DEF Spec

(* Undo and redo are each other's inverse along the whole history. *)
THEOREM HistoryAlwaysAChain == Spec => []HistoryIsAChain
BY InitInv, NextKeepsInv, InvGives, PTL DEF Spec

(* The transaction limit holds with undo and redo taken together. *)
THEOREM AlwaysWithinLimit == Spec => []WithinTransactionLimit
<1>1. Inv => WithinTransactionLimit
  BY DEF Inv
<1> QED
  BY InitInv, NextKeepsInv, <1>1, PTL DEF Spec

(* The active run always has a newest transaction to extend. *)
THEOREM ActiveRunAlwaysNewest == Spec => []ActiveRunIsNewest
<1>1. Inv => ActiveRunIsNewest
  BY DEF Inv
<1> QED
  BY InitInv, NextKeepsInv, <1>1, PTL DEF Spec

-----------------------------------------------------------------------------
(* No position returns. *)

(* A prune only removes positions. *)
LEMMA PruneLosesPositions ==
  ASSUME NEW u \in Seq(Transaction), u # <<>>, Prune(u), NEW r
  PROVE  Retained(baseId', undo', r) \subseteq Retained(baseId, u, r)
<1>1. PICK k \in 0..(Len(u) - 1) :
        /\ Len(undo') = Len(u) - k
        /\ \A i \in 1..(Len(u) - k) : undo'[i] = u[k + i]
        /\ baseId' = IF k = 0 THEN baseId ELSE u[k].id
  BY PruneFacts
<1>2. Len(u) \in Nat \ {0}
  BY EmptySeq
<1>3. \A i \in 1..Len(undo') : k + i \in 1..Len(u) /\ undo'[i] = u[k + i]
  BY <1>1, <1>2
<1>4. k = 0 \/ k \in 1..Len(u)
  BY <1>2
<1>5. baseId' \in {baseId} \cup {u[i].id : i \in 1..Len(u)}
  BY <1>1, <1>4
<1>6. {undo'[i].id : i \in 1..Len(undo')} \subseteq {u[i].id : i \in 1..Len(u)}
  BY <1>3
<1> QED
  BY <1>5, <1>6 DEF Retained

(* Appending a transaction adds its position only. *)
LEMMA AppendAddsPosition ==
  ASSUME NEW v \in Seq(Transaction), NEW t \in Transaction, NEW b, NEW r
  PROVE  Retained(b, Append(v, t), r) = Retained(b, v, r) \cup {t.id}
<1> DEFINE u == Append(v, t)
<1>1. /\ Len(u) = Len(v) + 1 /\ Len(v) \in Nat
      /\ \A i \in 1..Len(v) : u[i] = v[i]
      /\ u[Len(v) + 1] = t
  BY AppendFacts, LenProperties
<1> HIDE DEF u
<1>2. 1..Len(u) = (1..Len(v)) \cup {Len(v) + 1}
  BY <1>1
<1>3. {u[i].id : i \in 1..Len(u)} = {v[i].id : i \in 1..Len(v)} \cup {t.id}
  BY <1>1, <1>2
<1> QED
  BY <1>3 DEF Retained, u

(* The newest transaction's position leaves with it. *)
LEMMA FrontLosesPositions ==
  ASSUME NEW v \in Seq(Transaction), v # <<>>, NEW b, NEW r
  PROVE  /\ Retained(b, AllButNewest(v), r) \subseteq Retained(b, v, r)
         /\ Newest(v).id \in Retained(b, v, r)
<1> DEFINE f == AllButNewest(v)
<1>1. /\ Len(v) \in Nat \ {0} /\ Len(f) = Len(v) - 1
      /\ \A i \in 1..(Len(v) - 1) : f[i] = v[i]
  BY FrontFacts
<1> HIDE DEF f
<1>2. \A i \in 1..Len(f) : i \in 1..Len(v) /\ f[i] = v[i]
  BY <1>1
<1>3. {f[i].id : i \in 1..Len(f)} \subseteq {v[i].id : i \in 1..Len(v)}
  BY <1>2
<1>4. Len(v) \in 1..Len(v)
  BY <1>1
<1> QED
  BY <1>3, <1>4 DEF Retained, f, Newest

(* Undo and redo sides count alike. *)
LEMMA RetainedCommutes ==
  ASSUME NEW b, NEW u, NEW r
  PROVE  Retained(b, u, r) = Retained(b, r, u)
BY DEF Retained

(* In one step, positions below the counter can only leave: the one position a
   step can add is the counter itself, and undo and redo keep the set. *)
LEMMA NoPositionReturnsStep ==
  Inv /\ [Next]_vars =>
    (nextId <= nextId' =>
       \A p \in 0..(nextId - 1) :
          p \notin Retained(baseId, undo, redo)
            => p \notin Retained(baseId', undo', redo'))
<1> SUFFICES ASSUME Inv, [Next]_vars, nextId <= nextId',
                    NEW p \in 0..(nextId - 1), p \in Retained(baseId', undo', redo')
             PROVE  p \in Retained(baseId, undo, redo)
  OBVIOUS
<1>1. /\ undo \in Seq(Transaction) /\ redo \in Seq(Transaction) /\ doc \in Content
      /\ nextId \in Nat /\ nextId \in Position /\ baseId \in Nat /\ currentId \in Nat
      /\ p # nextId
  BY DEF Inv, InTypes, Position
<1>2. Retained(baseId, undo, <<>>) \subseteq Retained(baseId, undo, redo)
  <2>1. Len(<<>>) = 0
    BY EmptySeq
  <2> QED
    BY <2>1 DEF Retained
<1>3. ASSUME NEW v \in Seq(Transaction), NEW t \in Transaction, t.id = nextId,
             Prune(Append(v, t)), redo' = <<>>,
             Retained(baseId, v, <<>>) \subseteq Retained(baseId, undo, <<>>)
      PROVE  p \in Retained(baseId, undo, redo)
  <2>1. Append(v, t) \in Seq(Transaction) /\ Append(v, t) # <<>>
    BY AppendFacts
  <2>2. Retained(baseId', undo', <<>>) \subseteq Retained(baseId, Append(v, t), <<>>)
    BY <2>1, <1>3, PruneLosesPositions
  <2>3. Retained(baseId, Append(v, t), <<>>) = Retained(baseId, v, <<>>) \cup {nextId}
    BY <1>3, AppendAddsPosition
  <2> QED
    BY <2>2, <2>3, <1>1, <1>2, <1>3
<1>4. ASSUME NEW run \in Runs \cup {NoRun}, Push(run)
      PROVE  p \in Retained(baseId, undo, redo)
  <2> DEFINE t == [id |-> nextId, before |-> doc, after |-> doc']
  <2>1. t \in Transaction /\ t.id = nextId
    BY <1>1, <1>4 DEF Push, Transaction
  <2>2. Prune(Append(undo, t)) /\ redo' = <<>>
    BY <1>4 DEF Push
  <2> QED
    BY <2>1, <2>2, <1>1, <1>3
<1>5. ASSUME NEW run \in Runs, ExtendRun(run)
      PROVE  p \in Retained(baseId, undo, redo)
  <2> DEFINE t == [id |-> nextId, before |-> Newest(undo).before, after |-> doc']
             v == AllButNewest(undo)
  <2>1. undo # <<>> /\ Prune(Append(v, t))
    BY <1>5 DEF ExtendRun
  <2>2. redo' = <<>>
    BY <1>5 DEF Inv, ActiveRunIsNewest, ExtendRun, Runs, NoRun
  <2>3. Newest(undo) \in Transaction /\ v \in Seq(Transaction)
    BY <2>1, <1>1, FrontFacts
  <2>4. t \in Transaction /\ t.id = nextId
    BY <2>3, <1>1, <1>5 DEF Transaction, ExtendRun
  <2>5. Retained(baseId, v, <<>>) \subseteq Retained(baseId, undo, <<>>)
    BY <2>1, <1>1, FrontLosesPositions
  <2> HIDE DEF t, v
  <2> QED
    BY <2>1, <2>2, <2>3, <2>4, <2>5, <1>3
<1>6. CASE Reload
  <2>1. nextId' = 1
    BY <1>6 DEF Reload
  <2>2. baseId <= currentId /\ currentId < nextId
    BY DEF Inv, Ordered
  <2>3. p = 0 /\ baseId = 0
    BY <2>1, <2>2, <1>1
  <2> QED
    BY <2>3 DEF Retained
<1>7. CASE FinishRun \/ Save \/ UNCHANGED vars
  BY <1>7 DEF FinishRun, Save, vars, history
<1>8. CASE Undo
  <2> DEFINE t == Newest(undo)
  <2>1. undo # <<>> /\ undo' = AllButNewest(undo) /\ redo' = Append(redo, t) /\ baseId' = baseId
    BY <1>8 DEF Undo
  <2>2. t \in Transaction
    BY <2>1, <1>1, FrontFacts
  <2>3. /\ Retained(baseId, AllButNewest(undo), redo) \subseteq Retained(baseId, undo, redo)
        /\ t.id \in Retained(baseId, undo, redo)
    BY <2>1, <1>1, FrontLosesPositions
  <2> HIDE DEF t
  <2>4. Retained(baseId, Append(redo, t), AllButNewest(undo))
          = Retained(baseId, redo, AllButNewest(undo)) \cup {t.id}
    BY <2>2, <1>1, AppendAddsPosition
  <2> QED
    BY <2>1, <2>3, <2>4, RetainedCommutes
<1>9. CASE Redo
  <2> DEFINE t == Newest(redo)
  <2>1. redo # <<>> /\ redo' = AllButNewest(redo) /\ undo' = Append(undo, t) /\ baseId' = baseId
    BY <1>9 DEF Redo
  <2>2. t \in Transaction
    BY <2>1, <1>1, FrontFacts
  <2>3. /\ Retained(baseId, AllButNewest(redo), undo) \subseteq Retained(baseId, redo, undo)
        /\ t.id \in Retained(baseId, redo, undo)
    BY <2>1, <1>1, FrontLosesPositions
  <2> HIDE DEF t
  <2>4. Retained(baseId, Append(undo, t), AllButNewest(redo))
          = Retained(baseId, undo, AllButNewest(redo)) \cup {t.id}
    BY <2>2, <1>1, AppendAddsPosition
  <2> QED
    BY <2>1, <2>3, <2>4, RetainedCommutes
<1> QED
  BY <1>4, <1>5, <1>6, <1>7, <1>8, <1>9 DEF Next, Record, RecordRun

(* A position that has left the history of a buffer never returns. *)
THEOREM PositionsNeverReturn == Spec => NoPositionReturns
BY InitInv, NextKeepsInv, NoPositionReturnsStep, PTL DEF Spec, NoPositionReturns

-----------------------------------------------------------------------------
(* Catnap.  What is offered for recovery of a file was taken of a text edited
   after the file was last saved, no worker writes under an offer, and
   recovered text replaces the text it was previewed over. *)

Files == [text : Nat, time : Nat]
Naps  == [text : Nat, time : Nat, since : Nat]
Tasks == [state : {"running", "written", "failed"}, text : Nat, revision : Nat, since : Nat,
          overtaken : BOOLEAN]
Views == [open : {TRUE}, candidate : Naps, revision : Nat, baseline : Files, source : Files,
          over : Nat]

PastFile(f) == f \in Files /\ f.text <= clock /\ f.time <= clock
PastNap(n)  == n \in Naps /\ n.text <= clock /\ n.time <= clock /\ n.since <= clock

\* No date and no text is of the future.
Dated ==
  /\ clock \in Nat /\ 1 <= clock /\ clock <= MaxClock
  /\ PastFile(source) /\ PastFile(baseline) /\ PastNap(sidecar) /\ PastNap(offer)
  /\ text \in Nat /\ text <= clock /\ savedAt \in Nat /\ savedAt <= clock
  /\ faults \in Nat /\ faults <= MaxFaults

\* Nor is what the worker writes, or the preview shows.
Tasked ==
  autosaving = NoTask
  \/ (autosaving \in Tasks /\ autosaving.text <= clock /\ autosaving.since <= clock)
Viewed == preview = NoView \/ (preview \in Views /\ PastNap(preview.candidate))

Flags ==
  /\ running \in BOOLEAN /\ onScreen \in BOOLEAN /\ unsaved \in BOOLEAN /\ elapsed \in BOOLEAN
  /\ restarted \in BOOLEAN
  /\ saving \in {"idle", "join", "commit", "cleanup"}

\* What was written, or is being, is a revision of this buffer, until a reload starts the
\* revisions again.
Revisions ==
  /\ revision \in Nat /\ revision <= MaxRevision /\ lastWritten \in Int
  /\ revision = 0 => text = baseline.text
  /\ restarted \/ (Never <= lastWritten /\ lastWritten <= revision)
  /\ restarted \/ autosaving = NoTask \/ autosaving.revision <= revision

\* Without an editor nothing goes on, and under a preview no save.
Resting ==
  /\ ~running => autosaving = NoTask /\ offer = None /\ preview = NoView /\ saving = "idle"
  /\ preview # NoView => offer = None /\ saving = "idle" /\ revision < MaxRevision

\* A worker writes a text that was edited after the last save, as a save waits for it, and
\* it was started before there was anything to recover.
Writing ==
  autosaving # NoTask /\ autosaving.state = "running" =>
    /\ autosaving.since = savedAt /\ saving \in {"idle", "join"}
    /\ autosaving.overtaken \/ (offer = None /\ preview = NoView)

\* A sidecar that is not older than the file was taken after the last save.
Fresh ==
  source # NoSource /\ sidecar # None /\ sidecar.time >= source.time => sidecar.since = savedAt

\* Under a preview the text is what it was when the preview opened, or the buffer has been
\* reloaded; a text without changes is its baseline's.
Previewed ==
  preview # NoView =>
    /\ preview.revision = 0 => preview.over = preview.baseline.text
    /\ (text = preview.over /\ revision = preview.revision) \/ revision = 0

NapInv ==
  /\ Dated /\ Tasked /\ Viewed /\ Flags /\ Revisions
  /\ Resting /\ Writing /\ Fresh /\ Previewed


\* The constants, one by one.
LEMMA Bounds ==
  MaxClock \in Nat /\ 1 <= MaxClock /\ MaxRevision \in Nat /\ MaxFaults \in Nat
BY CatnapAssumption

\* What is past stays past.
LEMMA ViewStays ==
  ASSUME Dated, Viewed, preview' = preview, clock' \in {clock, clock + 1}
  PROVE  Viewed'
<1>1. CASE preview = NoView
  BY <1>1 DEF Viewed, NoView
<1>2. CASE preview \in Views /\ PastNap(preview.candidate)
  <2>1. preview.candidate \in Naps /\ preview.candidate.text \in Nat
        /\ preview.candidate.time \in Nat /\ preview.candidate.since \in Nat
    BY <1>2 DEF PastNap, Naps
  <2>2. PastNap(preview.candidate)'
    BY <1>2, <2>1 DEF PastNap, Dated
  <2> QED
    BY <1>2, <2>2 DEF Viewed, Views
<1> QED
  BY <1>1, <1>2 DEF Viewed

\* What is previewed was a sidecar.
LEMMA PreviewedNap ==
  ASSUME Viewed, preview.open
  PROVE  preview \in Views /\ PastNap(preview.candidate)
BY DEF Viewed, NoView

LEMMA DatedKeeps == NapInv /\ [NapNext]_napVars => Dated'
<1> SUFFICES ASSUME NapInv, [NapNext]_napVars
             PROVE  Dated'
  OBVIOUS
<1> USE Bounds DEF NapInv, Dated, Viewed, PastFile, PastNap, Files, Naps, Tasks, Views, NoSource,
       None, Resting, Time, Tick, CallFails, Ready, Editing, napBuffer, recovery, world,
       napGhosts, NoTask, NoView
<1>1. CASE OpenText
  BY <1>1 DEF OpenText, Load
<1>2. CASE Killed
  BY <1>2 DEF Killed
<1>3. CASE EditText
  BY <1>3 DEF EditText
<1>4. CASE UndoAll
  BY <1>4 DEF UndoAll
<1>5. CASE ReloadText
  BY <1>5 DEF ReloadText
<1>6. CASE SwitchAway
  BY <1>6 DEF SwitchAway
<1>7. CASE SwitchBack
  BY <1>7 DEF SwitchBack
<1>8. CASE IntervalElapses
  BY <1>8 DEF IntervalElapses
<1>9. CASE CollectWritten
  BY <1>9 DEF CollectWritten
<1>10. CASE Autosave
  BY <1>10 DEF Autosave, Due
<1>11. CASE Write
  BY <1>11 DEF Write, Tasked
<1>12. CASE WriteFails
  BY <1>12 DEF WriteFails
<1>13. CASE SaveText
  BY <1>13 DEF SaveText
<1>14. CASE Join
  BY <1>14 DEF Join
<1>15. CASE CommitSave
  BY <1>15 DEF CommitSave
<1>16. CASE SaveStops
  BY <1>16 DEF SaveStops
<1>17. CASE CleanUpSidecar
  BY <1>17 DEF CleanUpSidecar
<1>18. CASE Recover
  BY <1>18 DEF Recover, Load, Show, View, Current
<1>19. CASE Cancel
  BY <1>19, PreviewedNap DEF Cancel
<1>20. CASE AcceptPreview
  <2>1. PastNap(preview.candidate) /\ preview.candidate.text \in Nat
        /\ preview.candidate.text <= clock
    BY <1>20, PreviewedNap DEF AcceptPreview
  <2>2. UNCHANGED <<source, sidecar, clock, baseline, savedAt, faults>>
    BY <1>20 DEF AcceptPreview
  <2>3. text' \in {text, preview.candidate.text} /\ offer' \in {offer, preview.candidate}
    BY <1>20 DEF AcceptPreview
  <2> QED
    BY <2>1, <2>2, <2>3
<1>21. CASE OtherWritesFile
  BY <1>21 DEF OtherWritesFile
<1>22. CASE OtherDeletesFile
  BY <1>22 DEF OtherDeletesFile
<1>23. CASE OtherWritesSidecar
  BY <1>23 DEF OtherWritesSidecar
<1>24. CASE UNCHANGED napVars
  BY <1>24 DEF napVars
<1> QED
  BY <1>1, <1>2, <1>3, <1>4, <1>5, <1>6, <1>7, <1>8, <1>9, <1>10, <1>11, <1>12, <1>13, <1>14,
     <1>15, <1>16, <1>17, <1>18, <1>19, <1>20, <1>21, <1>22, <1>23, <1>24 DEF NapNext,
     PollRecovery

LEMMA TaskedKeeps == NapInv /\ [NapNext]_napVars => Tasked'
<1> SUFFICES ASSUME NapInv, [NapNext]_napVars
             PROVE  Tasked'
  OBVIOUS
<1> USE Bounds DEF NapInv, Dated, Tasked, Tasks, Revisions, Resting, Time, Tick, CallFails, Ready,
       Editing, napBuffer, recovery, world, napGhosts, NoTask, NoView
<1>1. CASE OpenText
  BY <1>1 DEF OpenText, Load
<1>2. CASE Killed
  BY <1>2 DEF Killed
<1>3. CASE EditText
  BY <1>3 DEF EditText
<1>4. CASE UndoAll
  BY <1>4 DEF UndoAll
<1>5. CASE ReloadText
  BY <1>5 DEF ReloadText
<1>6. CASE SwitchAway
  BY <1>6 DEF SwitchAway
<1>7. CASE SwitchBack
  BY <1>7 DEF SwitchBack
<1>8. CASE IntervalElapses
  BY <1>8 DEF IntervalElapses
<1>9. CASE CollectWritten
  BY <1>9 DEF CollectWritten
<1>10. CASE Autosave
  <2>1. CASE UNCHANGED autosaving
    BY <1>10, <2>1 DEF Autosave
  <2>2. CASE autosaving' = [state |-> "running", text |-> text, revision |-> revision,
                            since |-> savedAt, overtaken |-> FALSE]
    <3>1. autosaving' \in Tasks
      BY <2>2
    <3>2. autosaving'.text = text /\ autosaving'.since = savedAt /\ clock' = clock
      BY <1>10, <2>2 DEF Autosave
    <3> QED
      BY <3>1, <3>2
  <2> QED
    BY <1>10, <2>1, <2>2 DEF Autosave
<1>11. CASE Write
  BY <1>11 DEF Write
<1>12. CASE WriteFails
  BY <1>12 DEF WriteFails
<1>13. CASE SaveText
  BY <1>13 DEF SaveText
<1>14. CASE Join
  BY <1>14 DEF Join
<1>15. CASE CommitSave
  BY <1>15 DEF CommitSave
<1>16. CASE SaveStops
  BY <1>16 DEF SaveStops
<1>17. CASE CleanUpSidecar
  BY <1>17 DEF CleanUpSidecar
<1>18. CASE Recover
  BY <1>18 DEF Recover, Load, Show, View, Current
<1>19. CASE Cancel
  BY <1>19 DEF Cancel
<1>20. CASE AcceptPreview
  BY <1>20 DEF AcceptPreview, Drifted, Current
<1>21. CASE OtherWritesFile
  BY <1>21 DEF OtherWritesFile
<1>22. CASE OtherDeletesFile
  BY <1>22 DEF OtherDeletesFile
<1>23. CASE OtherWritesSidecar
  BY <1>23 DEF OtherWritesSidecar
<1>24. CASE UNCHANGED napVars
  BY <1>24 DEF napVars
<1> QED
  BY <1>1, <1>2, <1>3, <1>4, <1>5, <1>6, <1>7, <1>8, <1>9, <1>10, <1>11, <1>12, <1>13, <1>14,
     <1>15, <1>16, <1>17, <1>18, <1>19, <1>20, <1>21, <1>22, <1>23, <1>24 DEF NapNext,
     PollRecovery

LEMMA ViewedKeeps == NapInv /\ [NapNext]_napVars => Viewed'
<1> SUFFICES ASSUME NapInv, [NapNext]_napVars
             PROVE  Viewed'
  OBVIOUS
<1> USE Bounds DEF NapInv, Dated, Viewed, PastFile, PastNap, Files, Naps, Views, NoSource, None,
       Revisions, Resting, Time, Tick, CallFails, Ready, Editing, napBuffer, recovery, world,
       napGhosts, NoTask, NoView
<1>1. CASE OpenText
  BY <1>1 DEF OpenText, Load
<1>2. CASE Killed
  BY <1>2 DEF Killed
<1>3. CASE EditText
  BY <1>3 DEF EditText
<1>4. CASE UndoAll
  BY <1>4 DEF UndoAll
<1>5. CASE ReloadText
  BY <1>5 DEF ReloadText
<1>6. CASE SwitchAway
  BY <1>6 DEF SwitchAway
<1>7. CASE SwitchBack
  BY <1>7 DEF SwitchBack
<1>8. CASE IntervalElapses
  BY <1>8 DEF IntervalElapses
<1>9. CASE CollectWritten
  BY <1>9 DEF CollectWritten
<1>10. CASE Autosave
  BY <1>10 DEF Autosave, Due
<1>11. CASE Write
  BY <1>11, ViewStays DEF Write
<1>12. CASE WriteFails
  BY <1>12 DEF WriteFails
<1>13. CASE SaveText
  BY <1>13 DEF SaveText
<1>14. CASE Join
  BY <1>14 DEF Join
<1>15. CASE CommitSave
  BY <1>15 DEF CommitSave
<1>16. CASE SaveStops
  BY <1>16 DEF SaveStops
<1>17. CASE CleanUpSidecar
  BY <1>17 DEF CleanUpSidecar
<1>18. CASE Recover
  <2>1. PICK candidate \in {offer, sidecar} :
          preview' = preview \/ preview' = View(candidate)
    BY <1>18 DEF Recover, Load, Show, None
  <2>2. CASE preview' = preview
    BY <1>18, <2>2, ViewStays DEF Recover
  <2>3. CASE preview' = View(candidate)
    <3>1. PastNap(candidate)
      BY <2>1
    <3>2. preview' \in Views
      BY <2>3, <3>1 DEF View
    <3>3. preview'.candidate = candidate /\ clock' = clock
      BY <1>18, <2>3 DEF Recover, View
    <3> QED
      BY <3>1, <3>2, <3>3
  <2> QED
    BY <2>1, <2>2, <2>3
<1>19. CASE Cancel
  BY <1>19 DEF Cancel
<1>20. CASE AcceptPreview
  BY <1>20 DEF AcceptPreview, Drifted, Current
<1>21. CASE OtherWritesFile
  BY <1>21, ViewStays DEF OtherWritesFile
<1>22. CASE OtherDeletesFile
  BY <1>22, ViewStays DEF OtherDeletesFile
<1>23. CASE OtherWritesSidecar
  BY <1>23, ViewStays DEF OtherWritesSidecar
<1>24. CASE UNCHANGED napVars
  BY <1>24 DEF napVars
<1> QED
  BY <1>1, <1>2, <1>3, <1>4, <1>5, <1>6, <1>7, <1>8, <1>9, <1>10, <1>11, <1>12, <1>13, <1>14,
     <1>15, <1>16, <1>17, <1>18, <1>19, <1>20, <1>21, <1>22, <1>23, <1>24 DEF NapNext,
     PollRecovery

LEMMA FlagsKeep == NapInv /\ [NapNext]_napVars => Flags'
<1> SUFFICES ASSUME NapInv, [NapNext]_napVars
             PROVE  Flags'
  OBVIOUS
<1> USE DEF NapInv, Flags, Time, Tick, CallFails, Ready, Editing, napBuffer, recovery, world,
       napGhosts, NoTask, NoView
<1>1. CASE OpenText
  BY <1>1 DEF OpenText, Load
<1>2. CASE Killed
  BY <1>2 DEF Killed
<1>3. CASE EditText
  BY <1>3 DEF EditText
<1>4. CASE UndoAll
  BY <1>4 DEF UndoAll
<1>5. CASE ReloadText
  BY <1>5 DEF ReloadText
<1>6. CASE SwitchAway
  BY <1>6 DEF SwitchAway
<1>7. CASE SwitchBack
  BY <1>7 DEF SwitchBack
<1>8. CASE IntervalElapses
  BY <1>8 DEF IntervalElapses
<1>9. CASE CollectWritten
  BY <1>9 DEF CollectWritten
<1>10. CASE Autosave
  BY <1>10 DEF Autosave, Due
<1>11. CASE Write
  BY <1>11 DEF Write
<1>12. CASE WriteFails
  BY <1>12 DEF WriteFails
<1>13. CASE SaveText
  BY <1>13 DEF SaveText
<1>14. CASE Join
  BY <1>14 DEF Join
<1>15. CASE CommitSave
  BY <1>15 DEF CommitSave
<1>16. CASE SaveStops
  BY <1>16 DEF SaveStops
<1>17. CASE CleanUpSidecar
  BY <1>17 DEF CleanUpSidecar
<1>18. CASE Recover
  BY <1>18 DEF Recover, Load, Show, View, Current
<1>19. CASE Cancel
  BY <1>19 DEF Cancel
<1>20. CASE AcceptPreview
  BY <1>20 DEF AcceptPreview, Drifted, Current
<1>21. CASE OtherWritesFile
  BY <1>21 DEF OtherWritesFile
<1>22. CASE OtherDeletesFile
  BY <1>22 DEF OtherDeletesFile
<1>23. CASE OtherWritesSidecar
  BY <1>23 DEF OtherWritesSidecar
<1>24. CASE UNCHANGED napVars
  BY <1>24 DEF napVars
<1> QED
  BY <1>1, <1>2, <1>3, <1>4, <1>5, <1>6, <1>7, <1>8, <1>9, <1>10, <1>11, <1>12, <1>13, <1>14,
     <1>15, <1>16, <1>17, <1>18, <1>19, <1>20, <1>21, <1>22, <1>23, <1>24 DEF NapNext,
     PollRecovery

LEMMA RevisionsKeep == NapInv /\ [NapNext]_napVars => Revisions'
<1> SUFFICES ASSUME NapInv, [NapNext]_napVars
             PROVE  Revisions'
  OBVIOUS
<1> USE Bounds DEF NapInv, Dated, Tasked, Flags, Tasks, Revisions, Resting, Never, NoSource, Time,
       Tick, CallFails, Ready, Editing, napBuffer, recovery, world, napGhosts, NoTask, NoView
<1>1. CASE OpenText
  BY <1>1 DEF OpenText, Load
<1>2. CASE Killed
  BY <1>2 DEF Killed
<1>3. CASE EditText
  BY <1>3 DEF EditText
<1>4. CASE UndoAll
  BY <1>4 DEF UndoAll
<1>5. CASE ReloadText
  <2>1. /\ revision' = 0 /\ text' = source.text /\ baseline' = source
        /\ UNCHANGED <<lastWritten, autosaving>>
    BY <1>5 DEF ReloadText
  <2>2. restarted' \/ (lastWritten = Never /\ autosaving = NoTask)
    BY <1>5 DEF ReloadText
  <2> QED
    BY <2>1, <2>2
<1>6. CASE SwitchAway
  BY <1>6 DEF SwitchAway
<1>7. CASE SwitchBack
  BY <1>7 DEF SwitchBack
<1>8. CASE IntervalElapses
  BY <1>8 DEF IntervalElapses
<1>9. CASE CollectWritten
  BY <1>9 DEF CollectWritten
<1>10. CASE Autosave
  BY <1>10 DEF Autosave, Due
<1>11. CASE Write
  BY <1>11 DEF Write
<1>12. CASE WriteFails
  BY <1>12 DEF WriteFails
<1>13. CASE SaveText
  BY <1>13 DEF SaveText
<1>14. CASE Join
  BY <1>14 DEF Join
<1>15. CASE CommitSave
  BY <1>15 DEF CommitSave
<1>16. CASE SaveStops
  BY <1>16 DEF SaveStops
<1>17. CASE CleanUpSidecar
  BY <1>17 DEF CleanUpSidecar
<1>18. CASE Recover
  BY <1>18 DEF Recover, Load, Show, View, Current
<1>19. CASE Cancel
  BY <1>19 DEF Cancel
<1>20. CASE AcceptPreview
  BY <1>20 DEF AcceptPreview, Drifted, Current
<1>21. CASE OtherWritesFile
  BY <1>21 DEF OtherWritesFile
<1>22. CASE OtherDeletesFile
  BY <1>22 DEF OtherDeletesFile
<1>23. CASE OtherWritesSidecar
  BY <1>23 DEF OtherWritesSidecar
<1>24. CASE UNCHANGED napVars
  BY <1>24 DEF napVars
<1> QED
  BY <1>1, <1>2, <1>3, <1>4, <1>5, <1>6, <1>7, <1>8, <1>9, <1>10, <1>11, <1>12, <1>13, <1>14,
     <1>15, <1>16, <1>17, <1>18, <1>19, <1>20, <1>21, <1>22, <1>23, <1>24 DEF NapNext,
     PollRecovery

LEMMA RestingKeeps == NapInv /\ [NapNext]_napVars => Resting'
<1> SUFFICES ASSUME NapInv, [NapNext]_napVars
             PROVE  Resting'
  OBVIOUS
<1> USE Bounds DEF NapInv, Revisions, Resting, Time, Tick, CallFails, Ready, Editing, napBuffer,
       recovery, world, napGhosts, NoTask, NoView
<1>1. CASE OpenText
  BY <1>1 DEF OpenText, Load
<1>2. CASE Killed
  BY <1>2 DEF Killed
<1>3. CASE EditText
  BY <1>3 DEF EditText
<1>4. CASE UndoAll
  BY <1>4 DEF UndoAll
<1>5. CASE ReloadText
  BY <1>5 DEF ReloadText
<1>6. CASE SwitchAway
  BY <1>6 DEF SwitchAway
<1>7. CASE SwitchBack
  BY <1>7 DEF SwitchBack
<1>8. CASE IntervalElapses
  BY <1>8 DEF IntervalElapses
<1>9. CASE CollectWritten
  BY <1>9 DEF CollectWritten
<1>10. CASE Autosave
  BY <1>10 DEF Autosave, Due
<1>11. CASE Write
  BY <1>11 DEF Write
<1>12. CASE WriteFails
  BY <1>12 DEF WriteFails
<1>13. CASE SaveText
  BY <1>13 DEF SaveText
<1>14. CASE Join
  BY <1>14 DEF Join
<1>15. CASE CommitSave
  BY <1>15 DEF CommitSave
<1>16. CASE SaveStops
  BY <1>16 DEF SaveStops
<1>17. CASE CleanUpSidecar
  BY <1>17 DEF CleanUpSidecar
<1>18. CASE Recover
  BY <1>18 DEF Recover, Load, Show, View, Current
<1>19. CASE Cancel
  BY <1>19 DEF Cancel
<1>20. CASE AcceptPreview
  BY <1>20 DEF AcceptPreview, Drifted, Current
<1>21. CASE OtherWritesFile
  BY <1>21 DEF OtherWritesFile
<1>22. CASE OtherDeletesFile
  BY <1>22 DEF OtherDeletesFile
<1>23. CASE OtherWritesSidecar
  BY <1>23 DEF OtherWritesSidecar
<1>24. CASE UNCHANGED napVars
  BY <1>24 DEF napVars
<1> QED
  BY <1>1, <1>2, <1>3, <1>4, <1>5, <1>6, <1>7, <1>8, <1>9, <1>10, <1>11, <1>12, <1>13, <1>14,
     <1>15, <1>16, <1>17, <1>18, <1>19, <1>20, <1>21, <1>22, <1>23, <1>24 DEF NapNext,
     PollRecovery

LEMMA WritingKeeps == NapInv /\ [NapNext]_napVars => Writing'
<1> SUFFICES ASSUME NapInv, [NapNext]_napVars
             PROVE  Writing'
  OBVIOUS
<1> USE DEF NapInv, Tasked, Tasks, Resting, Writing, Time, Tick, CallFails, Ready, Editing,
       napBuffer, recovery, world, napGhosts, NoTask, NoView
<1>1. CASE OpenText
  BY <1>1 DEF OpenText, Load
<1>2. CASE Killed
  BY <1>2 DEF Killed
<1>3. CASE EditText
  BY <1>3 DEF EditText
<1>4. CASE UndoAll
  BY <1>4 DEF UndoAll
<1>5. CASE ReloadText
  BY <1>5 DEF ReloadText
<1>6. CASE SwitchAway
  BY <1>6 DEF SwitchAway
<1>7. CASE SwitchBack
  BY <1>7 DEF SwitchBack
<1>8. CASE IntervalElapses
  BY <1>8 DEF IntervalElapses
<1>9. CASE CollectWritten
  BY <1>9 DEF CollectWritten
<1>10. CASE Autosave
  BY <1>10 DEF Autosave, Due
<1>11. CASE Write
  BY <1>11 DEF Write
<1>12. CASE WriteFails
  BY <1>12 DEF WriteFails
<1>13. CASE SaveText
  BY <1>13 DEF SaveText
<1>14. CASE Join
  BY <1>14 DEF Join
<1>15. CASE CommitSave
  BY <1>15 DEF CommitSave
<1>16. CASE SaveStops
  BY <1>16 DEF SaveStops
<1>17. CASE CleanUpSidecar
  BY <1>17 DEF CleanUpSidecar
<1>18. CASE Recover
  BY <1>18 DEF Recover, Load, Show, View, Current
<1>19. CASE Cancel
  BY <1>19 DEF Cancel
<1>20. CASE AcceptPreview
  BY <1>20 DEF AcceptPreview, Drifted, Current
<1>21. CASE OtherWritesFile
  BY <1>21 DEF OtherWritesFile
<1>22. CASE OtherDeletesFile
  BY <1>22 DEF OtherDeletesFile
<1>23. CASE OtherWritesSidecar
  BY <1>23 DEF OtherWritesSidecar
<1>24. CASE UNCHANGED napVars
  BY <1>24 DEF napVars
<1> QED
  BY <1>1, <1>2, <1>3, <1>4, <1>5, <1>6, <1>7, <1>8, <1>9, <1>10, <1>11, <1>12, <1>13, <1>14,
     <1>15, <1>16, <1>17, <1>18, <1>19, <1>20, <1>21, <1>22, <1>23, <1>24 DEF NapNext,
     PollRecovery

LEMMA FreshKeeps == NapInv /\ [NapNext]_napVars => Fresh'
<1> SUFFICES ASSUME NapInv, [NapNext]_napVars
             PROVE  Fresh'
  OBVIOUS
<1> USE DEF NapInv, Dated, PastFile, PastNap, Files, Naps, Tasked, Tasks, Writing, Fresh, Time,
       Tick, CallFails, Ready, Editing, napBuffer, recovery, world, napGhosts, NoTask, NoView
<1>1. CASE OpenText
  BY <1>1 DEF OpenText, Load
<1>2. CASE Killed
  BY <1>2 DEF Killed
<1>3. CASE EditText
  BY <1>3 DEF EditText
<1>4. CASE UndoAll
  BY <1>4 DEF UndoAll
<1>5. CASE ReloadText
  BY <1>5 DEF ReloadText
<1>6. CASE SwitchAway
  BY <1>6 DEF SwitchAway
<1>7. CASE SwitchBack
  BY <1>7 DEF SwitchBack
<1>8. CASE IntervalElapses
  BY <1>8 DEF IntervalElapses
<1>9. CASE CollectWritten
  BY <1>9 DEF CollectWritten
<1>10. CASE Autosave
  BY <1>10 DEF Autosave, Due
<1>11. CASE Write
  BY <1>11 DEF Write
<1>12. CASE WriteFails
  BY <1>12 DEF WriteFails
<1>13. CASE SaveText
  BY <1>13 DEF SaveText
<1>14. CASE Join
  BY <1>14 DEF Join
<1>15. CASE CommitSave
  BY <1>15 DEF CommitSave
<1>16. CASE SaveStops
  BY <1>16 DEF SaveStops
<1>17. CASE CleanUpSidecar
  BY <1>17 DEF CleanUpSidecar
<1>18. CASE Recover
  BY <1>18 DEF Recover, Load, Show, View, Current
<1>19. CASE Cancel
  BY <1>19 DEF Cancel
<1>20. CASE AcceptPreview
  BY <1>20 DEF AcceptPreview, Drifted, Current
<1>21. CASE OtherWritesFile
  BY <1>21 DEF OtherWritesFile
<1>22. CASE OtherDeletesFile
  BY <1>22 DEF OtherDeletesFile
<1>23. CASE OtherWritesSidecar
  BY <1>23 DEF OtherWritesSidecar
<1>24. CASE UNCHANGED napVars
  BY <1>24 DEF napVars
<1> QED
  BY <1>1, <1>2, <1>3, <1>4, <1>5, <1>6, <1>7, <1>8, <1>9, <1>10, <1>11, <1>12, <1>13, <1>14,
     <1>15, <1>16, <1>17, <1>18, <1>19, <1>20, <1>21, <1>22, <1>23, <1>24 DEF NapNext,
     PollRecovery

LEMMA PreviewedKeeps == NapInv /\ [NapNext]_napVars => Previewed'
<1> SUFFICES ASSUME NapInv, [NapNext]_napVars
             PROVE  Previewed'
  OBVIOUS
<1> USE DEF NapInv, Viewed, Revisions, Resting, Previewed, Time, Tick, CallFails, Ready, Editing,
       napBuffer, recovery, world, napGhosts, NoTask, NoView
<1>1. CASE OpenText
  BY <1>1 DEF OpenText, Load
<1>2. CASE Killed
  BY <1>2 DEF Killed
<1>3. CASE EditText
  BY <1>3 DEF EditText
<1>4. CASE UndoAll
  BY <1>4 DEF UndoAll
<1>5. CASE ReloadText
  BY <1>5 DEF ReloadText
<1>6. CASE SwitchAway
  BY <1>6 DEF SwitchAway
<1>7. CASE SwitchBack
  BY <1>7 DEF SwitchBack
<1>8. CASE IntervalElapses
  BY <1>8 DEF IntervalElapses
<1>9. CASE CollectWritten
  BY <1>9 DEF CollectWritten
<1>10. CASE Autosave
  BY <1>10 DEF Autosave, Due
<1>11. CASE Write
  BY <1>11 DEF Write
<1>12. CASE WriteFails
  BY <1>12 DEF WriteFails
<1>13. CASE SaveText
  BY <1>13 DEF SaveText
<1>14. CASE Join
  BY <1>14 DEF Join
<1>15. CASE CommitSave
  BY <1>15 DEF CommitSave
<1>16. CASE SaveStops
  BY <1>16 DEF SaveStops
<1>17. CASE CleanUpSidecar
  BY <1>17 DEF CleanUpSidecar
<1>18. CASE Recover
  BY <1>18 DEF Recover, Load, Show, View, Current
<1>19. CASE Cancel
  BY <1>19 DEF Cancel
<1>20. CASE AcceptPreview
  BY <1>20 DEF AcceptPreview, Drifted, Current
<1>21. CASE OtherWritesFile
  BY <1>21 DEF OtherWritesFile
<1>22. CASE OtherDeletesFile
  BY <1>22 DEF OtherDeletesFile
<1>23. CASE OtherWritesSidecar
  BY <1>23 DEF OtherWritesSidecar
<1>24. CASE UNCHANGED napVars
  BY <1>24 DEF napVars
<1> QED
  BY <1>1, <1>2, <1>3, <1>4, <1>5, <1>6, <1>7, <1>8, <1>9, <1>10, <1>11, <1>12, <1>13, <1>14,
     <1>15, <1>16, <1>17, <1>18, <1>19, <1>20, <1>21, <1>22, <1>23, <1>24 DEF NapNext,
     PollRecovery

\* What holds of the sidecar, the worker, the offer and the preview, however a
\* save, a worker, a kill and other processes fall together (app/recovery.rs,
\* app/recovery/preview.rs).
THEOREM NapAlways == NapSpec => []NapInv
<1>1. NapInit => NapInv
  <2> SUFFICES ASSUME NapInit
               PROVE  NapInv
    OBVIOUS
  <2> USE Bounds DEF NapInit, NoSource, None, Never, NoTask, NoView
  <2>1. Dated /\ Tasked /\ Viewed
    BY DEF Dated, Tasked, Viewed, PastFile, PastNap, Files, Naps
  <2>2. Flags /\ Resting
    BY DEF Flags, Resting
  <2>3. Revisions
    BY DEF Revisions
  <2>4. Writing /\ Fresh /\ Previewed
    BY DEF Writing, Fresh, Previewed
  <2> QED
    BY <2>1, <2>2, <2>3, <2>4 DEF NapInv
<1>2. NapInv /\ [NapNext]_napVars => NapInv'
  BY DatedKeeps, TaskedKeeps, ViewedKeeps, FlagsKeep, RevisionsKeep, RestingKeeps,
     WritingKeeps, FreshKeeps, PreviewedKeeps
  DEF NapInv
<1> QED
  BY <1>1, <1>2, PTL DEF NapSpec

\* The invariant implies the types that the runs check.
LEMMA TypesFollow == NapInv => NapTypeOK
<1> SUFFICES ASSUME NapInv
             PROVE  NapTypeOK
  OBVIOUS
<1> USE Bounds DEF NapInv
<1>1. {source, baseline} \subseteq [text : 0..clock, time : 0..clock]
  BY DEF Dated, PastFile, Files
<1>2. {sidecar, offer} \subseteq Candidate
  BY DEF Dated, PastNap, Naps, Candidate
<1>3. clock \in 1..MaxClock /\ text \in 0..clock /\ faults \in 0..MaxFaults
  BY DEF Dated
<1>4. revision \in 0..MaxRevision /\ (restarted \/ lastWritten \in Never..revision)
  BY DEF Revisions, Never
<1>5. /\ {running, onScreen, unsaved, elapsed} \subseteq BOOLEAN
      /\ saving \in {"idle", "join", "commit", "cleanup"}
  BY DEF Flags
<1>6. autosaving.state \in {"none", "running", "written", "failed"}
  BY DEF Tasked, Tasks, NoTask
<1>7. preview.open => offer = None
  BY DEF Resting, NoView
<1> QED
  BY <1>1, <1>2, <1>3, <1>4, <1>5, <1>6, <1>7 DEF NapTypeOK

\* What comes on offer is a sidecar that is not older than the file; all else
\* that is offered was before.
LEMMA OfferIsFresh ==
  ASSUME NapInv, [NapNext]_napVars, Offered
  PROVE  Held'.since = savedAt
<1> USE DEF Offered, Held, napBuffer, recovery, world, napGhosts
<1>1. CASE OpenText
  <2>1. ~preview'.open /\ offer' \in {Load, None} /\ UNCHANGED <<source, savedAt>>
    BY <1>1 DEF OpenText, NapInv, Resting, NoView
  <2>2. Load = sidecar /\ sidecar # None /\ sidecar.time >= source.time
    BY <2>1 DEF Load, None
  <2> QED
    BY <2>1, <2>2 DEF NapInv, Fresh
<1>2. CASE Recover
  <2>1. PICK candidate \in {offer, Load} :
          /\ candidate = offer \/ (offer = None /\ candidate = Load)
          /\ Show(candidate)
    BY <1>2 DEF Recover
  <2>2. ~preview.open /\ Held = offer
    BY <1>2 DEF Recover, Editing, NoView
  <2>3. Held' \in {candidate, None, offer}
    BY <2>1, <2>2 DEF Show, View
  <2>4. candidate = Load /\ Held' = Load
    BY <2>1, <2>2, <2>3
  <2>5. Load = sidecar /\ sidecar # None /\ sidecar.time >= source.time
    BY <2>4 DEF Load
  <2> QED
    BY <2>4, <2>5 DEF NapInv, Fresh
<1>3. CASE SwitchAway \/ Cancel \/ AcceptPreview
  <2>1. preview = NoView \/ (preview # NoView /\ preview.open = TRUE /\ offer = None)
    BY DEF NapInv, Viewed, Views, Resting
  <2>2. preview' = NoView /\ ~preview'.open
    BY <1>3 DEF SwitchAway, Cancel, AcceptPreview, NoView
  <2>3. offer' \in {offer, Held}
    BY <1>3, <2>1 DEF SwitchAway, Cancel, AcceptPreview, NoView
  <2> QED
    BY <2>1, <2>2, <2>3 DEF NoView
<1>4. CASE Killed \/ CleanUpSidecar
  BY <1>4 DEF Killed, CleanUpSidecar, NoView
<1>5. CASE UNCHANGED <<offer, preview>>
  BY <1>5
<1> QED
  BY <1>1, <1>2, <1>3, <1>4, <1>5
  DEF NapNext, PollRecovery, napVars, EditText, UndoAll, ReloadText, SwitchBack,
      IntervalElapses, CollectWritten, Autosave, Write, WriteFails, SaveText, Join,
      CommitSave, SaveStops, OtherWritesFile, OtherDeletesFile, OtherWritesSidecar

\* A worker that is not overtaken writes under no offer.
LEMMA WriteUnderNoOffer ==
  ASSUME NapInv, [NapNext]_napVars, Written
  PROVE  (offer = None /\ ~preview.open) \/ autosaving.overtaken
BY DEF NapInv, Writing, Written, NoTask, NoView

\* What is offered of an existing file was taken of a text edited after the last
\* save, and nothing but a worker that was under way when `recover` was run writes
\* under an offer (finish_before_save, start_preview, after_save).
THEOREM OffersAlwaysHold == NapSpec => OffersHold
<1>1. NapInv /\ [NapNext]_napVars
        => [/\ Offered => Held'.since = savedAt
            /\ Written => (offer = None /\ ~preview.open) \/ autosaving.overtaken]_napVars
  BY OfferIsFresh, WriteUnderNoOffer
<1>2. NapInv => NapTypeOK
  BY TypesFollow
<1> QED
  BY <1>1, <1>2, NapAlways, PTL DEF NapSpec, OffersHold

\* Enter in the preview replaces the text the preview was opened over, of a file that
\* is what it was then: a reload under the preview, which restarts the revisions, is
\* told by the baseline (accept in app/recovery/preview.rs).
THEOREM RecoveredOverPreviewed == NapSpec => AppliedOverPreviewed
<1>1. NapInv /\ [NapNext]_napVars
        => [preview.open /\ ~preview'.open /\ text' # text /\ running' =>
              preview.over = text /\ preview.source = source]_napVars
  <2> SUFFICES ASSUME NapInv, NapNext, preview.open, ~preview'.open, text' # text, running'
               PROVE  preview.over = text /\ preview.source = source
    OBVIOUS
  <2>1. AcceptPreview
    BY DEF NapNext, PollRecovery, OpenText, Killed, EditText, UndoAll, ReloadText,
           SwitchAway, SwitchBack, IntervalElapses, CollectWritten, Autosave, Write,
           WriteFails, SaveText, Join, CommitSave, SaveStops, CleanUpSidecar, Recover,
           Cancel, OtherWritesFile, OtherDeletesFile, OtherWritesSidecar, Editing,
           napBuffer, recovery, world, napGhosts, NapInv, Resting, NoView
  <2>2. revision = preview.revision /\ baseline = preview.baseline
        /\ source = preview.source
    BY <2>1 DEF AcceptPreview, Drifted
  <2>3. preview # NoView
    BY DEF NoView
  <2> QED
    BY <2>2, <2>3 DEF NapInv, Revisions, Previewed
<1> QED
  BY <1>1, NapAlways, PTL DEF NapSpec, AppliedOverPreviewed
=============================================================================
