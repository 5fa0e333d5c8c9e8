--------------------------- MODULE BufferRingProofs ---------------------------
(***************************************************************************)
(* The open buffers stay one list, no unsaved text is dropped unasked, and *)
(* the detour to the configuration comes back, for any number of buffers.  *)
(***************************************************************************)
EXTENDS BufferRing, SequenceTheorems, WellFoundedInduction, TLAPS

Slot  == {SlotOf(d) : d \in Docs}
Rings == [active : Slot, inactive : Seq(Slot), index : Nat]

\* The deque and the index make sense together.
Indexed(r) == r \in Rings /\ r.index < Count(r)

-----------------------------------------------------------------------------
(* Naturals. *)

\* A count that has gone round at most once.
LEMMA OnceRound ==
  ASSUME NEW n \in Nat \ {0}, NEW a \in Nat, a < 2 * n
  PROVE  a % n = IF a < n THEN a ELSE a - n
  OBVIOUS

\* A set of naturals has a least member.
LEMMA Least ==
  ASSUME NEW T \in SUBSET Nat, T # {}
  PROVE  \E x \in T : \A y \in T : x <= y
<1>1. \E x \in T : \A y \in T : ~(<<y, x>> \in OpToRel(<, Nat))
  BY NatLessThanWellFounded, WFMin
<1>2. ASSUME NEW x \in Nat, NEW y \in Nat, ~(<<y, x>> \in OpToRel(<, Nat))
      PROVE  x <= y
  <2>1. ~(y < x)
    BY <1>2, Zenon DEF OpToRel
  <2> QED
    BY <2>1
<1> QED
  BY <1>1, <1>2

-----------------------------------------------------------------------------
(* Slots and their order. *)

LEMMA SlotDoc ==
  /\ \A s \in Slot : s["file"] \in Docs /\ s = SlotOf(s["file"])
  /\ \A d \in Docs : SlotOf(d) \in Slot /\ SlotOf(d)["file"] = d
  BY BufferRingAssumption DEF Slot, SlotOf

LEMMA SlotsAt ==
  ASSUME NEW r \in Rings
  PROVE  /\ Count(r) \in Nat \ {0} /\ Len(r.inactive) = Count(r) - 1
         /\ Slots(r) \in Seq(Slot) /\ Len(Slots(r)) = Count(r)
         /\ \A j \in 1..Count(r) :
              Slots(r)[j] = IF j = 1 THEN r.active ELSE r.inactive[j - 1]
<1>1. r.active \in Slot /\ r.inactive \in Seq(Slot)
  BY DEF Rings
<1>2. <<r.active>> \in Seq(Slot) /\ Len(<<r.active>>) = 1 /\ <<r.active>>[1] = r.active
  BY <1>1
<1> QED
  BY <1>1, <1>2, ConcatProperties, LenProperties DEF Count, Slots

LEMMA OrderAt ==
  ASSUME NEW r, Indexed(r)
  PROVE  /\ Count(r) \in Nat \ {0} /\ r.index \in 0..Count(r) - 1
         /\ Order(r) \in Seq(Docs) /\ Len(Order(r)) = Count(r)
         /\ \A k \in 1..Count(r) : Order(r)[k] =
              IF k = r.index + 1 THEN r.active["file"]
              ELSE IF k > r.index THEN r.inactive[k - r.index - 1]["file"]
              ELSE r.inactive[k + Count(r) - r.index - 1]["file"]
<1> USE DEF Indexed
<1>1. Count(r) \in Nat \ {0} /\ r.index \in 0..Count(r) - 1 /\ Len(Slots(r)) = Count(r)
  BY SlotsAt DEF Rings
<1>2. ASSUME NEW k \in 1..Count(r)
      PROVE  LET j == IF k > r.index THEN k - r.index ELSE k + Count(r) - r.index
             IN j \in 1..Count(r) /\ Slots(r)[j]["file"] \in Docs
                /\ Slots(r)[j] = IF j = 1 THEN r.active ELSE r.inactive[j - 1]
  <2> DEFINE j == IF k > r.index THEN k - r.index ELSE k + Count(r) - r.index
  <2>1. j \in 1..Count(r)
    BY <1>1
  <2>2. Slots(r)[j] \in Slot /\ Slots(r)[j] = IF j = 1 THEN r.active ELSE r.inactive[j - 1]
    BY <2>1, SlotsAt, ElementOfSeq
  <2> QED
    BY <2>1, <2>2, SlotDoc
<1>3. Order(r) \in [1..Count(r) -> Docs]
  BY <1>2 DEF Order
<1>4. Order(r) \in Seq(Docs) /\ Len(Order(r)) = Count(r)
  BY <1>1, <1>3
<1>5. ASSUME NEW k \in 1..Count(r)
      PROVE  Order(r)[k] =
              IF k = r.index + 1 THEN r.active["file"]
              ELSE IF k > r.index THEN r.inactive[k - r.index - 1]["file"]
              ELSE r.inactive[k + Count(r) - r.index - 1]["file"]
  <2> DEFINE j == IF k > r.index THEN k - r.index ELSE k + Count(r) - r.index
  <2>1. Order(r)[k] = Slots(r)[j]["file"]
    BY DEF Order
  <2>2. j \in 1..Count(r) /\ Slots(r)[j] = IF j = 1 THEN r.active ELSE r.inactive[j - 1]
    BY <1>2
  <2>3. CASE k = r.index + 1
    BY <1>1, <2>1, <2>2, <2>3
  <2>4. CASE k # r.index + 1 /\ k > r.index
    BY <1>1, <2>1, <2>2, <2>4
  <2>5. CASE ~(k > r.index)
    BY <1>1, <2>1, <2>2, <2>5
  <2> QED
    BY <1>1, <2>3, <2>4, <2>5
<1> QED
  BY <1>1, <1>4, <1>5

\* The documents that are open are those of the list.
LEMMA OpenIsListed ==
  ASSUME NEW r, Indexed(r)
  PROVE  /\ DocsOf(r) = {Order(r)[k] : k \in 1..Count(r)}
         /\ Order(r)[r.index + 1] = r.active["file"]
         /\ \A i \in 1..Len(r.inactive) : \E k \in 1..Count(r) :
              k # r.index + 1 /\ Order(r)[k] = r.inactive[i]["file"]
<1> DEFINE n == Count(r)
<1>0. r \in Rings
  BY DEF Indexed
<1>1. n \in Nat \ {0} /\ r.index \in 0..n - 1 /\ Len(r.inactive) = n - 1 /\ Len(Slots(r)) = n
  BY <1>0, OrderAt, SlotsAt
<1>2. \A k \in 1..n : Order(r)[k] = Slots(r)[IF k > r.index THEN k - r.index ELSE k + n - r.index]["file"]
  BY DEF Order
<1>3. DocsOf(r) = {Slots(r)[j]["file"] : j \in 1..n}
  <2>1. DOMAIN Slots(r) = 1..n
    BY <1>0, <1>1, SlotsAt, LenProperties
  <2> QED
    BY <2>1 DEF DocsOf, ToSet
<1>4. \A j \in 1..n : \E k \in 1..n : j = IF k > r.index THEN k - r.index ELSE k + n - r.index
  <2> TAKE j \in 1..n
  <2>1. CASE j + r.index <= n
    <3>1. j + r.index \in 1..n /\ j + r.index > r.index
      BY <1>1, <2>1
    <3> QED
      BY <1>1, <3>1
  <2>2. CASE j + r.index > n
    <3>1. j + r.index - n \in 1..n /\ ~(j + r.index - n > r.index)
      BY <1>1, <2>2
    <3> QED
      BY <1>1, <3>1
  <2> QED
    BY <1>1, <2>1, <2>2
<1>5. \A k \in 1..n : (IF k > r.index THEN k - r.index ELSE k + n - r.index) \in 1..n
  BY <1>1
<1>6. DocsOf(r) = {Order(r)[k] : k \in 1..n}
  BY <1>2, <1>3, <1>4, <1>5
<1>7. ASSUME NEW i \in 1..Len(r.inactive)
      PROVE  \E k \in 1..n : k # r.index + 1 /\ Order(r)[k] = r.inactive[i]["file"]
  <2>1. i + 1 \in 1..n /\ Slots(r)[i + 1] = r.inactive[i]
    BY <1>0, <1>1, SlotsAt
  <2>2. PICK k \in 1..n : i + 1 = IF k > r.index THEN k - r.index ELSE k + n - r.index
    BY <1>4, <2>1
  <2>3. k # r.index + 1
    BY <1>1, <2>2
  <2> QED
    BY <1>2, <2>1, <2>2, <2>3
<1>8. Order(r)[r.index + 1] = r.active["file"]
  <2>1. r.index + 1 \in 1..n
    BY <1>1
  <2> QED
    BY <2>1, OrderAt
<1> QED
  BY <1>6, <1>7, <1>8

\* Two rings with the same documents at every place have the same order.
LEMMA OrderIs ==
  ASSUME NEW r, Indexed(r), NEW o \in Seq(Docs), Len(o) = Count(r),
         \A k \in 1..Count(r) : o[k] =
              IF k = r.index + 1 THEN r.active["file"]
              ELSE IF k > r.index THEN r.inactive[k - r.index - 1]["file"]
              ELSE r.inactive[k + Count(r) - r.index - 1]["file"]
  PROVE  Order(r) = o
<1>1. Order(r) \in Seq(Docs) /\ Len(Order(r)) = Len(o)
  BY OrderAt
<1>2. \A k \in 1..Len(Order(r)) : Order(r)[k] = o[k]
  BY <1>1, OrderAt
<1> QED
  BY <1>1, <1>2, SeqEqual

LEMMA NextTurns ==
  ASSUME NEW r, Indexed(r), Count(r) > 1
  PROVE  LET s == Switch(r, "next")  n == Count(r)
         IN /\ Indexed(s) /\ Count(s) = n /\ Order(s) = Order(r)
            /\ s.index = IF r.index + 1 = n THEN 0 ELSE r.index + 1
<1> DEFINE s == Switch(r, "next")
           n == Count(r)
           i == r.index
<1>1. /\ r \in Rings /\ n \in Nat \ {0} /\ n # 1 /\ i \in 0..n - 1 /\ Len(r.inactive) = n - 1
      /\ r.active \in Slot /\ r.inactive \in Seq(Slot)
  BY OrderAt, SlotsAt DEF Indexed, Rings
<1>2. s = [active |-> Head(r.inactive), inactive |-> Append(Tail(r.inactive), r.active),
          index |-> (i + 1) % n]
  <2>1. "next" # "previous"
    OBVIOUS
  <2> QED
    BY <1>1, <2>1, Zenon DEF Switch, SwapWithActive
<1> HIDE DEF s, n, i
<1>3. s.index = IF i + 1 = n THEN 0 ELSE i + 1
  <2>1. (i + 1) % n = IF i + 1 = n THEN 0 ELSE i + 1
    <3>1. (i + 1) \in Nat /\ (i + 1) < 2 * n
      BY <1>1
    <3>2. (i + 1) % n = IF (i + 1) < n THEN (i + 1) ELSE (i + 1) - n
      BY <1>1, <3>1, OnceRound
    <3> QED
      BY <1>1, <3>2
  <2> QED
    BY <1>2, <2>1
<1>4. /\ s.inactive \in Seq(Slot) /\ Len(s.inactive) = n - 1 /\ s.active = r.inactive[1]
      /\ s.active \in Slot
      /\ \A j \in 1..n - 1 : s.inactive[j] = IF j = n - 1 THEN r.active ELSE r.inactive[j + 1]
  <2>1. s.active = Head(r.inactive) /\ s.inactive = Append(Tail(r.inactive), r.active)
    BY <1>2
  <2>2. /\ Tail(r.inactive) \in Seq(Slot) /\ Len(Tail(r.inactive)) = n - 2
        /\ Head(r.inactive) = r.inactive[1] /\ Head(r.inactive) \in Slot
        /\ \A j \in 1..n - 2 : Tail(r.inactive)[j] = r.inactive[j + 1]
    BY <1>1, HeadTailProperties
  <2>3. /\ s.inactive \in Seq(Slot) /\ Len(s.inactive) = n - 1
        /\ \A j \in 1..n - 2 : s.inactive[j] = Tail(r.inactive)[j]
        /\ s.inactive[n - 1] = r.active
    BY <1>1, <2>1, <2>2, AppendProperties
  <2> QED
    BY <1>1, <2>1, <2>2, <2>3
<1>5. Indexed(s) /\ Count(s) = n
  BY <1>1, <1>2, <1>3, <1>4 DEF Count, Indexed, Rings
<1>6. ASSUME NEW k \in 1..n
      PROVE  Order(r)[k] = IF k = s.index + 1 THEN s.active["file"]
                           ELSE IF k > s.index THEN s.inactive[k - s.index - 1]["file"]
                           ELSE s.inactive[k + n - s.index - 1]["file"]
  <2>1. Order(r)[k] = IF k = i + 1 THEN r.active["file"]
                      ELSE IF k > i THEN r.inactive[k - i - 1]["file"]
                      ELSE r.inactive[k + n - i - 1]["file"]
    BY OrderAt DEF n, i
  <2>2. CASE i + 1 = n
    BY <1>1, <1>3, <1>4, <2>1, <2>2
  <2>3. CASE i + 1 # n
    <3>1. s.index = i + 1
      BY <1>3, <2>3
    <3>2. CASE k = i + 1
      <4> DEFINE m == k + n - s.index - 1
      <4>1. m = n - 1 /\ n - 1 \in 1..n - 1 /\ k # s.index + 1 /\ ~(k > s.index)
        BY <1>1, <3>1, <3>2
      <4>2. s.inactive[m] = r.active
        BY <1>4, <4>1
      <4> QED
        BY <2>1, <3>2, <4>1, <4>2
    <3>3. CASE k = i + 2
      BY <1>1, <1>4, <2>1, <2>3, <3>1, <3>3
    <3>4. CASE k > i + 2
      <4> DEFINE m == k - s.index - 1
      <4>1. m \in 1..n - 1 /\ m # n - 1 /\ m + 1 = k - i - 1
        BY <1>1, <3>1, <3>4
      <4>2. s.inactive[m] = r.inactive[k - i - 1]
        BY <1>4, <4>1
      <4> QED
        BY <1>1, <2>1, <3>1, <3>4, <4>2
    <3>5. CASE k <= i
      <4> DEFINE m == k + n - s.index - 1
      <4>1. m \in 1..n - 1 /\ m # n - 1 /\ m + 1 = k + n - i - 1
        BY <1>1, <2>3, <3>1, <3>5
      <4>2. s.inactive[m] = r.inactive[k + n - i - 1]
        BY <1>4, <4>1
      <4> QED
        BY <1>1, <2>1, <3>1, <3>5, <4>2
    <3> QED
      BY <1>1, <3>2, <3>3, <3>4, <3>5
  <2> QED
    BY <2>2, <2>3
<1>7. Order(s) = Order(r)
  <2>1. Order(r) \in Seq(Docs) /\ Len(Order(r)) = Count(s)
    BY <1>5, OrderAt DEF n
  <2>2. \A k \in 1..Count(s) : Order(r)[k] =
          IF k = s.index + 1 THEN s.active["file"]
          ELSE IF k > s.index THEN s.inactive[k - s.index - 1]["file"]
          ELSE s.inactive[k + Count(s) - s.index - 1]["file"]
    BY <1>5, <1>6
  <2> QED
    BY <1>5, <2>1, <2>2, OrderIs
<1> QED
  BY <1>3, <1>5, <1>7 DEF s, n, i

LEMMA PreviousTurns ==
  ASSUME NEW r, Indexed(r), Count(r) > 1
  PROVE  LET s == Switch(r, "previous")  n == Count(r)
         IN /\ Indexed(s) /\ Count(s) = n /\ Order(s) = Order(r)
            /\ s.index = IF r.index = 0 THEN n - 1 ELSE r.index - 1
<1> DEFINE s == Switch(r, "previous")
           n == Count(r)
           i == r.index
<1>1. /\ r \in Rings /\ n \in Nat \ {0} /\ n # 1 /\ i \in 0..n - 1 /\ Len(r.inactive) = n - 1
      /\ r.active \in Slot /\ r.inactive \in Seq(Slot)
  BY OrderAt, SlotsAt DEF Indexed, Rings
<1>2. s = [active |-> Last(r.inactive), inactive |-> <<r.active>> \o Front(r.inactive),
          index |-> (i + n - 1) % n]
  <2>1. "next" # "previous"
    OBVIOUS
  <2> QED
    BY <1>1, <2>1, Zenon DEF Switch, SwapWithActive
<1> HIDE DEF s, n, i
<1>3. s.index = IF i = 0 THEN n - 1 ELSE i - 1
  <2>1. (i + n - 1) % n = IF i = 0 THEN n - 1 ELSE i - 1
    <3>1. (i + n - 1) \in Nat /\ (i + n - 1) < 2 * n
      BY <1>1
    <3>2. (i + n - 1) % n = IF (i + n - 1) < n THEN (i + n - 1) ELSE (i + n - 1) - n
      BY <1>1, <3>1, OnceRound
    <3> QED
      BY <1>1, <3>2
  <2> QED
    BY <1>2, <2>1
<1>4. /\ s.inactive \in Seq(Slot) /\ Len(s.inactive) = n - 1 /\ s.active = r.inactive[n - 1]
      /\ s.active \in Slot
      /\ \A j \in 1..n - 1 : s.inactive[j] = IF j = 1 THEN r.active ELSE r.inactive[j - 1]
  <2>1. s.active = r.inactive[n - 1] /\ s.inactive = <<r.active>> \o Front(r.inactive)
    BY <1>1, <1>2 DEF Last
  <2>2. /\ Front(r.inactive) \in Seq(Slot) /\ Len(Front(r.inactive)) = n - 2
        /\ \A j \in 1..n - 2 : Front(r.inactive)[j] = r.inactive[j]
    BY <1>1, SubSeqProperties DEF Front
  <2>3. <<r.active>> \in Seq(Slot) /\ Len(<<r.active>>) = 1 /\ <<r.active>>[1] = r.active
    BY <1>1
  <2>4. /\ s.inactive \in Seq(Slot) /\ Len(s.inactive) = n - 1 /\ s.inactive[1] = r.active
        /\ \A j \in 2..n - 1 : s.inactive[j] = Front(r.inactive)[j - 1]
    BY <1>1, <2>1, <2>2, <2>3, ConcatProperties
  <2>5. ASSUME NEW j \in 2..n - 1
        PROVE  s.inactive[j] = r.inactive[j - 1]
    <3>1. j - 1 \in 1..n - 2
      BY <1>1
    <3> QED
      BY <2>2, <2>4, <3>1
  <2> QED
    BY <1>1, <2>1, <2>4, <2>5, ElementOfSeq
<1>5. Indexed(s) /\ Count(s) = n
  BY <1>1, <1>2, <1>3, <1>4 DEF Count, Indexed, Rings
<1>6. ASSUME NEW k \in 1..n
      PROVE  Order(r)[k] = IF k = s.index + 1 THEN s.active["file"]
                           ELSE IF k > s.index THEN s.inactive[k - s.index - 1]["file"]
                           ELSE s.inactive[k + n - s.index - 1]["file"]
  <2>1. Order(r)[k] = IF k = i + 1 THEN r.active["file"]
                      ELSE IF k > i THEN r.inactive[k - i - 1]["file"]
                      ELSE r.inactive[k + n - i - 1]["file"]
    BY OrderAt DEF n, i
  <2>2. CASE i = 0
    BY <1>1, <1>3, <1>4, <2>1, <2>2
  <2>3. CASE i # 0
    <3>1. s.index = i - 1
      BY <1>3, <2>3
    <3>2. CASE k < i
      <4> DEFINE m == k + n - s.index - 1
      <4>1. m \in 1..n - 1 /\ m # 1 /\ m - 1 = k + n - i - 1
        BY <1>1, <3>1, <3>2
      <4>2. s.inactive[m] = r.inactive[k + n - i - 1]
        BY <1>4, <4>1
      <4> QED
        BY <1>1, <2>1, <3>1, <3>2, <4>2
    <3>3. CASE k = i
      BY <1>1, <1>4, <2>1, <2>3, <3>1, <3>3
    <3>4. CASE k > i
      <4> DEFINE m == k - s.index - 1
      <4>1. m \in 1..n - 1 /\ m = k - i
        BY <1>1, <2>3, <3>1, <3>4
      <4> HIDE DEF m
      <4>2. s.inactive[m] = IF m = 1 THEN r.active ELSE r.inactive[m - 1]
        BY <1>4, <4>1
      <4>3. (m = 1 <=> k = i + 1) /\ m - 1 = k - i - 1
        BY <1>1, <4>1
      <4>4. s.inactive[m] = IF k = i + 1 THEN r.active ELSE r.inactive[k - i - 1]
        BY <4>2, <4>3
      <4> QED
        BY <1>1, <2>1, <3>1, <3>4, <4>4 DEF m
    <3> QED
      BY <1>1, <3>2, <3>3, <3>4
  <2> QED
    BY <2>2, <2>3
<1>7. Order(s) = Order(r)
  <2>1. Order(r) \in Seq(Docs) /\ Len(Order(r)) = Count(s)
    BY <1>5, OrderAt DEF n
  <2>2. \A k \in 1..Count(s) : Order(r)[k] =
          IF k = s.index + 1 THEN s.active["file"]
          ELSE IF k > s.index THEN s.inactive[k - s.index - 1]["file"]
          ELSE s.inactive[k + Count(s) - s.index - 1]["file"]
    BY <1>5, <1>6
  <2> QED
    BY <1>5, <2>1, <2>2, OrderIs
<1> QED
  BY <1>3, <1>5, <1>7 DEF s, n, i

\* A switch turns the ring by one place and leaves its order.
LEMMA SwitchTurns ==
  ASSUME NEW r, Indexed(r), NEW direction \in {"next", "previous"}
  PROVE  LET s == Switch(r, direction)  n == Count(r)
         IN /\ Indexed(s) /\ Count(s) = n /\ Order(s) = Order(r)
            /\ n = 1 => s = r
<1>1. Count(r) \in Nat \ {0}
  BY OrderAt
<1>2. CASE Count(r) = 1
  <2>1. Switch(r, direction) = r
    BY <1>2 DEF Switch
  <2> QED
    BY <2>1
<1>3. CASE Count(r) > 1
  <2>1. CASE direction = "next"
    BY <1>3, <2>1, NextTurns
  <2>2. CASE direction = "previous"
    BY <1>3, <2>2, PreviousTurns
  <2> QED
    BY <2>1, <2>2
<1> QED
  BY <1>1, <1>2, <1>3

\* A new document goes right after the one shown, and is shown.
LEMMA InsertedAt ==
  ASSUME NEW r, Indexed(r), NEW d \in Docs
  PROVE  LET s == Inserted(r, d)  n == Count(r)
         IN /\ Indexed(s) /\ Count(s) = n + 1 /\ s.index = r.index + 1
            /\ \A k \in 1..n + 1 : Order(s)[k] =
                 IF k <= r.index + 1 THEN Order(r)[k]
                 ELSE IF k = r.index + 2 THEN d ELSE Order(r)[k - 1]
<1> DEFINE q == [r EXCEPT !.inactive = <<SlotOf(d)>> \o @]
           n == Count(r)
           i == r.index
<1>1. /\ r \in Rings /\ n \in Nat \ {0} /\ i \in 0..n - 1 /\ Len(r.inactive) = n - 1
      /\ r.active \in Slot /\ r.inactive \in Seq(Slot) /\ SlotOf(d) \in Slot
  BY OrderAt, SlotsAt, SlotDoc DEF Indexed, Rings
<1>2. /\ q.active = r.active /\ q.index = i /\ q.inactive = <<SlotOf(d)>> \o r.inactive
      /\ q.inactive \in Seq(Slot) => q \in Rings
  BY <1>1 DEF Rings
<1> HIDE DEF q, n, i
<1>3. /\ q.inactive \in Seq(Slot) /\ Len(q.inactive) = n /\ q.inactive[1] = SlotOf(d)
      /\ \A j \in 2..n : q.inactive[j] = r.inactive[j - 1]
  <2>1. <<SlotOf(d)>> \in Seq(Slot) /\ Len(<<SlotOf(d)>>) = 1 /\ <<SlotOf(d)>>[1] = SlotOf(d)
    BY <1>1
  <2>2. q.inactive = <<SlotOf(d)>> \o r.inactive
    BY <1>2
  <2> QED
    BY <1>1, <2>1, <2>2, ConcatProperties
<1>4. Indexed(q) /\ Count(q) = n + 1 /\ q.index = i
  BY <1>1, <1>2, <1>3 DEF Count, Indexed, Rings
<1>5. ASSUME NEW k \in 1..n + 1
      PROVE  Order(q)[k] = IF k <= i + 1 THEN Order(r)[k]
                           ELSE IF k = i + 2 THEN d ELSE Order(r)[k - 1]
  <2>1. Order(q)[k] = IF k = i + 1 THEN q.active["file"]
                      ELSE IF k > i THEN q.inactive[k - i - 1]["file"]
                      ELSE q.inactive[k + n - i]["file"]
    <3>1. Order(q)[k] = IF k = i + 1 THEN q.active["file"]
                        ELSE IF k > i THEN q.inactive[k - i - 1]["file"]
                        ELSE q.inactive[k + (n + 1) - i - 1]["file"]
      BY <1>4, OrderAt
    <3>2. k + (n + 1) - i - 1 = k + n - i
      BY <1>1
    <3> QED
      BY <3>1, <3>2
  <2>2. \A m \in 1..n : Order(r)[m] =
          IF m = i + 1 THEN r.active["file"]
          ELSE IF m > i THEN r.inactive[m - i - 1]["file"] ELSE r.inactive[m + n - i - 1]["file"]
    BY OrderAt DEF n, i
  <2>3. CASE k <= i
    <3>1. k + n - i \in 2..n
      BY <1>1, <2>3
    <3>2. q.inactive[k + n - i] = r.inactive[(k + n - i) - 1]
      BY <1>3, <3>1
    <3>3. (k + n - i) - 1 = k + n - i - 1
      BY <1>1
    <3> QED
      BY <1>1, <2>1, <2>2, <2>3, <3>2, <3>3
  <2>4. CASE k = i + 1
    <3>1. Order(q)[k] = r.active["file"]
      BY <1>2, <2>1, <2>4
    <3>2. Order(r)[k] = r.active["file"]
      BY <1>1, <2>2, <2>4
    <3> QED
      BY <1>1, <2>4, <3>1, <3>2
  <2>5. CASE k = i + 2
    BY <1>1, <1>3, <2>1, <2>5, SlotDoc
  <2>6. CASE k > i + 2
    <3>1. k - i - 1 \in 2..n /\ k - 1 \in 1..n /\ (k - i - 1) - 1 = (k - 1) - i - 1
      BY <1>1, <2>6
    <3>2. q.inactive[k - i - 1] = r.inactive[(k - 1) - i - 1]
      BY <1>3, <3>1
    <3> QED
      BY <1>1, <2>1, <2>2, <2>6, <3>1, <3>2
  <2> QED
    BY <1>1, <2>3, <2>4, <2>5, <2>6
<1>6. /\ Indexed(Switch(q, "next")) /\ Count(Switch(q, "next")) = n + 1
      /\ Order(Switch(q, "next")) = Order(q) /\ Switch(q, "next").index = i + 1
  BY <1>1, <1>4, NextTurns
<1> QED
  BY <1>5, <1>6 DEF q, n, i, Inserted

LEMMA ReplacedAt ==
  ASSUME NEW r, Indexed(r), NEW d \in Docs
  PROVE  LET s == Replaced(r, d)  n == Count(r)
         IN /\ Indexed(s) /\ Count(s) = n /\ s.index = r.index
            /\ \A k \in 1..n : Order(s)[k] = IF k = r.index + 1 THEN d ELSE Order(r)[k]
<1> DEFINE s == Replaced(r, d)
<1>1. r \in Rings /\ SlotOf(d) \in Slot /\ SlotOf(d)["file"] = d
  BY SlotDoc DEF Indexed
<1>2. s = [active |-> SlotOf(d), inactive |-> r.inactive, index |-> r.index]
  BY <1>1 DEF Replaced, SwapWithActive, Rings
<1> HIDE DEF s
<1>3. Indexed(s) /\ Count(s) = Count(r)
  BY <1>1, <1>2 DEF Indexed, Rings, Count
<1>4. ASSUME NEW k \in 1..Count(r)
      PROVE  Order(s)[k] = IF k = r.index + 1 THEN d ELSE Order(r)[k]
  <2>1. s.index = r.index /\ s.inactive = r.inactive /\ s.active["file"] = d
    BY <1>1, <1>2
  <2>2. Order(s)[k] = IF k = s.index + 1 THEN s.active["file"]
                      ELSE IF k > s.index THEN s.inactive[k - s.index - 1]["file"]
                      ELSE s.inactive[k + Count(s) - s.index - 1]["file"]
    BY <1>3, OrderAt
  <2>3. Order(r)[k] = IF k = r.index + 1 THEN r.active["file"]
                      ELSE IF k > r.index THEN r.inactive[k - r.index - 1]["file"]
                      ELSE r.inactive[k + Count(r) - r.index - 1]["file"]
    BY OrderAt
  <2> QED
    BY <1>3, <2>1, <2>2, <2>3
<1> QED
  BY <1>2, <1>3, <1>4 DEF s

\* Closing the only buffer leaves a blank one.
LEMMA LastClosed ==
  ASSUME NEW r, Indexed(r), Count(r) = 1, NEW d \in Docs
  PROVE  LET s == Closed(r, d)
         IN Indexed(s) /\ Count(s) = 1 /\ s.index = 0 /\ Order(s)[1] = d
<1> DEFINE s == Closed(r, d)
<1>1. r \in Rings /\ SlotOf(d) \in Slot /\ SlotOf(d)["file"] = d /\ r.inactive = <<>>
  BY SlotDoc, SlotsAt, EmptySeq DEF Indexed, Rings
<1>2. s = [active |-> SlotOf(d), inactive |-> <<>>, index |-> 0]
  BY <1>1 DEF Closed, SwapWithActive
<1> HIDE DEF s
<1>3. Indexed(s) /\ Count(s) = 1
  BY <1>1, <1>2 DEF Indexed, Rings, Count
<1>4. Order(s)[1] = d
  BY <1>1, <1>2, <1>3, OrderAt
<1> QED
  BY <1>2, <1>3, <1>4 DEF s

\* Closing another one leaves the rest in their order, and the next one is shown.
LEMMA ClosedAt ==
  ASSUME NEW r, Indexed(r), Count(r) > 1, NEW d
  PROVE  LET s == Closed(r, d)  n == Count(r)
         IN /\ Indexed(s) /\ Count(s) = n - 1
            /\ s.index = IF r.index = n - 1 THEN 0 ELSE r.index
            /\ \A k \in 1..n - 1 : Order(s)[k] =
                 IF k <= r.index THEN Order(r)[k] ELSE Order(r)[k + 1]
<1> DEFINE s == Closed(r, d)
           n == Count(r)
           i == r.index
<1>1. /\ r \in Rings /\ n \in Nat \ {0} /\ n > 1 /\ i \in 0..n - 1 /\ Len(r.inactive) = n - 1
      /\ r.active \in Slot /\ r.inactive \in Seq(Slot)
  BY OrderAt, SlotsAt DEF Indexed, Rings
<1>2. r.inactive # <<>>
  BY <1>1
<1>3. /\ Tail(r.inactive) \in Seq(Slot) /\ Len(Tail(r.inactive)) = n - 2
      /\ Head(r.inactive) = r.inactive[1] /\ Head(r.inactive) \in Slot
      /\ \A j \in 1..n - 2 : Tail(r.inactive)[j] = r.inactive[j + 1]
  BY <1>1, <1>2, HeadTailProperties
<1>4. s = [active |-> Head(r.inactive), inactive |-> Tail(r.inactive),
           index |-> IF Tail(r.inactive) = <<>> \/ i > n - 2 THEN 0 ELSE i]
  BY <1>2, <1>3 DEF Closed, SwapWithActive
<1> HIDE DEF s, n, i
<1>5. s.index = IF i = n - 1 THEN 0 ELSE i
  <2>1. CASE Tail(r.inactive) = <<>>
    <3>1. n = 2
      <4>1. Len(Tail(r.inactive)) = 0
        BY <2>1, EmptySeq
      <4>2. Len(Tail(r.inactive)) = n - 2
        BY <1>3
      <4>3. n - 2 = 0 /\ n \in Nat
        BY <1>1, <4>1, <4>2, Zenon
      <4> QED
        BY <4>3
    <3> QED
      BY <1>1, <1>4, <2>1, <3>1
  <2>2. CASE Tail(r.inactive) # <<>>
    BY <1>1, <1>4, <2>2
  <2> QED
    BY <2>1, <2>2
<1>6. /\ s.active = r.inactive[1] /\ s.active \in Slot /\ s.inactive \in Seq(Slot)
      /\ Len(s.inactive) = n - 2 /\ \A j \in 1..n - 2 : s.inactive[j] = r.inactive[j + 1]
  BY <1>3, <1>4
<1>7. Indexed(s) /\ Count(s) = n - 1
  BY <1>1, <1>4, <1>5, <1>6 DEF Indexed, Rings, Count
<1>8. ASSUME NEW k \in 1..n - 1
      PROVE  Order(s)[k] = IF k <= i THEN Order(r)[k] ELSE Order(r)[k + 1]
  <2>1. Order(s)[k] = IF k = s.index + 1 THEN s.active["file"]
                      ELSE IF k > s.index THEN s.inactive[k - s.index - 1]["file"]
                      ELSE s.inactive[k + (n - 1) - s.index - 1]["file"]
    BY <1>7, OrderAt
  <2>2. \A m \in 1..n : Order(r)[m] =
          IF m = i + 1 THEN r.active["file"]
          ELSE IF m > i THEN r.inactive[m - i - 1]["file"] ELSE r.inactive[m + n - i - 1]["file"]
    BY OrderAt DEF n, i
  <2>3. CASE i = n - 1
    <3>1. Order(r)[k] = r.inactive[k]["file"]
      BY <1>1, <2>2, <2>3
    <3>2. s.index = 0
      BY <1>5, <2>3
    <3>3. CASE k = 1
      BY <1>1, <1>6, <2>1, <2>3, <3>1, <3>2, <3>3
    <3>4. CASE k > 1
      <4>1. s.inactive[k - 1] = r.inactive[k]
        BY <1>1, <1>6, <3>4
      <4> QED
        BY <1>1, <2>1, <2>3, <3>1, <3>2, <3>4, <4>1
    <3> QED
      BY <3>3, <3>4
  <2>4. CASE i # n - 1
    <3>1. s.index = i
      BY <1>5, <2>4
    <3>2. CASE k <= i
      <4>1. s.inactive[k + (n - 1) - i - 1] = r.inactive[k + n - i - 1]
        <5> DEFINE m == k + (n - 1) - i - 1
        <5>1. m \in 1..n - 2 /\ m + 1 = k + n - i - 1
          BY <1>1, <2>4, <3>2
        <5>2. s.inactive[m] = r.inactive[m + 1]
          BY <1>6, <5>1
        <5> QED
          BY <5>1, <5>2
      <4> QED
        BY <1>1, <2>1, <2>2, <3>1, <3>2, <4>1
    <3>3. CASE k = i + 1
      BY <1>1, <1>6, <2>1, <2>2, <3>1, <3>3
    <3>4. CASE k > i + 1
      <4>1. k + 1 \in 1..n /\ s.inactive[k - i - 1] = r.inactive[(k + 1) - i - 1]
        <5> DEFINE m == k - i - 1
        <5>1. m \in 1..n - 2 /\ m + 1 = (k + 1) - i - 1 /\ k + 1 \in 1..n
          BY <1>1, <3>4
        <5>2. s.inactive[m] = r.inactive[m + 1]
          BY <1>6, <5>1
        <5> QED
          BY <5>1, <5>2
      <4>2. k # i + 1 /\ k > i /\ ~(k <= i) /\ k + 1 # i + 1 /\ k + 1 > i
        BY <1>1, <3>4
      <4>3. Order(s)[k] = s.inactive[k - i - 1]["file"]
        BY <2>1, <3>1, <4>2
      <4>4. Order(r)[k + 1] = r.inactive[(k + 1) - i - 1]["file"]
        BY <2>2, <4>1, <4>2
      <4> QED
        BY <4>1, <4>2, <4>3, <4>4
    <3> QED
      BY <1>1, <3>2, <3>3, <3>4
  <2> QED
    BY <2>3, <2>4
<1> QED
  BY <1>5, <1>7, <1>8 DEF s, n, i

-----------------------------------------------------------------------------
(* The loops over Switch. *)

\* Some number of switches, each of which may be left out.
Turns(f, r, n, direction) ==
  /\ f[0] = r
  /\ \A k \in 1..n : f[k] \in {f[k - 1], Switch(f[k - 1], direction)}

\* They leave the order.
LEMMA TurnsKeepOrder ==
  ASSUME NEW r, Indexed(r), NEW n \in Nat, NEW f, NEW direction \in {"next", "previous"},
         Turns(f, r, n, direction)
  PROVE  \A k \in 0..n : Indexed(f[k]) /\ Count(f[k]) = Count(r) /\ Order(f[k]) = Order(r)
<1> DEFINE Kept(k) == Indexed(f[k]) /\ Count(f[k]) = Count(r) /\ Order(f[k]) = Order(r)
           T == {k \in 0..n : ~Kept(k)}
<1>1. SUFFICES ASSUME T # {}
               PROVE  FALSE
  BY <1>1
<1>2. PICK k \in T : \A j \in T : k <= j
  <2>1. T \in SUBSET Nat
    OBVIOUS
  <2> HIDE DEF T
  <2> QED
    BY <1>1, <2>1, Least
<1>3. k # 0
  BY <1>2 DEF Turns
<1>4. k \in 1..n /\ k - 1 \in 0..n /\ k - 1 \notin T
  BY <1>2, <1>3
<1>5. Kept(k - 1) /\ f[k] \in {f[k - 1], Switch(f[k - 1], direction)}
  BY <1>4 DEF Turns
<1>6. Kept(k)
  BY <1>5, SwitchTurns
<1> QED
  BY <1>2, <1>6

\* One round of a loop that stops at the indexes `stops`.
Round(r, f, k, direction, stops) ==
  IF k = 0 THEN r
  ELSE IF f[k - 1].index \in stops THEN f[k - 1] ELSE Switch(f[k - 1], direction)

Loop(f, r, n, direction, stops) == f = [k \in 0..n |-> Round(r, f, k, direction, stops)]

\* The loops are well defined.
LEMMA LoopExists ==
  ASSUME NEW r, NEW n \in Nat, NEW direction, NEW stops
  PROVE  \E f : Loop(f, r, n, direction, stops)
<1> USE DEF Loop
<1> DEFINE Step(f, k) == Round(r, f, k, direction, stops)
           T == {m \in Nat : ~\E f : f = [k \in 0..m |-> Step(f, k)]}
<1>1. T \in SUBSET Nat /\ (n \notin T => \E f : f = [k \in 0..n |-> Step(f, k)])
  OBVIOUS
<1>2. SUFFICES ASSUME T # {}
               PROVE  FALSE
  BY <1>1
<1>3. PICK m \in T : \A j \in T : m <= j
  <2> HIDE DEF T
  <2> QED
    BY <1>1, <1>2, Least
<1>4. m \in Nat /\ ~\E f : f = [k \in 0..m |-> Step(f, k)]
  BY <1>3
<1>5. m # 0
  <2> DEFINE g == [k \in 0..0 |-> r]
  <2>1. g = [k \in 0..0 |-> Step(g, k)]
    BY DEF Round
  <2> QED
    BY <1>4, <2>1
<1>6. m - 1 \in Nat /\ m - 1 \notin T
  <2>1. m - 1 \in Nat /\ ~(m <= m - 1)
    BY <1>4, <1>5
  <2> HIDE DEF T
  <2> QED
    BY <1>3, <2>1
<1>7. PICK f : f = [k \in 0..m - 1 |-> Step(f, k)]
  BY <1>6
<1> DEFINE g == [k \in 0..m |-> IF k = m THEN Step(f, m) ELSE f[k]]
<1>8. ASSUME NEW k \in 0..m
      PROVE  g[k] = Step(g, k)
  <2>1. k # 0 => k - 1 \in 0..m /\ k - 1 # m /\ g[k - 1] = f[k - 1]
    BY <1>4
  <2>2. Step(g, k) = Step(f, k)
    BY <2>1 DEF Round
  <2>3. CASE k = m
    BY <2>2, <2>3
  <2>4. CASE k # m
    <3>1. k \in 0..m - 1 /\ g[k] = f[k]
      BY <1>4, <2>4
    <3>2. f[k] = Step(f, k)
      BY <1>7, <3>1
    <3> QED
      BY <2>2, <3>1, <3>2
  <2> QED
    BY <2>3, <2>4
<1>9. g = [k \in 0..m |-> Step(g, k)]
  BY <1>8
<1> QED
  BY <1>4, <1>9

\* Forward by any number of places.
LEMMA SwitchedByKeepsOrder ==
  ASSUME NEW r, Indexed(r), NEW n \in Nat
  PROVE  /\ Indexed(SwitchedBy(r, n)) /\ Count(SwitchedBy(r, n)) = Count(r)
         /\ Order(SwitchedBy(r, n)) = Order(r)
<1> DEFINE Step(f, k) == IF k = 0 THEN r ELSE Switch(f[k - 1], "next")
           on == CHOOSE f : f = [k \in 0..n |-> Step(f, k)]
<1>1. on = [k \in 0..n |-> Step(on, k)]
  <2>1. \E f : Loop(f, r, n, "next", {})
    BY LoopExists
  <2>2. \A f, k : Round(r, f, k, "next", {}) = Step(f, k)
    BY DEF Round
  <2>3. \E f : f = [k \in 0..n |-> Step(f, k)]
    <3>1. PICK f : f = [k \in 0..n |-> Round(r, f, k, "next", {})]
      BY <2>1 DEF Loop
    <3>2. f = [k \in 0..n |-> Step(f, k)]
      BY <2>2, <3>1
    <3> QED
      BY <3>2
  <2> QED
    BY <2>3, Zenon
<1>2. SwitchedBy(r, n) = on[n]
  BY DEF SwitchedBy
<1> HIDE DEF on
<1>3. Turns(on, r, n, "next")
  BY <1>1 DEF Turns
<1> QED
  BY <1>2, <1>3, TurnsKeepOrder

\* Back to a place of the ring, one at a time.
LEMMA ReturnToReturns ==
  ASSUME NEW r, Indexed(r), NEW target \in Nat
  PROVE  LET s == ReturnTo(r, target)
         IN /\ Indexed(s) /\ Count(s) = Count(r) /\ Order(s) = Order(r)
            /\ target < Count(r) => s.index = target
<1> DEFINE n == Count(r)
           Step(f, k) == IF k = 0 THEN r
                         ELSE IF f[k - 1].index = target THEN f[k - 1]
                         ELSE Switch(f[k - 1], "previous")
           back == CHOOSE f : f = [k \in 0..n |-> Step(f, k)]
<1>0. n \in Nat \ {0} /\ r.index \in 0..n - 1
  BY OrderAt
<1>1. back = [k \in 0..n |-> Step(back, k)]
  <2>1. \E f : Loop(f, r, n, "previous", {target})
    BY <1>0, LoopExists
  <2>2. \A f, k : Round(r, f, k, "previous", {target}) = Step(f, k)
    BY DEF Round
  <2>3. \E f : f = [k \in 0..n |-> Step(f, k)]
    <3>1. PICK f : f = [k \in 0..n |-> Round(r, f, k, "previous", {target})]
      BY <2>1 DEF Loop
    <3>2. f = [k \in 0..n |-> Step(f, k)]
      BY <2>2, <3>1
    <3> QED
      BY <3>2
  <2> QED
    BY <2>3, Zenon
<1>2. ReturnTo(r, target) = back[n]
  BY DEF ReturnTo
<1> HIDE DEF back, n
<1>3. back[0] = r /\ \A k \in 1..n : back[k] = Step(back, k)
  BY <1>0, <1>1
<1>4. \A k \in 0..n : Indexed(back[k]) /\ Count(back[k]) = n /\ Order(back[k]) = Order(r)
  <2>1. Turns(back, r, n, "previous")
    BY <1>3 DEF Turns
  <2> QED
    BY <1>0, <2>1, TurnsKeepOrder DEF n
\* Until it is there, the k-th round is k places further back.
<1> DEFINE Back(k) == IF k <= r.index THEN r.index - k ELSE r.index + n - k
           Way(k) == back[k].index = Back(k) /\ \A j \in 0..k - 1 : Back(j) # target
           T == {k \in 0..n - 1 : back[k].index # target /\ ~Way(k)}
<1>5. T = {}
  <2>1. T \in SUBSET Nat
    OBVIOUS
  <2> SUFFICES ASSUME T # {}
               PROVE  FALSE
    OBVIOUS
  <2>2. PICK k \in T : \A j \in T : k <= j
    <3> HIDE DEF T
    <3> QED
      BY <2>1, Least
  <2>3. k \in 0..n - 1 /\ back[k].index # target /\ ~Way(k)
    BY <2>2
  <2>4. k # 0
    BY <1>0, <1>3, <2>3
  <2>5. k - 1 \in 0..n - 1 /\ k - 1 \notin T
    <3>1. k - 1 \in 0..n - 1 /\ ~(k <= k - 1)
      BY <1>0, <2>3, <2>4
    <3> HIDE DEF T
    <3> QED
      BY <2>2, <3>1
  <2>6. back[k - 1].index # target /\ back[k] = Switch(back[k - 1], "previous")
    BY <1>0, <1>3, <2>3, <2>4
  <2>7. Way(k - 1)
    BY <2>5, <2>6
  <2>8. back[k].index = IF back[k - 1].index = 0 THEN n - 1 ELSE back[k - 1].index - 1
    <3>1. Indexed(back[k - 1]) /\ Count(back[k - 1]) = n /\ n > 1
      BY <1>0, <1>4, <2>3, <2>4, <2>5
    <3> QED
      BY <2>6, <3>1, PreviousTurns
  <2>9. back[k].index = Back(k)
    BY <1>0, <2>3, <2>4, <2>7, <2>8
  <2>10. \A j \in 0..k - 1 : Back(j) # target
    <3>1. Back(k - 1) # target
      BY <2>6, <2>7
    <3>2. \A j \in 0..k - 1 : j = k - 1 \/ j \in 0..(k - 1) - 1
      BY <2>3
    <3> QED
      BY <2>7, <3>1, <3>2
  <2> QED
    BY <2>3, <2>9, <2>10
<1>6. ASSUME target < n
      PROVE  back[n - 1].index = target
  <2>1. SUFFICES ASSUME back[n - 1].index # target
                 PROVE  FALSE
    OBVIOUS
  <2>2. Way(n - 1)
    BY <1>0, <1>5, <2>1
  <2>3. \E j \in 0..n - 1 : Back(j) = target
    <3>1. CASE target <= r.index
      <4>1. r.index - target \in 0..n - 1 /\ Back(r.index - target) = target
        BY <1>0, <3>1
      <4> QED
        BY <4>1
    <3>2. CASE target > r.index
      <4>1. r.index + n - target \in 0..n - 1 /\ Back(r.index + n - target) = target
        BY <1>0, <1>6, <3>2
      <4> QED
        BY <4>1
    <3> QED
      BY <1>0, <3>1, <3>2
  <2>4. \A j \in 0..n - 1 : j = n - 1 \/ j \in 0..(n - 1) - 1
    BY <1>0
  <2> QED
    BY <2>1, <2>2, <2>3, <2>4
<1>7. target < n => back[n].index = target
  BY <1>0, <1>3, <1>6
<1> QED
  BY <1>0, <1>2, <1>4, <1>7 DEF n

-----------------------------------------------------------------------------
(* The inductive invariant. *)

Typed ==
  /\ Indexed(ring)
  /\ path \in [Docs -> Paths \cup {NoPath}] /\ unsaved \in [Docs -> BOOLEAN]
  /\ detour # <<>> => detour[1] \in Nat

\* No document is in two slots.
Distinct(r) == \A j, k \in 1..Count(r) : Order(r)[j] = Order(r)[k] => j = k

OneBufferPerFile ==
  \A d, e \in Open : d # e /\ path[d] # NoPath =>
    path[e] # path[d] /\ (onDisk = "always" => {path[d], path[e]} # {Config, Alias})

\* What an armed confirmation has been asked about is all that it may drop.
Asked ==
  /\ confirmation = "quit" => DirtyDocs \subseteq warned
  /\ confirmation = "discard" => active \in warned

\* While no buffer comes or goes, the detour's buffer stays right after the place it began at.
WayBack ==
  detour # <<>> /\ invoker # <<>> /\ invoker[3] =>
    /\ detour[1] + 2 <= Count(ring)
    /\ Order(ring)[detour[1] + 1] = invoker[1] /\ Order(ring)[detour[1] + 2] = invoker[2]

\* Nothing is edited while the configuration that was asked for on the command line is
\* about to be opened.
NothingYet ==
  /\ focus.exit => focus.kind = "create"
  /\ focus.exit \/ focus.kind = "startup" => DirtyDocs = {}

RingInv == Typed /\ Distinct(ring) /\ OneBufferPerFile /\ Asked /\ WayBack /\ NothingYet

-----------------------------------------------------------------------------
(* What a step does to the list. *)

Goes == Indexed(ring') /\ Count(ring') = Count(ring) /\ Order(ring') = Order(ring)

Adds(d, p) ==
  /\ d \in Unused /\ Loaded(ring', d, p)
  /\ Indexed(ring') /\ Count(ring') = Count(ring) + 1 /\ ring'.index = ring.index + 1
  /\ \A k \in 1..Count(ring) + 1 : Order(ring')[k] =
       IF k <= ring.index + 1 THEN Order(ring)[k]
       ELSE IF k = ring.index + 2 THEN d ELSE Order(ring)[k - 1]

Drops ==
  /\ Loaded(ring', NoDoc, NoPath) /\ Count(ring) > 1
  /\ Indexed(ring') /\ Count(ring') = Count(ring) - 1
  /\ \A k \in 1..Count(ring) - 1 : Order(ring')[k] =
       IF k <= ring.index THEN Order(ring)[k] ELSE Order(ring)[k + 1]

Renews(d, p) ==
  /\ d \in Unused /\ Loaded(ring', d, p)
  /\ Indexed(ring') /\ Count(ring') = Count(ring) /\ ring'.index = ring.index
  /\ \A k \in 1..Count(ring) : Order(ring')[k] = IF k = ring.index + 1 THEN d ELSE Order(ring)[k]

\* No open buffer shows the file p.
NotShown(p, there) ==
  \A e \in Open : path[e] # NoPath => path[e] # p /\ (there # "no" => {path[e], p} # {Config, Alias})

LEMMA SwitchGoes ==
  ASSUME Typed, SwitchBuffer
  PROVE  Goes
  BY SwitchTurns DEF Typed, SwitchBuffer, Goes

LEMMA NewAdds ==
  ASSUME Typed, New
  PROVE  \E d \in Docs : Adds(d, NoPath)
<1>1. PICK d \in Unused : Loaded(Inserted(ring, d), d, NoPath)
  BY DEF New
<1>2. ring' = Inserted(ring, d) /\ d \in Docs
  BY <1>1 DEF Loaded, Unused
<1>3. Loaded(ring', d, NoPath)
  BY <1>1, <1>2
<1> QED
  BY <1>1, <1>2, <1>3, InsertedAt DEF Typed, Adds

\* Whether a slot shows a file, in terms of the list.
LEMMA NotShownIs ==
  ASSUME Typed, NEW p \in Paths, NEW there, ~Represents(ring.active, p, there),
         \A i \in DOMAIN ring.inactive : ~Represents(ring.inactive[i], p, there)
  PROVE  NotShown(p, there)
<1> SUFFICES ASSUME NEW e \in Open, path[e] # NoPath
             PROVE  path[e] # p /\ (there # "no" => {path[e], p} # {Config, Alias})
  BY DEF NotShown
<1>1. PICK j \in 1..Count(ring) : e = Slots(ring)[j]["file"]
        /\ Slots(ring)[j] = IF j = 1 THEN ring.active ELSE ring.inactive[j - 1]
  <2>1. DOMAIN Slots(ring) = 1..Count(ring)
    BY SlotsAt, LenProperties DEF Typed, Indexed
  <2> QED
    BY <2>1, SlotsAt DEF Open, DocsOf, ToSet, Typed, Indexed
<1>2. ~Represents(Slots(ring)[j], p, there)
  <2>1. Count(ring) \in Nat /\ Len(ring.inactive) = Count(ring) - 1 /\ DOMAIN ring.inactive = 1..Len(ring.inactive)
    BY SlotsAt, LenProperties DEF Typed, Indexed, Rings
  <2>2. j # 1 => j - 1 \in DOMAIN ring.inactive
    BY <2>1
  <2> QED
    BY <1>1, <2>2
<1> QED
  BY <1>1, <1>2 DEF Represents, Same

LEMMA OpenGoesOrAdds ==
  ASSUME Typed, NEW p \in Paths, NEW there, OpenFileBuffer(p, there)
  PROVE  \/ UNCHANGED <<ring, documents>>
         \/ Goes /\ UNCHANGED documents
         \/ \E d \in Docs : Adds(d, p) /\ NotShown(p, there)
<1> DEFINE at == {i \in DOMAIN ring.inactive : Represents(ring.inactive[i], p, there)}
<1>1. CASE Represents(ring.active, p, there)
  BY <1>1 DEF OpenFileBuffer
<1>2. CASE ~Represents(ring.active, p, there) /\ at # {}
  <2>1. PICK i \in at : ring' = SwitchedBy(ring, i) /\ UNCHANGED documents
    BY <1>2 DEF OpenFileBuffer
  <2>2. i \in Nat
    <3>1. DOMAIN ring.inactive = 1..Len(ring.inactive) /\ Len(ring.inactive) \in Nat
      BY LenProperties DEF Typed, Indexed, Rings
    <3> QED
      BY <3>1
  <2> QED
    BY <2>1, <2>2, SwitchedByKeepsOrder DEF Typed, Goes
<1>3. CASE ~Represents(ring.active, p, there) /\ at = {}
  <2>1. PICK d \in Unused : Loaded(Inserted(ring, d), d, p)
    BY <1>3 DEF OpenFileBuffer
  <2>2. ring' = Inserted(ring, d) /\ d \in Docs
    BY <2>1 DEF Loaded, Unused
  <2>3. Loaded(ring', d, p)
    BY <2>1, <2>2
  <2>4. NotShown(p, there)
    BY <1>3, NotShownIs
  <2> QED
    BY <2>1, <2>2, <2>3, <2>4, InsertedAt DEF Typed, Adds
<1> QED
  BY <1>1, <1>2, <1>3

LEMMA CloseDropsOrRenews ==
  ASSUME Typed, CloseBuffer
  PROVE  \/ Drops /\ ring'.index = IF ring.index = Count(ring) - 1 THEN 0 ELSE ring.index
         \/ Count(ring) = 1 /\ \E d \in Docs : Renews(d, NoPath)
<1>1. Count(ring) \in Nat \ {0} /\ ring.index \in 0..Count(ring) - 1
      /\ (ring.inactive = <<>> <=> Count(ring) = 1)
  BY OrderAt, SlotsAt, EmptySeq DEF Typed, Indexed, Rings
<1>2. CASE ring.inactive = <<>>
  <2>1. PICK d \in Unused : Loaded(Closed(ring, d), d, NoPath)
    BY <1>2 DEF CloseBuffer, CloseAnd
  <2>2. ring' = Closed(ring, d) /\ d \in Docs
    BY <2>1 DEF Loaded, Unused
  <2>3. Loaded(ring', d, NoPath)
    BY <2>1, <2>2
  <2> QED
    BY <1>1, <1>2, <2>1, <2>2, <2>3, LastClosed DEF Typed, Renews
<1>3. CASE ring.inactive # <<>>
  <2>1. Loaded(Closed(ring, NoDoc), NoDoc, NoPath)
    BY <1>3 DEF CloseBuffer, CloseAnd
  <2>2. ring' = Closed(ring, NoDoc)
    BY <2>1 DEF Loaded
  <2>3. Loaded(ring', NoDoc, NoPath)
    BY <2>1, <2>2
  <2> QED
    BY <1>1, <1>3, <2>2, <2>3, ClosedAt DEF Typed, Drops
<1> QED
  BY <1>2, <1>3

\* Leaving the configuration drops its buffer, and goes to the place of the detour.
LEMMA LeaveDropsOrRenews ==
  ASSUME Typed, NEW c, NEW f, LeaveConfig(c, f)
  PROVE  \/ Drops /\ (detour[1] < Count(ring) - 1 => ring'.index = detour[1])
         \/ Count(ring) = 1 /\ \E d \in Docs : Renews(d, NoPath)
<1>1. Count(ring) \in Nat \ {0} /\ ring.index \in 0..Count(ring) - 1 /\ detour[1] \in Nat
      /\ (ring.inactive = <<>> <=> Count(ring) = 1)
  BY OrderAt, SlotsAt, EmptySeq DEF Typed, Indexed, Rings, LeaveConfig, InDetour
<1>2. CASE ring.inactive = <<>>
  <2>1. PICK d \in Unused : Loaded(ReturnTo(Closed(ring, d), detour[1]), d, NoPath)
    BY <1>2 DEF LeaveConfig, CloseAnd
  <2>2. ring' = ReturnTo(Closed(ring, d), detour[1]) /\ d \in Docs
    BY <2>1 DEF Loaded, Unused
  <2>3. Loaded(ring', d, NoPath)
    BY <2>1, <2>2
  <2>4. Indexed(Closed(ring, d)) /\ Count(Closed(ring, d)) = 1 /\ Order(Closed(ring, d))[1] = d
    BY <1>1, <1>2, <2>2, LastClosed DEF Typed
  <2>5. Indexed(ring') /\ Count(ring') = 1 /\ Order(ring')[1] = d
    BY <1>1, <2>2, <2>4, ReturnToReturns
  <2>6. ring'.index = 0
    BY <2>5, OrderAt
  <2> QED
    BY <1>1, <1>2, <2>1, <2>2, <2>3, <2>5, <2>6 DEF Renews
<1>3. CASE ring.inactive # <<>>
  <2> DEFINE r == Closed(ring, NoDoc)
  <2>1. Loaded(ReturnTo(r, detour[1]), NoDoc, NoPath)
    BY <1>3 DEF LeaveConfig, CloseAnd
  <2>2. ring' = ReturnTo(r, detour[1])
    BY <2>1 DEF Loaded
  <2>3. Loaded(ring', NoDoc, NoPath)
    BY <2>1, <2>2
  <2>4. /\ Indexed(r) /\ Count(r) = Count(ring) - 1
        /\ \A k \in 1..Count(ring) - 1 : Order(r)[k] =
             IF k <= ring.index THEN Order(ring)[k] ELSE Order(ring)[k + 1]
    BY <1>1, <1>3, ClosedAt DEF Typed
  <2> HIDE DEF r
  <2>5. /\ Indexed(ring') /\ Count(ring') = Count(r) /\ Order(ring') = Order(r)
        /\ detour[1] < Count(r) => ring'.index = detour[1]
    BY <1>1, <2>2, <2>4, ReturnToReturns
  <2> QED
    BY <1>1, <1>3, <2>3, <2>4, <2>5 DEF Drops
<1> QED
  BY <1>2, <1>3

LEMMA RenewRenews ==
  ASSUME Typed, RenewActive
  PROVE  \E d \in Docs : Renews(d, Config)
<1>1. PICK d \in Unused : Loaded(Replaced(ring, d), d, Config)
  BY DEF RenewActive
<1>2. ring' = Replaced(ring, d) /\ d \in Docs
  BY <1>1 DEF Loaded, Unused
<1>3. Loaded(ring', d, Config)
  BY <1>1, <1>2
<1> QED
  BY <1>1, <1>2, <1>3, ReplacedAt DEF Typed, Renews

-----------------------------------------------------------------------------
(* What each of these does to the invariant. *)

ListHolds ==
  /\ Indexed(ring) /\ path \in [Docs -> Paths \cup {NoPath}] /\ unsaved \in [Docs -> BOOLEAN]
  /\ Distinct(ring) /\ OneBufferPerFile

LEMMA OpenIsDocs ==
  ASSUME Typed
  PROVE  Open \subseteq Docs /\ active \in Open
<1>1. Open = {Order(ring)[k] : k \in 1..Count(ring)} /\ Order(ring)[ring.index + 1] = active
  BY OpenIsListed DEF Typed, Open, active
<1>2. /\ Count(ring) \in Nat /\ ring.index \in 0..Count(ring) - 1
      /\ \A k \in 1..Count(ring) : Order(ring)[k] \in Docs
  BY OrderAt, ElementOfSeq DEF Typed
<1>3. ring.index + 1 \in 1..Count(ring)
  BY <1>2
<1> QED
  BY <1>1, <1>2, <1>3

\* Loading keeps one buffer per file when no kept buffer shows the new one's.
LEMMA LoadedKeeps ==
  ASSUME Typed, OneBufferPerFile, NEW d, NEW p \in Paths \cup {NoPath}, Loaded(ring', d, p),
         Open' \subseteq Open \cup {d}, Open' \subseteq Docs, onDisk' = "always" => onDisk = "always",
         d \in Docs /\ p # NoPath => \A e \in Open' \ {d} : path[e] # NoPath =>
           path[e] # p /\ (onDisk' = "always" => {path[e], p} # {Config, Alias})
  PROVE  /\ path' \in [Docs -> Paths \cup {NoPath}] /\ unsaved' \in [Docs -> BOOLEAN]
         /\ OneBufferPerFile'
<1>1. /\ path' = [e \in Docs |-> IF e = d THEN p ELSE IF e \in Open' THEN path[e] ELSE NoPath]
      /\ unsaved' = [e \in Docs |-> e \in Open' \ {d} /\ unsaved[e]]
  BY DEF Loaded, Open
<1>2. path' \in [Docs -> Paths \cup {NoPath}]
  BY <1>1 DEF Typed
<1>3. unsaved' \in [Docs -> BOOLEAN]
  BY <1>1 DEF Typed
<1>4. \A e \in Open' : path'[e] = IF e = d THEN p ELSE path[e]
  BY <1>1
<1>5. NoPath \notin {Config, Alias}
  BY BufferRingAssumption
<1>6. ASSUME NEW a \in Open', NEW e \in Open', a # e, path'[a] # NoPath
      PROVE  path'[e] # path'[a] /\ (onDisk' = "always" => {path'[a], path'[e]} # {Config, Alias})
  <2>1. CASE a = d
    <3>1. path'[a] = p /\ path'[e] = path[e]
      BY <1>4, <1>6, <2>1
    <3>2. CASE path[e] = NoPath
      BY <1>5, <1>6, <3>1, <3>2
    <3>3. CASE path[e] # NoPath
      <4>1. path[e] # p /\ (onDisk' = "always" => {path[e], p} # {Config, Alias})
        BY <1>6, <2>1, <3>1, <3>3
      <4> QED
        BY <3>1, <4>1
    <3> QED
      BY <3>2, <3>3
  <2>2. CASE e = d
    <3>1. path'[a] = path[a] /\ path'[e] = p
      BY <1>4, <1>6, <2>2
    <3>2. CASE p = NoPath
      BY <1>5, <1>6, <3>1, <3>2
    <3>3. CASE p # NoPath
      <4>1. path[a] # p /\ (onDisk' = "always" => {path[a], p} # {Config, Alias})
        BY <1>6, <2>2, <3>1, <3>3
      <4> QED
        BY <3>1, <4>1
    <3> QED
      BY <3>2, <3>3
  <2>3. CASE a # d /\ e # d
    <3>1. path'[a] = path[a] /\ path'[e] = path[e] /\ a \in Open /\ e \in Open
      BY <1>4, <1>6, <2>3
    <3> QED
      BY <1>6, <3>1 DEF OneBufferPerFile
  <2> QED
    BY <2>1, <2>2, <2>3
<1>7. OneBufferPerFile'
  BY <1>6 DEF OneBufferPerFile
<1> QED
  BY <1>2, <1>3, <1>7

LEMMA GoesKeeps ==
  ASSUME Typed, Distinct(ring), Goes
  PROVE  Indexed(ring') /\ Distinct(ring') /\ Open' = Open
<1>1. Indexed(ring) /\ Indexed(ring') /\ Count(ring') = Count(ring) /\ Order(ring') = Order(ring)
  BY DEF Typed, Goes
<1>2. Open = {Order(ring)[k] : k \in 1..Count(ring)}
  BY <1>1, OpenIsListed DEF Open
<1>3. Open' = {Order(ring')[k] : k \in 1..Count(ring')}
  BY <1>1, OpenIsListed DEF Open
<1> QED
  BY <1>1, <1>2, <1>3 DEF Distinct

LEMMA AddsKeeps ==
  ASSUME Typed, Distinct(ring), OneBufferPerFile, NEW d \in Docs, NEW p \in Paths \cup {NoPath},
         Adds(d, p), onDisk' = "always" => onDisk = "always",
         NEW there, onDisk' = "always" => there # "no", p # NoPath => NotShown(p, there)
  PROVE  ListHolds' /\ Open' = Open \cup {d} /\ active' = d
<1> DEFINE n == Count(ring)
           i == ring.index
           o == Order(ring)
           q == Order(ring')
<1>1. /\ n \in Nat \ {0} /\ i \in 0..n - 1 /\ Indexed(ring') /\ Count(ring') = n + 1 /\ ring'.index = i + 1
      /\ \A k \in 1..n + 1 : q[k] = IF k <= i + 1 THEN o[k] ELSE IF k = i + 2 THEN d ELSE o[k - 1]
  BY OrderAt DEF Typed, Adds
<1>2. Open = {o[k] : k \in 1..n} /\ Open' = {q[k] : k \in 1..n + 1} /\ active' = q[i + 2]
  <2>1. active' = q[ring'.index + 1] /\ Open' = {q[k] : k \in 1..Count(ring')}
    BY <1>1, OpenIsListed DEF Open, active
  <2>2. Open = {o[k] : k \in 1..n}
    BY OpenIsListed DEF Open, Typed
  <2>3. ring'.index + 1 = i + 2
    BY <1>1
  <2> QED
    BY <1>1, <2>1, <2>2, <2>3
<1>3. d \notin Open /\ Loaded(ring', d, p)
  BY DEF Adds, Unused
<1> HIDE DEF n, i, o, q
<1>4. Distinct(ring')
  <2> SUFFICES ASSUME NEW j \in 1..n + 1, NEW k \in 1..n + 1, q[j] = q[k]
               PROVE  j = k
    BY <1>1 DEF Distinct, q
  <2>1. \A a, b \in 1..n : o[a] = o[b] => a = b
    BY DEF Distinct, n, o
  <2>2. \A a \in 1..n : o[a] # d
    BY <1>2, <1>3
  <2>3. j # i + 2 => IF j <= i + 1 THEN j \in 1..n /\ q[j] = o[j] ELSE j - 1 \in 1..n /\ q[j] = o[j - 1]
    BY <1>1
  <2>4. k # i + 2 => IF k <= i + 1 THEN k \in 1..n /\ q[k] = o[k] ELSE k - 1 \in 1..n /\ q[k] = o[k - 1]
    BY <1>1
  <2>5. (j = i + 2 => q[j] = d) /\ (k = i + 2 => q[k] = d)
    BY <1>1
  <2> QED
    BY <1>1, <2>1, <2>2, <2>3, <2>4, <2>5
<1>5. Open' = Open \cup {d}
  <2>1. Open' \subseteq Open \cup {d}
    <3> SUFFICES ASSUME NEW k \in 1..n + 1
                 PROVE  q[k] \in Open \cup {d}
      BY <1>2
    <3> QED
      BY <1>1, <1>2
  <2>2. d \in Open'
    <3>1. i + 2 \in 1..n + 1 /\ q[i + 2] = d
      BY <1>1
    <3> QED
      BY <1>2, <3>1
  <2>3. ASSUME NEW k \in 1..n
        PROVE  o[k] \in Open'
    <3>1. CASE k <= i + 1
      BY <1>1, <1>2, <3>1
    <3>2. CASE k > i + 1
      <4>1. k + 1 \in 1..n + 1 /\ q[k + 1] = o[(k + 1) - 1] /\ (k + 1) - 1 = k
        BY <1>1, <3>2
      <4> QED
        BY <1>2, <4>1
    <3> QED
      BY <1>1, <3>1, <3>2
  <2> QED
    BY <1>2, <2>1, <2>2, <2>3
<1>6. active' = d
  BY <1>1, <1>2
<1>7. Open' \subseteq Docs
  BY <1>5, OpenIsDocs
<1>8. p # NoPath => \A e \in Open' \ {d} : path[e] # NoPath =>
        path[e] # p /\ (onDisk' = "always" => {path[e], p} # {Config, Alias})
  BY <1>5 DEF NotShown
<1>9. /\ path' \in [Docs -> Paths \cup {NoPath}] /\ unsaved' \in [Docs -> BOOLEAN]
      /\ OneBufferPerFile'
  BY <1>3, <1>5, <1>7, <1>8, LoadedKeeps
<1> QED
  BY <1>1, <1>4, <1>5, <1>6, <1>9 DEF ListHolds

LEMMA DropsKeeps ==
  ASSUME Typed, Distinct(ring), OneBufferPerFile, Drops, onDisk' = "always" => onDisk = "always"
  PROVE  ListHolds' /\ Open' = Open \ {active}
<1> DEFINE n == Count(ring)
           i == ring.index
           o == Order(ring)
           q == Order(ring')
<1>1. /\ n \in Nat \ {0} /\ n > 1 /\ i \in 0..n - 1 /\ Indexed(ring') /\ Count(ring') = n - 1
      /\ \A k \in 1..n - 1 : q[k] = IF k <= i THEN o[k] ELSE o[k + 1]
  BY OrderAt DEF Typed, Drops
<1>2. Open = {o[k] : k \in 1..n} /\ Open' = {q[k] : k \in 1..n - 1} /\ active = o[i + 1]
  <2>1. Open' = {q[k] : k \in 1..Count(ring')}
    BY <1>1, OpenIsListed DEF Open
  <2>2. Open = {o[k] : k \in 1..n} /\ active = o[i + 1]
    BY OpenIsListed DEF Open, active, Typed
  <2> QED
    BY <1>1, <2>1, <2>2
<1>3. Loaded(ring', NoDoc, NoPath) /\ NoDoc \notin Docs
  BY BufferRingAssumption DEF Drops
<1> HIDE DEF n, i, o, q
<1>4. \A a, b \in 1..n : o[a] = o[b] => a = b
  BY DEF Distinct, n, o
<1>5. Distinct(ring')
  <2> SUFFICES ASSUME NEW j \in 1..n - 1, NEW k \in 1..n - 1, q[j] = q[k]
               PROVE  j = k
    BY <1>1 DEF Distinct, q
  <2>1. IF j <= i THEN j \in 1..n /\ q[j] = o[j] ELSE j + 1 \in 1..n /\ q[j] = o[j + 1]
    BY <1>1
  <2>2. IF k <= i THEN k \in 1..n /\ q[k] = o[k] ELSE k + 1 \in 1..n /\ q[k] = o[k + 1]
    BY <1>1
  <2> QED
    BY <1>1, <1>4, <2>1, <2>2
<1>6. Open' = Open \ {active}
  <2>1. ASSUME NEW k \in 1..n - 1
        PROVE  q[k] \in Open \ {active}
    <3>1. \E m \in 1..n : m # i + 1 /\ q[k] = o[m]
      <4>1. CASE k <= i
        BY <1>1, <4>1
      <4>2. CASE k > i
        <5>1. k + 1 \in 1..n /\ k + 1 # i + 1 /\ q[k] = o[k + 1]
          BY <1>1, <4>2
        <5> QED
          BY <5>1
      <4> QED
        BY <1>1, <4>1, <4>2
    <3>2. i + 1 \in 1..n
      BY <1>1
    <3> QED
      BY <1>2, <1>4, <3>1, <3>2
  <2>2. ASSUME NEW k \in 1..n, o[k] # active
        PROVE  o[k] \in Open'
    <3>1. k # i + 1
      BY <1>2, <2>2
    <3>2. CASE k <= i
      BY <1>1, <1>2, <3>2
    <3>3. CASE k > i
      <4>1. k - 1 \in 1..n - 1 /\ ~(k - 1 <= i) /\ q[k - 1] = o[(k - 1) + 1] /\ (k - 1) + 1 = k
        BY <1>1, <3>1, <3>3
      <4> QED
        BY <1>2, <4>1
    <3> QED
      BY <1>1, <3>2, <3>3
  <2> QED
    BY <1>2, <2>1, <2>2
<1>7. Open' \subseteq Docs
  BY <1>6, OpenIsDocs
<1>8. /\ path' \in [Docs -> Paths \cup {NoPath}] /\ unsaved' \in [Docs -> BOOLEAN]
      /\ OneBufferPerFile'
  BY <1>3, <1>6, <1>7, LoadedKeeps
<1> QED
  BY <1>1, <1>5, <1>6, <1>8 DEF ListHolds

LEMMA RenewsKeeps ==
  ASSUME Typed, Distinct(ring), OneBufferPerFile, NEW d \in Docs, NEW p \in Paths \cup {NoPath},
         Renews(d, p), onDisk' = "always" => onDisk = "always", p \in {NoPath, path[active]}
  PROVE  ListHolds' /\ Open' = (Open \ {active}) \cup {d} /\ active' = d
<1> DEFINE n == Count(ring)
           i == ring.index
           o == Order(ring)
           q == Order(ring')
<1>1. /\ n \in Nat \ {0} /\ i \in 0..n - 1 /\ i + 1 \in 1..n
      /\ Indexed(ring') /\ Count(ring') = n /\ ring'.index = i
      /\ \A k \in 1..n : q[k] = IF k = i + 1 THEN d ELSE o[k]
  BY OrderAt DEF Typed, Renews
<1>2. /\ Open = {o[k] : k \in 1..n} /\ Open' = {q[k] : k \in 1..n}
      /\ active = o[i + 1] /\ active' = q[i + 1]
  <2>1. Open' = {q[k] : k \in 1..Count(ring')} /\ active' = q[ring'.index + 1]
    BY <1>1, OpenIsListed DEF Open, active
  <2>2. Open = {o[k] : k \in 1..n} /\ active = o[i + 1]
    BY OpenIsListed DEF Open, active, Typed
  <2> QED
    BY <1>1, <2>1, <2>2
<1>3. d \notin Open /\ Loaded(ring', d, p)
  BY DEF Renews, Unused
<1> HIDE DEF n, i, o, q
<1>4. \A a, b \in 1..n : o[a] = o[b] => a = b
  BY DEF Distinct, n, o
<1>5. Distinct(ring')
  <2> SUFFICES ASSUME NEW j \in 1..n, NEW k \in 1..n, q[j] = q[k]
               PROVE  j = k
    BY <1>1 DEF Distinct, q
  <2>1. \A a \in 1..n : o[a] # d
    BY <1>2, <1>3
  <2> QED
    BY <1>1, <1>4, <2>1
<1>6. Open' = (Open \ {active}) \cup {d} /\ active' = d
  <2>1. ASSUME NEW k \in 1..n
        PROVE  q[k] \in (Open \ {active}) \cup {d}
    BY <1>1, <1>2, <1>4
  <2>2. ASSUME NEW k \in 1..n, o[k] # active
        PROVE  o[k] \in Open'
    BY <1>1, <1>2, <2>2
  <2>3. d \in Open' /\ active' = d
    BY <1>1, <1>2
  <2> QED
    BY <1>2, <2>1, <2>2, <2>3
<1>7. Open' \subseteq Docs /\ active \in Open
  BY <1>6, OpenIsDocs
<1>8. p # NoPath => \A e \in Open' \ {d} : path[e] # NoPath =>
        path[e] # p /\ (onDisk' = "always" => {path[e], p} # {Config, Alias})
  BY <1>6, <1>7 DEF OneBufferPerFile
<1>9. /\ path' \in [Docs -> Paths \cup {NoPath}] /\ unsaved' \in [Docs -> BOOLEAN]
      /\ OneBufferPerFile'
  BY <1>3, <1>6, <1>7, <1>8, LoadedKeeps
<1> QED
  BY <1>1, <1>5, <1>6, <1>9 DEF ListHolds

-----------------------------------------------------------------------------
(* The invariant, action by action. *)

LEMMA Initially ==
  ASSUME RingInit
  PROVE  RingInv
<1>1. PICK d \in Docs, p \in Paths \cup {NoPath} :
        /\ ring = [active |-> SlotOf(d), inactive |-> <<>>, index |-> 0]
        /\ path = [e \in Docs |-> IF e = d THEN p ELSE NoPath]
  BY DEF RingInit
<1>2. ring \in Rings /\ Count(ring) = 1 /\ Indexed(ring)
  BY <1>1, SlotDoc DEF Rings, Indexed, Count
<1>3. Order(ring)[1] = d
  BY <1>1, <1>2, SlotDoc, OrderAt
<1>4. Open = {d}
  BY <1>2, <1>3, OpenIsListed DEF Open
<1>5. Typed /\ Distinct(ring) /\ OneBufferPerFile
  BY <1>1, <1>2, <1>4 DEF Typed, Distinct, OneBufferPerFile, RingInit
<1>6. Asked /\ WayBack
  BY DEF Asked, WayBack, RingInit
<1>7. NothingYet
  <2>1. ~focus.exit /\ DirtyDocs = {}
    BY <1>4 DEF RingInit, Editor, Surface, DirtyDocs
  <2> QED
    BY <2>1 DEF NothingYet
<1> QED
  BY <1>5, <1>6, <1>7 DEF RingInv

\* The same ring, the same paths.
LEMMA StillKeeps ==
  ASSUME RingInv, UNCHANGED <<ring, path, returning>>, unsaved' \in [Docs -> BOOLEAN],
         onDisk' = "always" => onDisk = "always", Asked', NothingYet'
  PROVE  RingInv'
<1>1. Open' = Open /\ ring' = ring /\ path' = path /\ detour' = detour /\ invoker' = invoker
  BY DEF Open, returning
<1>2. Typed' /\ Distinct(ring')
  BY <1>1 DEF Typed, RingInv
<1>3. OneBufferPerFile'
  BY <1>1 DEF OneBufferPerFile, RingInv
<1>4. WayBack'
  BY <1>1 DEF WayBack, RingInv
<1> QED
  BY <1>2, <1>3, <1>4 DEF RingInv

\* A path that no other buffer shows.
LEMMA AnotherIs ==
  ASSUME Typed, Distinct(ring), NEW p, ~AnotherRepresents(p), NEW e \in Open, e # active,
         path[e] # NoPath
  PROVE  ~Same(path[e], p, onDisk)
<1>1. Count(ring) \in Nat \ {0} /\ Len(ring.inactive) = Count(ring) - 1
      /\ DOMAIN Slots(ring) = 1..Count(ring) /\ DOMAIN ring.inactive = 1..Len(ring.inactive)
      /\ \A j \in 1..Count(ring) :
           Slots(ring)[j] = IF j = 1 THEN ring.active ELSE ring.inactive[j - 1]
  BY SlotsAt, LenProperties DEF Typed, Indexed, Rings
<1>2. PICK j \in 1..Count(ring) : e = Slots(ring)[j]["file"]
  BY <1>1 DEF Open, DocsOf, ToSet
<1>3. j # 1
  BY <1>1, <1>2 DEF active
<1>4. j - 1 \in DOMAIN ring.inactive /\ e = ring.inactive[j - 1]["file"]
  BY <1>1, <1>2, <1>3
<1> QED
  BY <1>4 DEF AnotherRepresents, Represents

LEMMA SaveKeeps ==
  ASSUME RingInv, UNCHANGED <<ring, returning>>, NEW p \in Paths, ~AnotherRepresents(p), SaveTo(p),
         Disarmed, ~focus'.exit, focus'.kind # "startup"
  PROVE  RingInv'
<1> USE DEF RingInv
<1>1. Open' = Open /\ ring' = ring /\ detour' = detour /\ invoker' = invoker
  BY DEF Open, returning
<1>2. active \in Docs /\ active \in Open /\ Open \subseteq Docs
  BY OpenIsDocs
<1>3. /\ path' = [path EXCEPT ![active] = p] /\ unsaved' = [unsaved EXCEPT ![active] = FALSE]
      /\ onDisk' = "always" => onDisk = "always"
  BY DEF SaveTo, Written
<1>4. Typed' /\ Distinct(ring')
  BY <1>1, <1>2, <1>3 DEF Typed
<1>5. \A e \in Open : path'[e] = IF e = active THEN p ELSE path[e]
  BY <1>2, <1>3 DEF Typed
<1>6. NoPath \notin {Config, Alias}
  BY BufferRingAssumption
<1>7. ASSUME NEW e \in Open, e # active
      PROVE  p # path[e] /\ (onDisk' = "always" => {p, path[e]} # {Config, Alias})
  <2>1. CASE path[e] = NoPath
    BY <1>6, <2>1, BufferRingAssumption DEF Paths
  <2>2. CASE path[e] # NoPath
    <3>1. ~Same(path[e], p, onDisk)
      BY <1>7, <2>2, AnotherIs
    <3> QED
      BY <1>3, <3>1 DEF Same
  <2> QED
    BY <2>1, <2>2
<1>8. ASSUME NEW d \in Open, NEW e \in Open, d # e, path'[d] # NoPath
      PROVE  path'[e] # path'[d] /\ (onDisk' = "always" => {path'[d], path'[e]} # {Config, Alias})
  <2>1. CASE d = active
    <3>1. path'[d] = p /\ path'[e] = path[e]
      BY <1>5, <1>8, <2>1
    <3> QED
      BY <1>7, <1>8, <2>1, <3>1
  <2>2. CASE e = active
    <3>1. path'[e] = p /\ path'[d] = path[d] /\ {p, path[d]} = {path[d], p}
      BY <1>5, <1>8, <2>2
    <3>2. p # path[d] /\ (onDisk' = "always" => {p, path[d]} # {Config, Alias})
      BY <1>7, <1>8, <2>2
    <3> QED
      BY <3>1, <3>2
  <2>3. CASE d # active /\ e # active
    <3>1. path'[d] = path[d] /\ path'[e] = path[e]
      BY <1>5, <2>3
    <3> QED
      BY <1>3, <1>8, <3>1 DEF OneBufferPerFile
  <2> QED
    BY <2>1, <2>2, <2>3
<1>9. OneBufferPerFile'
  BY <1>1, <1>8 DEF OneBufferPerFile
<1>10. Asked' /\ WayBack' /\ NothingYet'
  BY <1>1 DEF Asked, WayBack, NothingYet, Disarmed
<1> QED
  BY <1>4, <1>9, <1>10

\* The way back, when nothing but a change of the list can end it.
LEMMA KeptWay ==
  ASSUME RingInv, Indexed(ring'), KeepInvoker, detour' \in {<<>>, detour}
  PROVE  WayBack' /\ (detour' # <<>> => detour'[1] \in Nat)
<1>1. detour' # <<>> => detour'[1] \in Nat
  BY DEF RingInv, Typed
<1>2. CASE invoker' = <<>>
  BY <1>1, <1>2 DEF WayBack
<1>3. CASE invoker' # <<>>
  <2>1. Order(ring') = Order(ring) /\ invoker' = invoker
    BY <1>3 DEF KeepInvoker
  <2>2. Count(ring') = Count(ring)
    BY <2>1, OrderAt DEF RingInv, Typed
  <2> QED
    BY <1>1, <2>1, <2>2 DEF RingInv, WayBack
<1> QED
  BY <1>2, <1>3

\* The steps that load nothing and save nothing.
LEMMA QuietKeeps ==
  ASSUME RingInv, UNCHANGED <<ring, documents, returning>>, onDisk' = "always" => onDisk = "always",
         Asked', focus'.exit => focus'.kind = "create",
         focus'.exit \/ focus'.kind = "startup" => DirtyDocs = {}
  PROVE  RingInv'
<1>1. UNCHANGED <<ring, path, returning>> /\ unsaved' \in [Docs -> BOOLEAN]
  BY DEF documents, RingInv, Typed
<1>2. DirtyDocs' = DirtyDocs
  BY DEF documents, DirtyDocs, Open
<1>3. NothingYet'
  BY <1>2 DEF NothingYet
<1> QED
  BY <1>1, <1>3, StillKeeps

\* Edits of the document on screen.
LEMMA EditKeeps ==
  ASSUME RingInv, NEW changed \in BOOLEAN, RecordEdit(changed), UNCHANGED <<ring, returning, onDisk>>,
         ~focus'.exit, focus'.kind # "startup"
  PROVE  RingInv'
<1>1. UNCHANGED <<ring, path, returning>> /\ unsaved' \in [Docs -> BOOLEAN]
  BY DEF RecordEdit, RingInv, Typed
<1>2. Asked' /\ NothingYet'
  BY DEF RecordEdit, Disarmed, Asked, NothingYet
<1> QED
  BY <1>1, <1>2, StillKeeps

\* The steps that change the list, and disarm.
LEMMA ListKeeps ==
  ASSUME ListHolds', Disarmed, WayBack', detour' # <<>> => detour'[1] \in Nat, NothingYet'
  PROVE  RingInv'
<1>1. Asked'
  BY DEF Asked, Disarmed
<1> QED
  BY <1>1 DEF ListHolds, RingInv, Typed

LEMMA EditorKeepsNothing ==
  ASSUME focus' = Editor
  PROVE  NothingYet' /\ ~focus'.exit /\ focus'.kind = "editor"
  BY DEF Editor, Surface, NothingYet

\* Going elsewhere in the list.
LEMMA GoesHolds ==
  ASSUME RingInv, Goes, UNCHANGED documents, onDisk' = "always" => onDisk = "always"
  PROVE  ListHolds'
<1>1. Indexed(ring') /\ Distinct(ring') /\ Open' = Open
  BY GoesKeeps DEF RingInv
<1>2. path' = path /\ unsaved' = unsaved
  BY DEF documents
<1>3. OneBufferPerFile'
  BY <1>1, <1>2 DEF RingInv, OneBufferPerFile
<1> QED
  BY <1>1, <1>2, <1>3 DEF RingInv, Typed, ListHolds

LEMMA SwitchKeeps ==
  ASSUME RingInv, SwitchBuffer
  PROVE  RingInv' /\ Open' = Open
<1>1. Goes
  BY SwitchGoes DEF RingInv
<1>2. ListHolds'
  BY <1>1, GoesHolds DEF SwitchBuffer
<1>3. WayBack' /\ (detour' # <<>> => detour'[1] \in Nat)
  BY <1>1 DEF WayBack, Goes, SwitchBuffer, returning, RingInv, Typed
<1>4. NothingYet' /\ Disarmed
  BY EditorKeepsNothing DEF SwitchBuffer, ToEditor
<1> QED
  BY <1>1, <1>2, <1>3, <1>4, ListKeeps, GoesKeeps DEF RingInv

LEMMA NewKeeps ==
  ASSUME RingInv, New
  PROVE  RingInv' /\ Open \subseteq Open'
<1>1. PICK d \in Docs : Adds(d, NoPath)
  BY NewAdds DEF RingInv
<1>2. ListHolds' /\ Open' = Open \cup {d}
  BY <1>1, AddsKeeps DEF RingInv, New
<1>3. WayBack' /\ (detour' # <<>> => detour'[1] \in Nat)
  BY <1>1, KeptWay DEF New, Adds
<1>4. NothingYet' /\ Disarmed
  BY EditorKeepsNothing DEF New, ToEditor
<1> QED
  BY <1>2, <1>3, <1>4, ListKeeps

LEMMA CloseKeeps ==
  ASSUME RingInv, CloseBuffer
  PROVE  RingInv' /\ Open \ {active} \subseteq Open'
<1>1. ListHolds' /\ Open \ {active} \subseteq Open'
  <2>1. CASE Drops
    BY <2>1, DropsKeeps DEF RingInv, CloseBuffer
  <2>2. CASE \E d \in Docs : Renews(d, NoPath)
    BY <2>2, RenewsKeeps DEF RingInv, CloseBuffer
  <2> QED
    BY <2>1, <2>2, CloseDropsOrRenews DEF RingInv
<1>2. WayBack' /\ (detour' # <<>> => detour'[1] \in Nat)
  BY <1>1, KeptWay DEF CloseBuffer, ForgetActiveDetour, ListHolds
<1>3. NothingYet' /\ Disarmed
  BY EditorKeepsNothing DEF CloseBuffer, ToEditor
<1> QED
  BY <1>1, <1>2, <1>3, ListKeeps

LEMMA OpenHolds ==
  ASSUME RingInv, NEW p \in Paths, NEW there, OpenFileBuffer(p, there),
         onDisk' = "always" => onDisk = "always" /\ there # "no"
  PROVE  ListHolds' /\ Open \subseteq Open'
<1>1. CASE UNCHANGED <<ring, documents>>
  <2>1. Goes /\ UNCHANGED documents
    BY <1>1 DEF Goes, RingInv, Typed
  <2> QED
    BY <2>1, GoesHolds, GoesKeeps DEF RingInv
<1>2. CASE Goes /\ UNCHANGED documents
  BY <1>2, GoesHolds, GoesKeeps DEF RingInv
<1>3. CASE \E d \in Docs : Adds(d, p) /\ NotShown(p, there)
  BY <1>3, AddsKeeps DEF RingInv
<1> QED
  BY <1>1, <1>2, <1>3, OpenGoesOrAdds DEF RingInv

LEMMA OpenFileKeeps ==
  ASSUME RingInv, OpenFile
  PROVE  RingInv' /\ Open \subseteq Open'
<1>1. PICK p \in Paths : OpenFileBuffer(p, onDisk)
  BY DEF OpenFile
<1>2. ListHolds' /\ Open \subseteq Open'
  BY <1>1, OpenHolds DEF OpenFile
<1>3. WayBack' /\ (detour' # <<>> => detour'[1] \in Nat)
  BY <1>2, KeptWay DEF OpenFile, ListHolds
<1>4. NothingYet' /\ Disarmed
  BY EditorKeepsNothing DEF OpenFile, ToEditor
<1> QED
  BY <1>2, <1>3, <1>4, ListKeeps

LEMMA ConfigKeeps ==
  ASSUME RingInv, NEW there, OpenConfigPath(there), focus' = Editor, Disarmed,
         onDisk' = "always" => onDisk = "always" /\ there # "no"
  PROVE  RingInv' /\ Open \subseteq Open'
<1>0. Config \in Paths /\ OpenFileBuffer(Config, there)
  BY DEF Paths, OpenConfigPath
<1>1. ListHolds' /\ Open \subseteq Open'
  BY <1>0, OpenHolds
<1>2. WayBack' /\ (detour' # <<>> => detour'[1] \in Nat)
  <2>1. CASE UNCHANGED detour /\ KeepInvoker
    BY <1>1, <2>1, KeptWay DEF ListHolds
  <2>2. CASE /\ path[active] # Config /\ path'[active'] = Config
             /\ detour' = <<ring.index>> /\ invoker' = <<active, active', Open' # Open>>
    <3>0. detour'[1] = ring.index /\ ring.index \in Nat
      BY <2>2, OrderAt DEF RingInv, Typed
    <3>1. CASE UNCHANGED <<ring, documents>>
      BY <2>2, <3>1 DEF documents, active
    <3>2. CASE Goes /\ UNCHANGED documents
      <4>1. Open' = Open
        BY <3>2, GoesKeeps DEF RingInv
      <4>2. ~invoker'[3]
        BY <2>2, <4>1
      <4> QED
        BY <3>0, <4>2 DEF WayBack
    <3>3. CASE \E d \in Docs : Adds(d, Config) /\ NotShown(Config, there)
      <4>1. PICK d \in Docs : Adds(d, Config) /\ active' = d
        BY <1>0, <3>3, AddsKeeps DEF RingInv
      <4>2. /\ ring.index \in 0..Count(ring) - 1 /\ Count(ring) \in Nat
            /\ Order(ring)[ring.index + 1] = active
        BY OrderAt, OpenIsListed DEF RingInv, Typed, active
      <4>3. /\ ring.index + 2 <= Count(ring')
            /\ Order(ring')[ring.index + 1] = active /\ Order(ring')[ring.index + 2] = active'
        BY <4>1, <4>2 DEF Adds
      <4>4. invoker'[1] = active /\ invoker'[2] = active'
        BY <2>2
      <4> QED
        BY <3>0, <4>3, <4>4 DEF WayBack
    <3> QED
      BY <1>0, <3>1, <3>2, <3>3, OpenGoesOrAdds DEF RingInv
  <2> QED
    BY <2>1, <2>2 DEF OpenConfigPath
<1> QED
  BY <1>1, <1>2, EditorKeepsNothing, ListKeeps

LEMMA RenewKeeps ==
  ASSUME RingInv, RenewActive
  PROVE  RingInv'
<1>1. PICK d \in Docs : Renews(d, Config)
  BY RenewRenews DEF RingInv
<1>2. Config \in Paths /\ path[active] = Config /\ onDisk' = "created"
  BY DEF RenewActive, Paths
<1>3. ListHolds'
  BY <1>1, <1>2, RenewsKeeps DEF RingInv
<1>4. WayBack' /\ (detour' # <<>> => detour'[1] \in Nat)
  BY <1>3, KeptWay DEF RenewActive, ListHolds
<1>5. NothingYet' /\ Disarmed
  BY EditorKeepsNothing DEF RenewActive, ToEditor
<1> QED
  BY <1>3, <1>4, <1>5, ListKeeps

LEMMA LeaveKeeps ==
  ASSUME RingInv, NEW c, NEW f, f.exit => focus.exit /\ f.kind = "create",
         f.kind = "startup" => focus.kind = "startup", LeaveConfig(c, f)
  PROVE  RingInv' /\ Open \ {active} \subseteq Open'
<1>1. /\ ListHolds' /\ Open \ {active} \subseteq Open'
      /\ \E d : Open' \subseteq Open \cup {d} /\ \A e \in Open' : unsaved'[e] => e # d /\ unsaved[e]
  <2>1. CASE Drops
    <3>1. ListHolds' /\ Open' = Open \ {active}
      BY <2>1, DropsKeeps DEF RingInv, LeaveConfig
    <3>2. \A e \in Open' : unsaved'[e] => e # NoDoc /\ unsaved[e]
      BY <2>1, <3>1, OpenIsDocs DEF Drops, Loaded, RingInv
    <3> QED
      BY <3>1, <3>2
  <2>2. CASE \E d \in Docs : Renews(d, NoPath)
    <3>1. PICK d \in Docs : Renews(d, NoPath)
      BY <2>2
    <3>2. ListHolds' /\ Open' = (Open \ {active}) \cup {d}
      BY <3>1, RenewsKeeps DEF RingInv, LeaveConfig
    <3>3. \A e \in Open' : unsaved'[e] => e # d /\ unsaved[e]
      BY <3>1, <3>2, OpenIsDocs DEF Renews, Loaded, RingInv
    <3> QED
      BY <3>2, <3>3
  <2> QED
    BY <2>1, <2>2, LeaveDropsOrRenews DEF RingInv
<1>2. WayBack' /\ (detour' # <<>> => detour'[1] \in Nat)
  BY <1>1, KeptWay DEF LeaveConfig, ListHolds
<1>3. DirtyDocs' \subseteq DirtyDocs
  <2>1. DirtyDocs' = {e \in Open' : unsaved'[e]}
    BY DEF DirtyDocs
  <2> QED
    BY <1>1, <2>1 DEF DirtyDocs
<1>4. NothingYet'
  <2>1. CASE focus' = f
    BY <1>3, <2>1 DEF NothingYet, RingInv
  <2>2. CASE focus' = Editor
    BY <2>2, EditorKeepsNothing
  <2> QED
    BY <2>1, <2>2 DEF LeaveConfig, AfterSwitch
<1> QED
  BY <1>1, <1>2, <1>4, ListKeeps DEF LeaveConfig

-----------------------------------------------------------------------------
(* The theorems. *)

\* The surfaces a quit may find and leave.
LEMMA QuitKeeps ==
  ASSUME RingInv, NEW c, NEW f, HandleQuit(c, f), f.exit => focus.exit /\ f.kind = "create",
         f.kind = "startup" => focus.kind = "startup"
  PROVE  RingInv'
<1>1. CASE WarnConfig(c, f)
  <2>1. active \in warned' /\ confirmation' = "discard" /\ UNCHANGED <<ring, documents, returning, onDisk>>
    BY <1>1 DEF WarnConfig, Armed
  <2>2. Asked'
    BY <2>1 DEF Asked, active
  <2> QED
    BY <1>1, <2>1, <2>2, QuietKeeps DEF WarnConfig, RingInv, NothingYet
<1>2. CASE LeaveConfig(c, f)
  BY <1>2, LeaveKeeps
<1>3. CASE LeaveEditor(c, f)
  <2>1. UNCHANGED <<ring, documents, returning, onDisk>>
    BY <1>3 DEF LeaveEditor
  <2>2. DirtyDocs' = DirtyDocs /\ active' = active
    BY <2>1 DEF documents, DirtyDocs, Open, active
  <2>3. CASE UNCHANGED surface
    <3>1. Asked' /\ focus' = focus
      BY <2>2, <2>3 DEF surface, Asked, RingInv
    <3> QED
      BY <2>1, <3>1, QuietKeeps DEF RingInv, NothingYet
  <2>4. CASE focus' = f /\ Armed("quit", DirtyDocs)
    <3>1. Asked'
      BY <2>2, <2>4 DEF Armed, Asked
    <3> QED
      BY <2>1, <2>4, <3>1, QuietKeeps DEF RingInv, NothingYet
  <2> QED
    BY <1>3, <2>3, <2>4 DEF LeaveEditor
<1> QED
  BY <1>1, <1>2, <1>3 DEF HandleQuit

LEMMA DisarmedAsks ==
  ASSUME Disarmed
  PROVE  Asked'
  BY DEF Disarmed, Asked

LEMMA SaveActiveKeeps ==
  ASSUME RingInv, UNCHANGED <<ring, returning>>, path[active] # NoPath, SaveActive, Disarmed,
         ~focus'.exit, focus'.kind # "startup"
  PROVE  RingInv'
<1>1. path[active] \in Paths
  BY OpenIsDocs DEF RingInv, Typed
<1>2. CASE NotSaved
  BY <1>2, QuietKeeps, DisarmedAsks DEF NotSaved, RingInv, NothingYet
<1>3. CASE ~AnotherRepresents(path[active]) /\ SaveTo(path[active])
  BY <1>1, <1>3, SaveKeeps
<1> QED
  BY <1>2, <1>3 DEF SaveActive

LEMMA StepKeeps ==
  ASSUME RingInv, RingNext
  PROVE  RingInv'
<1> USE DEF RingInv
<1>1. CASE PromptEdit
  BY <1>1, QuietKeeps, DisarmedAsks DEF PromptEdit, NothingYet
<1>2. CASE Cancel
  BY <1>2, QuietKeeps, DisarmedAsks, EditorKeepsNothing DEF Cancel, ToEditor, NothingYet
<1>3. CASE OpenPrompt
  <2>1. ~focus'.exit /\ focus'.kind # "startup"
    BY <1>3 DEF OpenPrompt, Surface
  <2> QED
    BY <1>3, <2>1, QuietKeeps, DisarmedAsks DEF OpenPrompt
<1>4. CASE Edit
  <2>1. PICK changed \in BOOLEAN : RecordEdit(changed)
    BY <1>4 DEF Edit
  <2>2. ~focus'.exit /\ focus'.kind # "startup"
    BY <1>4 DEF Edit, NothingYet
  <2> QED
    BY <1>4, <2>1, <2>2, EditKeeps DEF Edit
<1>5. CASE StartReview
  <2>1. ~focus'.exit /\ focus'.kind # "startup"
    BY <1>5 DEF StartReview, Surface
  <2> QED
    BY <1>5, <2>1, QuietKeeps, DisarmedAsks DEF StartReview
<1>6. CASE PollReview
  <2>1. ~focus'.exit /\ focus'.kind # "startup"
    <3>1. focus' = focus \/ focus' = Editor
      BY <1>6 DEF PollReview
    <3> QED
      BY <1>6, <3>1, EditorKeepsNothing DEF PollReview, NothingYet
  <2>2. CASE UNCHANGED <<documents, confirmation, warned>>
    <3>1. Asked'
      BY <1>6, <2>2 DEF PollReview, Asked, documents, DirtyDocs, Open, active
    <3> QED
      BY <1>6, <2>1, <2>2, <3>1, QuietKeeps DEF PollReview
  <2>3. CASE RecordEdit(TRUE)
    BY <1>6, <2>1, <2>3, EditKeeps DEF PollReview
  <2> QED
    BY <1>6, <2>2, <2>3 DEF PollReview
<1>7. CASE SwitchBuffer
  BY <1>7, SwitchKeeps
<1>8. CASE New
  BY <1>8, NewKeeps
<1>9. CASE Close
  <2>1. CASE CloseBuffer
    BY <2>1, CloseKeeps
  <2>2. CASE ToEditor /\ UNCHANGED <<ring, documents, returning, onDisk, quit>>
    BY <2>2, QuietKeeps, DisarmedAsks, EditorKeepsNothing DEF ToEditor
  <2> QED
    BY <1>9, <2>1, <2>2 DEF Close
<1>10. CASE CloseDiscard
  BY <1>10, CloseKeeps DEF CloseDiscard
<1>11. CASE OpenFile
  BY <1>11, OpenFileKeeps
<1>12. CASE SaveKey
  <2>1. CASE path[active] = NoPath
    <3>1. ~focus'.exit /\ focus'.kind # "startup"
      BY <1>12, <2>1 DEF SaveKey, Surface
    <3> QED
      BY <1>12, <2>1, <3>1, QuietKeeps, DisarmedAsks DEF SaveKey, NotSaved
  <2>2. CASE path[active] # NoPath
    BY <1>12, <2>2, SaveActiveKeeps, EditorKeepsNothing DEF SaveKey
  <2> QED
    BY <2>1, <2>2
<1>13. CASE SaveAs
  <2>1. PICK p \in Paths : SaveAsPath(p)
    BY <1>13 DEF SaveAs
  <2>2. UNCHANGED <<ring, returning>> /\ Disarmed /\ ~focus'.exit /\ focus'.kind # "startup"
    BY <1>13, EditorKeepsNothing DEF SaveAs, ToEditor
  <2>3. CASE NotSaved
    BY <2>2, <2>3, QuietKeeps, DisarmedAsks DEF NotSaved
  <2>4. CASE path[active] # NoPath /\ SaveActive
    BY <2>2, <2>4, SaveActiveKeeps
  <2>5. CASE ~AnotherRepresents(p) /\ SaveTo(p)
    BY <2>2, <2>5, SaveKeeps
  <2> QED
    BY <2>1, <2>3, <2>4, <2>5 DEF SaveAsPath
<1>14. CASE OpenConfig
  <2>1. CASE onDisk = "no"
    <3>1. /\ UNCHANGED <<ring, documents, returning, onDisk>> /\ Disarmed
          /\ focus' = Surface("create", focus.kind = "startup", NoDoc)
      BY <1>14, <2>1 DEF OpenConfig
    <3>2. focus'.kind = "create"
      BY <3>1 DEF Surface
    <3>3. focus'.exit => focus.kind = "startup"
      <4>1. focus'.exit = (focus.kind = "startup")
        BY <3>1, Zenon DEF Surface
      <4> QED
        BY <4>1, Zenon
    <3> QED
      BY <3>1, <3>2, <3>3, QuietKeeps, DisarmedAsks DEF NothingYet
  <2>2. CASE onDisk # "no"
    BY <1>14, <2>2, ConfigKeeps DEF OpenConfig
  <2> QED
    BY <2>1, <2>2
<1>15. CASE Decline
  BY <1>15, QuietKeeps, DisarmedAsks, EditorKeepsNothing DEF Decline, ToEditor
<1>16. CASE RenewActive
  BY <1>16, RenewKeeps
<1>17. CASE CreateConfig
  <2>1. CASE UNCHANGED <<ring, documents, returning, onDisk>>
    BY <1>17, <2>1, QuietKeeps, DisarmedAsks, EditorKeepsNothing DEF CreateConfig, ToEditor
  <2>2. CASE onDisk' = "created" /\ OpenConfigPath("created")
    BY <1>17, <2>2, ConfigKeeps DEF CreateConfig, ToEditor
  <2> QED
    BY <1>17, <2>1, <2>2 DEF CreateConfig
<1>18. CASE CreatedElsewhere
  <2>1. Asked' /\ focus' = focus
    BY <1>18 DEF CreatedElsewhere, surface, documents, Asked, DirtyDocs, Open, active
  <2> QED
    BY <1>18, <2>1, QuietKeeps DEF CreatedElsewhere, NothingYet
<1>19. CASE Quit
  <2>1. CASE HandleQuit(confirmation, focus)
    BY <2>1, QuitKeeps DEF NothingYet
  <2>2. CASE HandleQuit("none", Editor)
    <3>1. ~Editor.exit /\ Editor.kind = "editor"
      BY DEF Editor, Surface
    <3> QED
      BY <2>2, <3>1, QuitKeeps
  <2> QED
    BY <1>19, <2>1, <2>2 DEF Quit
<1> QED
  BY <1>1, <1>2, <1>3, <1>4, <1>5, <1>6, <1>7, <1>8, <1>9, <1>10, <1>11, <1>12, <1>13,
     <1>14, <1>15, <1>16, <1>17, <1>18, <1>19 DEF RingNext

\* The inductive invariant of the open buffers: the deque and the index stand for one list
\* of documents, and the confirmation and the way back speak of what is in it.
THEOREM RingAlways == RingSpec => []RingInv
<1>1. RingInit => RingInv
  BY Initially
<1>2. RingInv /\ [RingNext]_ringVars => RingInv'
  <2>1. ASSUME RingInv, UNCHANGED ringVars
        PROVE  RingInv'
    <3>1. Asked'
      BY <2>1 DEF ringVars, surface, documents, Asked, DirtyDocs, Open, active, RingInv
    <3> QED
      BY <2>1, <3>1, QuietKeeps DEF ringVars, surface, RingInv, NothingYet
  <2> QED
    BY <2>1, StepKeeps
<1> QED
  BY <1>1, <1>2, PTL DEF RingSpec

\* After any switches, openings, closings, saves and detours every slot holds the parts of
\* one document, no document is in two slots and no file in two buffers.
THEOREM RingIsAlwaysSound == RingSpec => []RingIsSound
<1>1. RingInv => RingIsSound
  <2> SUFFICES ASSUME RingInv
               PROVE  RingIsSound
    OBVIOUS
  <2> USE DEF RingInv, Typed
  <2>1. /\ Count(ring) \in Nat \ {0} /\ ring.index < Count(ring) /\ Order(ring) \in Seq(Docs)
        /\ Len(Order(ring)) = Count(ring) /\ Slots(ring) \in Seq(Slot)
    BY OrderAt, SlotsAt DEF Indexed
  <2>2. \A i \in DOMAIN Slots(ring) : \E d \in Docs : Slots(ring)[i] = SlotOf(d)
    BY <2>1, ElementOfSeq, LenProperties DEF Slot
  <2>3. IsInjective(Order(ring))
    BY <2>1, LenProperties DEF IsInjective, Distinct
  <2> QED
    BY <2>1, <2>2, <2>3 DEF RingIsSound, OneBufferPerFile
<1> QED
  BY <1>1, RingAlways, PTL


\* A step drops only what was asked about, or what it is its purpose to drop.
LEMMA DropsAsked ==
  ASSUME RingInv, RingNext, NEW d \in DirtyDocs, quit' \/ d \notin Open'
  PROVE  d \in warned \/ CloseDiscard \/ RenewActive
<1> USE DEF RingInv
<1>1. d \in Open /\ unsaved[d] /\ ~quit
  BY DEF DirtyDocs, RingNext
<1>2. ~UNCHANGED <<ring, quit>>
  BY <1>1 DEF Open
<1>3. ~(Open \subseteq Open' /\ UNCHANGED quit)
  BY <1>1
<1>4. CASE PromptEdit \/ Cancel \/ OpenPrompt \/ Edit \/ StartReview \/ PollReview
  BY <1>2, <1>4 DEF PromptEdit, Cancel, OpenPrompt, Edit, StartReview, PollReview
<1>5. CASE SwitchBuffer
  BY <1>3, <1>5, SwitchKeeps DEF SwitchBuffer
<1>6. CASE New
  BY <1>3, <1>6, NewKeeps DEF New
<1>7. CASE Close
  <2>1. ~unsaved[active] /\ CloseBuffer
    BY <1>2, <1>7 DEF Close
  <2>2. Open \ {active} \subseteq Open' /\ UNCHANGED quit
    BY <2>1, CloseKeeps DEF CloseBuffer
  <2> QED
    BY <1>1, <2>1, <2>2
<1>8. CASE OpenFile
  BY <1>3, <1>8, OpenFileKeeps DEF OpenFile
<1>9. CASE SaveKey \/ SaveAs
  BY <1>2, <1>9 DEF SaveKey, SaveAs
<1>10. CASE OpenConfig
  <2>1. CASE onDisk = "no"
    BY <1>2, <1>10, <2>1 DEF OpenConfig
  <2>2. CASE onDisk # "no"
    BY <1>3, <1>10, <2>2, ConfigKeeps DEF OpenConfig
  <2> QED
    BY <2>1, <2>2
<1>11. CASE Decline
  <2>1. quit' = focus.exit /\ Open' = Open
    BY <1>11 DEF Decline, Open
  <2>2. focus.exit
    BY <1>1, <2>1
  <2> QED
    BY <2>2 DEF NothingYet
<1>12. CASE CreateConfig
  <2>1. CASE UNCHANGED <<ring, documents, returning, onDisk>>
    BY <1>2, <1>12, <2>1 DEF CreateConfig
  <2>2. CASE onDisk' = "created" /\ OpenConfigPath("created")
    BY <1>3, <1>12, <2>2, ConfigKeeps DEF CreateConfig, ToEditor
  <2> QED
    BY <1>12, <2>1, <2>2 DEF CreateConfig
<1>13. CASE CreatedElsewhere
  BY <1>2, <1>13 DEF CreatedElsewhere
<1>14. CASE Quit
  <2>1. PICK c, f : /\ HandleQuit(c, f) /\ (c = "none" \/ c = confirmation)
                    /\ f.exit => focus.exit /\ f.kind = "create"
                    /\ f.kind = "startup" => focus.kind = "startup"
    <3>1. ~Editor.exit /\ Editor.kind = "editor"
      BY DEF Editor, Surface
    <3> QED
      BY <1>14, <3>1 DEF Quit, NothingYet
  <2>2. CASE WarnConfig(c, f)
    BY <1>2, <2>2 DEF WarnConfig
  <2>3. CASE LeaveConfig(c, f)
    <3>1. Open \ {active} \subseteq Open' /\ UNCHANGED quit
      BY <2>1, <2>3, LeaveKeeps DEF LeaveConfig
    <3>2. d = active
      BY <1>1, <3>1
    <3>3. c = "discard"
      BY <1>1, <2>3, <3>2 DEF LeaveConfig
    <3> QED
      BY <2>1, <3>2, <3>3 DEF Asked
  <2>4. CASE LeaveEditor(c, f)
    <3>1. c = "quit"
      BY <1>2, <2>4 DEF LeaveEditor
    <3> QED
      BY <2>1, <3>1 DEF Asked
  <2> QED
    BY <2>1, <2>2, <2>3, <2>4 DEF HandleQuit
<1> QED
  BY <1>4, <1>5, <1>6, <1>7, <1>8, <1>9, <1>10, <1>11, <1>12, <1>13, <1>14 DEF RingNext

\* Unsaved text goes, with its buffer or with the editor, only after close!, after a
\* warning about it that was confirmed at once, or where a template replaces the buffer of
\* a missing configuration.
THEOREM NothingDiscardedUnasked == RingSpec => NothingDiscarded
<1>1. RingInv /\ [RingNext]_ringVars =>
        [\A d \in DirtyDocs :
           quit' \/ d \notin Open' => d \in warned \/ CloseDiscard \/ RenewActive]_ringVars
  BY DropsAsked
<1> QED
  BY <1>1, RingAlways, PTL DEF RingSpec, NothingDiscarded

\* Where the detour ends.
LEMMA EndsWhereItBegan ==
  ASSUME RingInv, DetourEnds, invoker[3]
  PROVE  active' = invoker[1]
<1> USE DEF RingInv
<1>1. PICK c, f : HandleQuit(c, f)
  BY DEF DetourEnds, Quit
<1>2. InDetour /\ detour # <<>> /\ active \notin Open' /\ invoker # <<>> /\ invoker[2] = active
  BY DEF DetourEnds, InDetour
<1>3. active \in Open
  BY OpenIsDocs
<1>4. LeaveConfig(c, f)
  <2>1. ~UNCHANGED ring
    BY <1>2, <1>3 DEF Open
  <2> QED
    BY <1>1, <1>2, <2>1 DEF HandleQuit, WarnConfig, LeaveEditor
<1> DEFINE n == Count(ring)
           b == detour[1]
           o == Order(ring)
<1>5. /\ n \in Nat /\ b \in Nat /\ ring.index \in 0..n - 1 /\ o[ring.index + 1] = active
      /\ b + 2 <= n /\ o[b + 1] = invoker[1] /\ o[b + 2] = active
  BY <1>2, OrderAt, OpenIsListed DEF Typed, WayBack, active
<1>6. ring.index = b + 1
  <2>1. ring.index + 1 \in 1..n /\ b + 2 \in 1..n
    BY <1>5
  <2>2. ring.index + 1 = b + 2
    BY <1>5, <2>1 DEF Distinct
  <2> QED
    BY <1>5, <2>2
<1>7. Drops /\ ring'.index = b
  <2>1. n # 1 /\ b < n - 1
    BY <1>5
  <2> QED
    BY <1>4, <2>1, LeaveDropsOrRenews
<1>8. Order(ring')[b + 1] = o[b + 1]
  <2>1. b + 1 \in 1..n - 1 /\ b + 1 <= ring.index
    BY <1>5, <1>6
  <2> QED
    BY <1>7, <2>1 DEF Drops
<1>9. active' = Order(ring')[b + 1]
  BY <1>7, OpenIsListed DEF Drops, active
<1> QED
  BY <1>5, <1>8, <1>9

\* Ctrl+Q in a configuration buffer that the detour opened shows the buffer it was asked
\* for in, whatever was looked at, saved or edited in between, for any number of buffers.
THEOREM DetoursReturn == RingSpec => DetourReturns
<1>1. RingInv /\ [RingNext]_ringVars => [DetourEnds /\ invoker[3] => active' = invoker[1]]_ringVars
  BY EndsWhereItBegan
<1> QED
  BY <1>1, RingAlways, PTL DEF RingSpec, DetourReturns

-----------------------------------------------------------------------------
(* The refinement. *)

LEMMA InsertAtIs ==
  ASSUME NEW o \in Seq(Docs), NEW i \in 1..Len(o) + 1, NEW d \in Docs
  PROVE  /\ InsertAt(o, i, d) \in Seq(Docs) /\ Len(InsertAt(o, i, d)) = Len(o) + 1
         /\ \A k \in 1..Len(o) + 1 : InsertAt(o, i, d)[k] =
              IF k < i THEN o[k] ELSE IF k = i THEN d ELSE o[k - 1]
<1> DEFINE before == SubSeq(o, 1, i - 1)
           after == SubSeq(o, i, Len(o))
<1>0. Len(o) \in Nat /\ i \in Nat
  OBVIOUS
<1>1. /\ before \in Seq(Docs) /\ Len(before) = i - 1
      /\ \A k \in 1..i - 1 : before[k] = o[k]
  BY <1>0, SubSeqProperties, ElementOfSeq
<1>2. /\ after \in Seq(Docs) /\ Len(after) = Len(o) - i + 1
      /\ \A k \in 1..Len(o) - i + 1 : after[k] = o[i + k - 1]
  BY <1>0, SubSeqProperties, ElementOfSeq
<1> HIDE DEF before, after
<1>3. <<d>> \in Seq(Docs) /\ Len(<<d>>) = 1 /\ <<d>>[1] = d
  OBVIOUS
<1> DEFINE front == before \o <<d>>
<1>4. /\ front \in Seq(Docs) /\ Len(front) = i
      /\ \A k \in 1..i : front[k] = IF k < i THEN o[k] ELSE d
  BY <1>0, <1>1, <1>3, ConcatProperties
<1> HIDE DEF front
<1>5. /\ front \o after \in Seq(Docs) /\ Len(front \o after) = Len(o) + 1
      /\ \A k \in 1..Len(o) + 1 : (front \o after)[k] = IF k <= i THEN front[k] ELSE after[k - i]
  BY <1>0, <1>2, <1>4, ConcatProperties
<1>6. ASSUME NEW k \in 1..Len(o) + 1
      PROVE  (front \o after)[k] = IF k < i THEN o[k] ELSE IF k = i THEN d ELSE o[k - 1]
  <2>1. CASE k <= i
    BY <1>0, <1>4, <1>5, <2>1
  <2>2. CASE k > i
    <3>1. k - i \in 1..Len(o) - i + 1 /\ i + (k - i) - 1 = k - 1
      BY <1>0, <2>2
    <3>2. after[k - i] = o[k - 1]
      BY <1>2, <3>1
    <3> QED
      BY <1>0, <1>5, <2>2, <3>2
  <2>3. k <= i \/ k > i
    BY <1>0
  <2> QED
    BY <2>1, <2>2, <2>3
<1> QED
  BY <1>5, <1>6 DEF InsertAt, front, before, after

LEMMA RemoveAtIs ==
  ASSUME NEW o \in Seq(Docs), NEW i \in 1..Len(o)
  PROVE  /\ RemoveAt(o, i) \in Seq(Docs) /\ Len(RemoveAt(o, i)) = Len(o) - 1
         /\ \A k \in 1..Len(o) - 1 : RemoveAt(o, i)[k] = IF k < i THEN o[k] ELSE o[k + 1]
<1> DEFINE before == SubSeq(o, 1, i - 1)
           after == SubSeq(o, i + 1, Len(o))
<1>0. Len(o) \in Nat /\ i \in Nat
  OBVIOUS
<1>1. /\ before \in Seq(Docs) /\ Len(before) = i - 1
      /\ \A k \in 1..i - 1 : before[k] = o[k]
  BY <1>0, SubSeqProperties, ElementOfSeq
<1>2. /\ after \in Seq(Docs) /\ Len(after) = Len(o) - i
      /\ \A k \in 1..Len(o) - i : after[k] = o[i + k]
  BY <1>0, SubSeqProperties, ElementOfSeq
<1> HIDE DEF before, after
<1>3. /\ before \o after \in Seq(Docs) /\ Len(before \o after) = Len(o) - 1
      /\ \A k \in 1..Len(o) - 1 :
           (before \o after)[k] = IF k <= i - 1 THEN before[k] ELSE after[k - (i - 1)]
  <2>1. Len(before) + Len(after) = Len(o) - 1
    BY <1>0, <1>1, <1>2
  <2>2. /\ before \o after \in Seq(Docs) /\ Len(before \o after) = Len(before) + Len(after)
        /\ \A k \in 1..Len(before) + Len(after) :
             (before \o after)[k] = IF k <= Len(before) THEN before[k] ELSE after[k - Len(before)]
    BY <1>1, <1>2, ConcatProperties
  <2> QED
    BY <1>1, <2>1, <2>2
<1>4. ASSUME NEW k \in 1..Len(o) - 1
      PROVE  (before \o after)[k] = IF k < i THEN o[k] ELSE o[k + 1]
  <2>1. CASE k < i
    BY <1>0, <1>1, <1>3, <2>1
  <2>2. CASE k >= i
    <3>1. k - (i - 1) \in 1..Len(o) - i /\ i + (k - (i - 1)) = k + 1
      BY <1>0, <2>2
    <3>2. after[k - (i - 1)] = o[k + 1]
      BY <1>2, <3>1
    <3> QED
      BY <1>0, <1>3, <2>2, <3>2
  <2>3. k < i \/ k >= i
    BY <1>0
  <2> QED
    BY <2>1, <2>2, <2>3
<1> QED
  BY <1>3, <1>4 DEF RemoveAt, before, after

\* The list of a ring, as Ring sees it.
LEMMA ListOf ==
  ASSUME NEW r, Indexed(r)
  PROVE  /\ Order(r) \in Seq(Docs) /\ Len(Order(r)) = Count(r) /\ DOMAIN Order(r) = 1..Count(r)
         /\ Count(r) \in Nat \ {0} /\ r.index \in 0..Count(r) - 1 /\ r.index + 1 \in 1..Count(r)
<1>1. /\ Order(r) \in Seq(Docs) /\ Len(Order(r)) = Count(r)
      /\ Count(r) \in Nat \ {0} /\ r.index \in 0..Count(r) - 1
  BY OrderAt
<1> QED
  BY <1>1, LenProperties

LEMMA GoesIsGo ==
  ASSUME Typed, Goes
  PROVE  Listed!Go
<1>1. ring'.index + 1 \in DOMAIN Order(ring')
  BY ListOf DEF Goes
<1> QED
  BY <1>1 DEF Goes, Listed!Go

LEMMA AddsIsInsertAfter ==
  ASSUME Typed, NEW d \in Docs, NEW p, Adds(d, p)
  PROVE  Listed!InsertAfter
<1> DEFINE o == Order(ring)
           q == Order(ring')
           i == ring.index
           n == Count(ring)
<1>1. /\ o \in Seq(Docs) /\ Len(o) = n /\ DOMAIN o = 1..n /\ n \in Nat /\ i \in 0..n - 1
      /\ q \in Seq(Docs) /\ Len(q) = n + 1 /\ ring'.index = i + 1
      /\ \A k \in 1..n + 1 : q[k] = IF k <= i + 1 THEN o[k] ELSE IF k = i + 2 THEN d ELSE o[k - 1]
  BY ListOf DEF Typed, Adds
<1>2. d \notin {o[k] : k \in DOMAIN o}
  BY <1>1, OpenIsListed DEF Typed, Adds, Unused, Open
<1> HIDE DEF o, q, i, n
<1>3. i + 2 \in 1..Len(o) + 1 /\ (i + 1) + 1 = i + 2
  BY <1>1
<1> DEFINE t == InsertAt(o, i + 2, d)
<1>4. /\ t \in Seq(Docs) /\ Len(t) = n + 1
      /\ \A k \in 1..n + 1 : t[k] = IF k < i + 2 THEN o[k] ELSE IF k = i + 2 THEN d ELSE o[k - 1]
  <2> DEFINE at == i + 2
  <2>1. at \in 1..Len(o) + 1 /\ Len(o) + 1 = n + 1
    BY <1>1, <1>3
  <2> HIDE DEF at
  <2>2. /\ InsertAt(o, at, d) \in Seq(Docs) /\ Len(InsertAt(o, at, d)) = n + 1
        /\ \A k \in 1..n + 1 : InsertAt(o, at, d)[k] =
             IF k < at THEN o[k] ELSE IF k = at THEN d ELSE o[k - 1]
    <3>1. o \in Seq(Docs) /\ at \in 1..Len(o) + 1
      BY <1>1, <2>1
    <3>2. /\ InsertAt(o, at, d) \in Seq(Docs) /\ Len(InsertAt(o, at, d)) = Len(o) + 1
          /\ \A k \in 1..Len(o) + 1 : InsertAt(o, at, d)[k] =
               IF k < at THEN o[k] ELSE IF k = at THEN d ELSE o[k - 1]
      BY <3>1, InsertAtIs
    <3> QED
      BY <2>1, <3>2
  <2> QED
    BY <2>2 DEF at
<1> HIDE DEF t
<1>5. ASSUME NEW k \in 1..Len(q)
      PROVE  q[k] = t[k]
  <2>1. k \in 1..n + 1 /\ (k <= i + 1 <=> k < i + 2)
    BY <1>1
  <2> QED
    BY <1>1, <1>4, <2>1
<1>6. q = t
  BY <1>1, <1>4, <1>5, SeqEqual
<1>7. Order(ring') = InsertAt(Order(ring), (ring.index + 1) + 1, d) /\ ring'.index + 1 = (ring.index + 1) + 1
  BY <1>1, <1>3, <1>6 DEF t, q, o, i
<1>8. Listed!Fresh(d)
  BY <1>2 DEF Listed!Fresh, o
<1> QED
  BY <1>7, <1>8 DEF Listed!InsertAfter, InsertAt, Listed!InsertAt

LEMMA DropsIsRemove ==
  ASSUME Typed, Drops
  PROVE  /\ Listed!RemoveAndGo
         /\ (ring'.index = IF ring.index = Count(ring) - 1 THEN 0 ELSE ring.index) => Listed!Leave
<1> DEFINE o == Order(ring)
           q == Order(ring')
           i == ring.index
           n == Count(ring)
<1>1. /\ o \in Seq(Docs) /\ Len(o) = n /\ n \in Nat /\ n > 1 /\ i \in 0..n - 1
      /\ q \in Seq(Docs) /\ Len(q) = n - 1 /\ ring'.index + 1 \in DOMAIN q
      /\ \A k \in 1..n - 1 : q[k] = IF k <= i THEN o[k] ELSE o[k + 1]
  BY ListOf DEF Typed, Drops
<1> HIDE DEF o, q, i, n
<1> DEFINE t == RemoveAt(o, i + 1)
<1>2. /\ t \in Seq(Docs) /\ Len(t) = n - 1
      /\ \A k \in 1..n - 1 : t[k] = IF k < i + 1 THEN o[k] ELSE o[k + 1]
  <2>1. i + 1 \in 1..Len(o)
    BY <1>1
  <2> QED
    BY <1>1, <2>1, RemoveAtIs
<1> HIDE DEF t
<1>3. \A k \in 1..Len(q) : q[k] = t[k]
  BY <1>1, <1>2
<1>4. q = t
  BY <1>1, <1>2, <1>3, SeqEqual
<1>5. /\ Len(Order(ring)) > 1 /\ Order(ring') = RemoveAt(Order(ring), ring.index + 1)
      /\ ring'.index + 1 \in DOMAIN Order(ring')
  BY <1>1, <1>4 DEF t, q, o, i
<1>6. ASSUME ring'.index = IF i = n - 1 THEN 0 ELSE i
      PROVE  ring'.index + 1 = IF i + 1 = Len(o) THEN 1 ELSE i + 1
  BY <1>1, <1>6
<1>7. Listed!RemoveAndGo
  BY <1>5 DEF Listed!RemoveAndGo, RemoveAt, Listed!RemoveAt
<1>8. ASSUME ring'.index = IF ring.index = Count(ring) - 1 THEN 0 ELSE ring.index
      PROVE  Listed!Leave
  <2>1. ring'.index + 1 = IF ring.index + 1 = Len(Order(ring)) THEN 1 ELSE ring.index + 1
    BY <1>6, <1>8 DEF o, i, n
  <2> QED
    BY <1>5, <2>1 DEF Listed!Leave, RemoveAt, Listed!RemoveAt
<1> QED
  BY <1>7, <1>8

LEMMA RenewsIsRenew ==
  ASSUME Typed, NEW d \in Docs, NEW p, Renews(d, p)
  PROVE  Listed!Renew
<1> DEFINE o == Order(ring)
           q == Order(ring')
           i == ring.index
           n == Count(ring)
<1>1. /\ o \in Seq(Docs) /\ Len(o) = n /\ DOMAIN o = 1..n /\ n \in Nat /\ i + 1 \in 1..n
      /\ q \in Seq(Docs) /\ Len(q) = n /\ ring'.index = i
      /\ \A k \in 1..n : q[k] = IF k = i + 1 THEN d ELSE o[k]
  BY ListOf DEF Typed, Renews
<1>2. d \notin {o[k] : k \in DOMAIN o}
  BY <1>1, OpenIsListed DEF Typed, Renews, Unused, Open
<1> HIDE DEF o, q, i, n
<1> DEFINE t == [o EXCEPT ![i + 1] = d]
<1>3. /\ t \in Seq(Docs) /\ Len(t) = n /\ \A k \in 1..n : t[k] = IF k = i + 1 THEN d ELSE o[k]
  BY <1>1, ExceptSeq
<1> HIDE DEF t
<1>4. \A k \in 1..Len(q) : q[k] = t[k]
  BY <1>1, <1>3
<1>5. q = t
  BY <1>1, <1>3, <1>4, SeqEqual
<1>6. Order(ring') = [Order(ring) EXCEPT ![ring.index + 1] = d] /\ ring'.index + 1 = ring.index + 1
  BY <1>1, <1>5 DEF t, q, o, i
<1>7. Listed!Fresh(d)
  BY <1>2 DEF Listed!Fresh, o
<1> QED
  BY <1>6, <1>7 DEF Listed!Renew

LEMMA OpenIsListStep ==
  ASSUME RingInv, NEW p \in Paths, NEW there, OpenFileBuffer(p, there)
  PROVE  UNCHANGED ring \/ Listed!RingNext
<1>1. CASE Goes
  BY <1>1, GoesIsGo DEF Listed!RingNext, RingInv
<1>2. CASE \E d \in Docs : Adds(d, p)
  BY <1>2, AddsIsInsertAfter DEF Listed!RingNext, RingInv
<1> QED
  BY <1>1, <1>2, OpenGoesOrAdds DEF RingInv

LEMMA StepIsListStep ==
  ASSUME RingInv, RingNext
  PROVE  UNCHANGED ring \/ Listed!RingNext
<1> USE DEF RingInv, Listed!RingNext
<1>1. CASE PromptEdit \/ Cancel \/ OpenPrompt \/ Edit \/ StartReview \/ PollReview
           \/ SaveKey \/ SaveAs \/ Decline \/ CreatedElsewhere
  BY <1>1 DEF PromptEdit, Cancel, OpenPrompt, Edit, StartReview, PollReview, SaveKey, SaveAs,
              Decline, CreatedElsewhere
<1>2. CASE SwitchBuffer
  BY <1>2, SwitchGoes, GoesIsGo
<1>3. CASE New
  BY <1>3, NewAdds, AddsIsInsertAfter
<1>4. CASE CloseBuffer
  <2>1. CASE Drops /\ ring'.index = IF ring.index = Count(ring) - 1 THEN 0 ELSE ring.index
    BY <2>1, DropsIsRemove
  <2>2. CASE \E d \in Docs : Renews(d, NoPath)
    BY <2>2, RenewsIsRenew
  <2> QED
    BY <1>4, <2>1, <2>2, CloseDropsOrRenews
<1>5. CASE Close
  BY <1>4, <1>5 DEF Close
<1>6. CASE CloseDiscard
  BY <1>4, <1>6 DEF CloseDiscard
<1>7. CASE OpenFile
  BY <1>7, OpenIsListStep DEF OpenFile
<1>8. CASE OpenConfig \/ CreateConfig
  <2>1. CASE \E there : OpenConfigPath(there)
    <3>1. Config \in Paths /\ \E there : OpenFileBuffer(Config, there)
      BY <2>1 DEF OpenConfigPath, Paths
    <3> QED
      BY <3>1, OpenIsListStep
  <2> QED
    BY <1>8, <2>1 DEF OpenConfig, CreateConfig
<1>9. CASE RenewActive
  BY <1>9, RenewRenews, RenewsIsRenew
<1>10. CASE Quit
  <2>1. PICK c, f : HandleQuit(c, f)
    BY <1>10 DEF Quit
  <2>2. CASE LeaveConfig(c, f)
    <3>1. CASE Drops
      BY <3>1, DropsIsRemove
    <3>2. CASE \E d \in Docs : Renews(d, NoPath)
      BY <3>2, RenewsIsRenew
    <3> QED
      BY <2>2, <3>1, <3>2, LeaveDropsOrRenews
  <2> QED
    BY <2>1, <2>2 DEF HandleQuit, WarnConfig, LeaveEditor
<1> QED
  BY <1>1, <1>2, <1>3, <1>5, <1>6, <1>7, <1>8, <1>9, <1>10 DEF RingNext

\* A deque, an index and swapped fields implement one list in which switching moves a
\* mark, opening inserts after it and closing removes at it.
THEOREM TheRingIsAList == RingSpec => ImplementsRing
<1>1. RingInit => Listed!RingInit
  <2> SUFFICES ASSUME RingInit
               PROVE  Listed!RingInit
    OBVIOUS
  <2>1. Indexed(ring) /\ Count(ring) = 1 /\ ring.index = 0
    <3>1. RingInv
      BY Initially
    <3>2. Count(ring) = 1 /\ ring.index = 0
      BY DEF RingInit, Count
    <3> QED
      BY <3>1, <3>2 DEF RingInv, Typed
  <2>2. Order(ring) \in [1..1 -> Docs] /\ ring.index + 1 = 1
    <3>1. Order(ring) \in Seq(Docs) /\ Len(Order(ring)) = 1
      BY <2>1, ListOf
    <3> QED
      BY <2>1, <3>1, LenProperties
  <2> QED
    BY <2>2 DEF Listed!RingInit
<1>2. RingInv /\ [RingNext]_ringVars => [Listed!RingNext]_<<Order(ring), ring.index + 1>>
  <2> SUFFICES ASSUME RingInv, [RingNext]_ringVars
               PROVE  [Listed!RingNext]_<<Order(ring), ring.index + 1>>
    OBVIOUS
  <2>1. UNCHANGED ring \/ Listed!RingNext
    BY StepIsListStep DEF ringVars
  <2>2. CASE UNCHANGED ring
    BY <2>2
  <2> QED
    BY <2>1, <2>2
<1> QED
  BY <1>1, <1>2, RingAlways, PTL DEF RingSpec, ImplementsRing, Listed!RingSpec
=============================================================================
