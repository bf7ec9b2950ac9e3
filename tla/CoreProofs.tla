----------------------------- MODULE CoreProofs -----------------------------
(***************************************************************************)
(* Theorems about Core, for every value of its constants.                  *)
(*                                                                         *)
(* First the order books: the comparison is a strict weak order, so        *)
(* std::multiset::insert has a place to put a deal, and the book stays     *)
(* sorted when a deal goes in there or the first one is taken out.         *)
(*                                                                         *)
(* TypeOK is not inductive: Insert is a CHOOSE, whose value is known only  *)
(* for a sorted book.  NotCrossed is not inductive either: the loops look  *)
(* at the first resting deal only, which bounds the others when the book   *)
(* is sorted.  The inductive invariant is the conjunction of the three.    *)
(*                                                                         *)
(* Then whom the loops serve and at what price.  What a step fills is told *)
(* from the fill's id, so this rests on following each order from its      *)
(* submission through the books: what rests or is in flight still has the  *)
(* class, owner, limit and time it was submitted with, and no order is in  *)
(* two places (OrdersFollowed).  When the clock advances between orders,   *)
(* the older of two orders is the one submitted first (OrdersInTime).      *)
(*                                                                         *)
(* Last, Core implements Clearing when all requests carry the uid of an    *)
(* account.                                                                *)
(***************************************************************************)
EXTENDS CoreProperties, SequenceTheorems, FiniteSetTheorems, WellFoundedInduction, TLAPS

\* operator< is irreflexive and asymmetric on the deals of one class.
LEMMA LessAsymmetric ==
    ASSUME NEW side \in Sides, NEW a \in Resting(side), NEW b \in Resting(side)
    PROVE  ~(Less(a, b) /\ Less(b, a))
BY DEF Less, Resting, DealType, Sides

\* A deal below one that is not above a third is below the third: the relation
\* "neither is less" does not break the order.
LEMMA LessWeakOrder ==
    ASSUME NEW side \in Sides, NEW a \in Resting(side), NEW b \in Resting(side),
           NEW c \in Resting(side), Less(a, b), ~Less(c, b)
    PROVE  Less(a, c)
BY DEF Less, Resting, DealType, Sides

\* A nonempty set of natural numbers has a least element.
LEMMA LeastElement ==
    ASSUME NEW K, K \subseteq Nat, K # {}
    PROVE  \E k \in K : \A l \in K : k <= l
<1> DEFINE Below == {p \in Nat \X Nat : p[1] < p[2]}
<1>1. Below = OpToRel(<, Nat)
  BY Zenon DEF OpToRel
<1>2. IsWellFoundedOn(Below, Nat)
  BY <1>1, NatLessThanWellFounded
<1>3. PICK k \in K : \A l \in K : <<l, k>> \notin Below
  BY <1>2, WFMin
<1>4. \A l \in K : l < k => <<l, k>> \in Below
  OBVIOUS
<1>5. \A l \in K : ~(l < k)
  <2> HIDE DEF Below
  <2> QED BY <1>3, <1>4
<1>6. QED
  BY <1>5

\* In a sorted book there is a place after every deal that is not greater than
\* the new one and before every deal that is.
LEMMA UpperBoundExists ==
    ASSUME NEW side \in Sides, NEW book \in Seq(Resting(side)), Sorted(book),
           NEW deal \in Resting(side)
    PROVE  /\ UpperBound(book, deal) \in 0 .. Len(book)
           /\ \A i \in 1 .. UpperBound(book, deal) : ~Less(deal, book[i])
           /\ \A i \in (UpperBound(book, deal) + 1) .. Len(book) : Less(deal, book[i])
<1> DEFINE K == {k \in 0 .. Len(book) : \A i \in (k + 1) .. Len(book) : Less(deal, book[i])}
<1>1. /\ Len(book) \in Nat
      /\ DOMAIN book = 1 .. Len(book)
      /\ \A i \in 1 .. Len(book) : book[i] \in Resting(side)
  BY LenProperties, ElementOfSeq
<1>2. K \subseteq Nat /\ Len(book) \in K
  BY <1>1
<1>3. PICK k \in K : \A l \in K : k <= l
  <2> HIDE DEF K
  <2> QED BY <1>2, LeastElement
<1>4. \A i \in 1 .. k : ~Less(deal, book[i])
  <2>1. SUFFICES ASSUME NEW i \in 1 .. k, Less(deal, book[i])
                 PROVE  FALSE
    OBVIOUS
  <2>2. k \in 1 .. Len(book) /\ k - 1 \in 0 .. Len(book) /\ i \in 1 .. Len(book)
    BY <1>1, <1>3
  <2>3. k - 1 \notin K
    <3> HIDE DEF K
    <3> QED BY <1>1, <1>2, <1>3
  <2>4. ~Less(deal, book[k])
    BY <1>1, <1>3, <2>2, <2>3
  <2>5. ~Less(book[k], book[i])
    <3>1. CASE i = k
      BY <1>1, <2>2, <2>4, <2>1, <3>1
    <3>2. CASE i < k
      BY <1>1, <2>2, <3>2 DEF Sorted
    <3>3. QED
      BY <1>1, <2>2, <3>1, <3>2
  <2>6. QED
    BY <1>1, <2>1, <2>2, <2>4, <2>5, LessWeakOrder
<1>5. \A i \in (k + 1) .. Len(book) : Less(deal, book[i])
  BY <1>3
<1>6. QED
  <2> HIDE DEF K
  <2>1. k \in 0 .. Len(book)
    BY <1>3 DEF K
  <2>2. QED
    BY <1>4, <1>5, <2>1 DEF UpperBound

\* Insert puts the deal at one place and moves what is behind it up by one.
LEMMA InsertPlaces ==
    ASSUME NEW side \in Sides, NEW book \in Seq(Resting(side)), Sorted(book),
           NEW deal \in Resting(side)
    PROVE  /\ UpperBound(book, deal) \in 0 .. Len(book)
           /\ Insert(book, deal) \in Seq(Resting(side))
           /\ Len(Insert(book, deal)) = Len(book) + 1
           /\ \A i \in 1 .. UpperBound(book, deal) : Insert(book, deal)[i] = book[i]
           /\ Insert(book, deal)[UpperBound(book, deal) + 1] = deal
           /\ \A i \in (UpperBound(book, deal) + 2) .. (Len(book) + 1) :
                  Insert(book, deal)[i] = book[i - 1]
<1> DEFINE k == UpperBound(book, deal)
           before == SubSeq(book, 1, k)
           after == SubSeq(book, k + 1, Len(book))
           new == Insert(book, deal)
<1>1. /\ Len(book) \in Nat
      /\ DOMAIN book = 1 .. Len(book)
      /\ \A i \in 1 .. Len(book) : book[i] \in Resting(side)
  BY LenProperties, ElementOfSeq
<1>2. /\ k \in 0 .. Len(book)
      /\ \A i \in 1 .. k : ~Less(deal, book[i])
      /\ \A i \in (k + 1) .. Len(book) : Less(deal, book[i])
  BY UpperBoundExists
<1> HIDE DEF k
<1>3. /\ before \in Seq(Resting(side))
      /\ Len(before) = k
      /\ \A i \in 1 .. k : before[i] = book[i]
  BY <1>1, <1>2, SubSeqProperties
<1>4. /\ after \in Seq(Resting(side))
      /\ Len(after) = Len(book) - k
      /\ \A i \in 1 .. (Len(book) - k) : after[i] = book[k + i]
  <2>1. \A i \in (k + 1) .. Len(book) : book[i] \in Resting(side)
    BY <1>1, <1>2
  <2>2. k + 1 \in Int /\ Len(book) \in Int
    BY <1>1, <1>2
  <2>3. /\ after \in Seq(Resting(side))
        /\ Len(after) = IF k + 1 <= Len(book) THEN Len(book) - (k + 1) + 1 ELSE 0
        /\ \A i \in 1 .. (Len(book) - (k + 1) + 1) : after[i] = book[(k + 1) + i - 1]
    BY <2>1, <2>2, SubSeqProperties
  <2> HIDE DEF after
  <2>4. ASSUME NEW i \in 1 .. (Len(book) - k)
        PROVE  after[i] = book[k + i]
    <3>1. i \in 1 .. (Len(book) - (k + 1) + 1) /\ (k + 1) + i - 1 = k + i
      BY <1>1, <1>2
    <3>2. QED
      BY <2>3, <3>1
  <2>5. Len(after) = Len(book) - k
    <3>1. CASE k < Len(book)
      <4>1. k + 1 <= Len(book) /\ Len(book) - (k + 1) + 1 = Len(book) - k
        BY <1>1, <1>2, <3>1
      <4>2. QED
        BY <2>3, <4>1
    <3>2. CASE k = Len(book)
      <4>1. ~(k + 1 <= Len(book)) /\ Len(book) - k = 0
        BY <1>1, <1>2, <3>2
      <4>2. QED
        BY <2>3, <4>1
    <3>3. k \in 0 .. Len(book) /\ Len(book) \in Nat
      BY <1>1, <1>2, Zenon
    <3>4. k \in Int /\ Len(book) \in Int /\ k <= Len(book)
      BY <3>3
    <3>5. k < Len(book) \/ k = Len(book)
      BY <3>4
    <3>6. QED
      BY <3>1, <3>2, <3>5
  <2>6. QED
    BY <2>3, <2>4, <2>5
<1> DEFINE upto == before \o <<deal>>
<1>5. /\ <<deal>> \in Seq(Resting(side))
      /\ Len(<<deal>>) = 1
      /\ <<deal>>[1] = deal
  OBVIOUS
<1>6. /\ upto \in Seq(Resting(side))
      /\ Len(upto) = k + 1
      /\ \A i \in 1 .. k : upto[i] = book[i]
      /\ upto[k + 1] = deal
  <2> HIDE DEF before
  <2>1. /\ upto \in Seq(Resting(side))
        /\ Len(upto) = k + 1
        /\ \A i \in 1 .. k + 1 :
               upto[i] = IF i <= k THEN before[i] ELSE <<deal>>[i - k]
    BY <1>3, <1>5, ConcatProperties
  <2>2. QED
    BY <1>2, <1>3, <1>5, <2>1
<1>7. new = upto \o after
  <2>1. (k + 1) - 1 = k
    BY <1>2
  <2>2. QED
    BY <2>1 DEF Insert, InsertAt, k
<1>8. /\ new \in Seq(Resting(side))
      /\ Len(new) = Len(book) + 1
      /\ \A i \in 1 .. k : new[i] = book[i]
      /\ new[k + 1] = deal
      /\ \A i \in (k + 2) .. (Len(book) + 1) : new[i] = book[i - 1]
  <2> HIDE DEF upto, after, new
  <2>1. /\ upto \o after \in Seq(Resting(side))
        /\ Len(upto \o after) = k + 1 + (Len(book) - k)
        /\ \A i \in 1 .. (k + 1 + (Len(book) - k)) :
               (upto \o after)[i] = IF i <= k + 1 THEN upto[i] ELSE after[i - (k + 1)]
    <3>1. /\ upto \o after \in Seq(Resting(side))
          /\ Len(upto \o after) = Len(upto) + Len(after)
          /\ \A i \in 1 .. (Len(upto) + Len(after)) :
                 (upto \o after)[i] = IF i <= Len(upto) THEN upto[i] ELSE after[i - Len(upto)]
      BY <1>4, <1>6, ConcatProperties
    <3>2. Len(upto) = k + 1 /\ Len(after) = Len(book) - k
      BY <1>4, <1>6
    <3>3. QED
      BY <3>1, <3>2, Zenon
  <2>2. k + 1 + (Len(book) - k) = Len(book) + 1
    BY <1>1, <1>2
  <2>3. ASSUME NEW i \in 1 .. k + 1
        PROVE  new[i] = upto[i]
    <3>1. i \in 1 .. (k + 1 + (Len(book) - k)) /\ i <= k + 1
      BY <1>1, <1>2
    <3>2. QED
      BY <1>7, <2>1, <3>1
  <2>4. ASSUME NEW i \in (k + 2) .. (Len(book) + 1)
        PROVE  new[i] = book[i - 1]
    <3>1. /\ i \in 1 .. (k + 1 + (Len(book) - k)) /\ ~(i <= k + 1)
          /\ i - (k + 1) \in 1 .. (Len(book) - k) /\ k + (i - (k + 1)) = i - 1
      BY <1>1, <1>2
    <3>2. new[i] = after[i - (k + 1)]
      BY <1>7, <2>1, <3>1
    <3>3. QED
      BY <1>4, <3>1, <3>2
  <2>5. k + 1 \in 1 .. k + 1 /\ \A i \in 1 .. k : i \in 1 .. k + 1
    BY <1>2
  <2>6. (\A i \in 1 .. k : new[i] = book[i]) /\ new[k + 1] = deal
    BY <1>6, <2>3, <2>5
  <2>7. new \in Seq(Resting(side)) /\ Len(new) = Len(book) + 1
    BY <1>7, <2>1, <2>2
  <2>8. QED
    BY <2>4, <2>6, <2>7
<1>9. QED
  BY <1>2, <1>8 DEF new, k

\* The book stays sorted, and holds what it held and the deal.
LEMMA InsertProperties ==
    ASSUME NEW side \in Sides, NEW book \in Seq(Resting(side)), Sorted(book),
           NEW deal \in Resting(side)
    PROVE  /\ Insert(book, deal) \in Seq(Resting(side))
           /\ Len(Insert(book, deal)) = Len(book) + 1
           /\ Sorted(Insert(book, deal))
           /\ \A i \in 1 .. Len(book) + 1 :
                  \/ Insert(book, deal)[i] = deal
                  \/ \E j \in 1 .. Len(book) : Insert(book, deal)[i] = book[j]
<1> DEFINE k == UpperBound(book, deal)
           new == Insert(book, deal)
<1>1. /\ Len(book) \in Nat
      /\ DOMAIN book = 1 .. Len(book)
      /\ \A i \in 1 .. Len(book) : book[i] \in Resting(side)
  BY LenProperties, ElementOfSeq
<1>2. /\ k \in 0 .. Len(book)
      /\ \A i \in 1 .. k : ~Less(deal, book[i])
      /\ \A i \in (k + 1) .. Len(book) : Less(deal, book[i])
  BY UpperBoundExists
<1>3. /\ new \in Seq(Resting(side))
      /\ Len(new) = Len(book) + 1
      /\ \A i \in 1 .. k : new[i] = book[i]
      /\ new[k + 1] = deal
      /\ \A i \in (k + 2) .. (Len(book) + 1) : new[i] = book[i - 1]
  BY InsertPlaces
<1> HIDE DEF new, k
<1>4. Sorted(new)
  <2>1. DOMAIN new = 1 .. (Len(book) + 1)
    BY <1>3, LenProperties
  <2>2. SUFFICES ASSUME NEW i \in 1 .. (Len(book) + 1), NEW j \in 1 .. (Len(book) + 1),
                        i < j
                 PROVE  ~Less(new[j], new[i])
    BY <2>1 DEF Sorted
  <2>3. CASE j <= k
    <3>1. i \in 1 .. Len(book) /\ j \in 1 .. Len(book) /\ i \in 1 .. k /\ j \in 1 .. k
      BY <1>1, <1>2, <2>2, <2>3
    <3>2. QED
      BY <1>1, <1>3, <2>2, <3>1 DEF Sorted
  <2>4. CASE j = k + 1
    <3>1. i \in 1 .. k
      BY <1>2, <2>2, <2>4
    <3>2. QED
      BY <1>2, <1>3, <2>4, <3>1
  <2>5. CASE i <= k /\ j > k + 1
    <3>1. i \in 1 .. k /\ i \in 1 .. Len(book) /\ j - 1 \in 1 .. Len(book) /\ i < j - 1
          /\ j \in (k + 2) .. (Len(book) + 1)
      BY <1>1, <1>2, <2>5
    <3>2. new[i] = book[i] /\ new[j] = book[j - 1]
      BY <1>3, <3>1
    <3>3. QED
      BY <1>1, <3>1, <3>2 DEF Sorted
  <2>6. CASE i = k + 1
    <3>1. j - 1 \in (k + 1) .. Len(book) /\ j - 1 \in 1 .. Len(book)
          /\ j \in (k + 2) .. (Len(book) + 1)
      BY <1>1, <1>2, <2>2, <2>6
    <3>2. new[i] = deal /\ new[j] = book[j - 1] /\ Less(deal, book[j - 1])
      BY <1>2, <1>3, <2>6, <3>1
    <3>3. QED
      BY <1>1, <3>1, <3>2, LessAsymmetric
  <2>7. CASE i > k + 1
    <3>1. /\ i - 1 \in 1 .. Len(book) /\ j - 1 \in 1 .. Len(book) /\ i - 1 < j - 1
          /\ i \in (k + 2) .. (Len(book) + 1) /\ j \in (k + 2) .. (Len(book) + 1)
      BY <1>1, <1>2, <2>2, <2>7
    <3>2. new[i] = book[i - 1] /\ new[j] = book[j - 1]
      BY <1>3, <3>1
    <3>3. QED
      BY <1>1, <3>1, <3>2 DEF Sorted
  <2>8. QED
    BY <1>1, <1>2, <2>2, <2>3, <2>4, <2>5, <2>6, <2>7
<1>5. \A i \in 1 .. Len(book) + 1 :
          new[i] = deal \/ \E j \in 1 .. Len(book) : new[i] = book[j]
  <2>1. SUFFICES ASSUME NEW i \in 1 .. Len(book) + 1
                 PROVE  new[i] = deal \/ \E j \in 1 .. Len(book) : new[i] = book[j]
    OBVIOUS
  <2>2. CASE i <= k
    BY <1>1, <1>2, <1>3, <2>2
  <2>3. CASE i = k + 1
    BY <1>3, <2>3
  <2>4. CASE i > k + 1
    <3>1. i - 1 \in 1 .. Len(book) /\ i \in (k + 2) .. (Len(book) + 1)
      BY <1>1, <1>2, <2>4
    <3>2. QED
      BY <1>3, <3>1
  <2>5. QED
    BY <1>1, <1>2, <2>2, <2>3, <2>4
<1>6. QED
  BY <1>3, <1>4, <1>5 DEF new

\* A sorted book stays sorted without its first deal.
LEMMA TailProperties ==
    ASSUME NEW side \in Sides, NEW book \in Seq(Resting(side)), Sorted(book), book # <<>>
    PROVE  /\ Len(book) \in Nat \ {0}
           /\ Head(book) = book[1] /\ Head(book) \in Resting(side)
           /\ Tail(book) \in Seq(Resting(side))
           /\ Len(Tail(book)) = Len(book) - 1
           /\ \A i \in 1 .. Len(Tail(book)) : Tail(book)[i] = book[i + 1]
           /\ Sorted(Tail(book))
<1>1. /\ Len(book) \in Nat \ {0}
      /\ DOMAIN book = 1 .. Len(book)
  BY LenProperties, EmptySeq
<1>2. /\ Head(book) \in Resting(side)
      /\ Tail(book) \in Seq(Resting(side))
      /\ Len(Tail(book)) = Len(book) - 1
      /\ \A i \in 1 .. Len(Tail(book)) : Tail(book)[i] = book[i + 1]
  BY HeadTailProperties
<1>3. DOMAIN Tail(book) = 1 .. (Len(book) - 1)
  BY <1>2, LenProperties
<1>4. Sorted(Tail(book))
  <2>1. SUFFICES ASSUME NEW i \in 1 .. (Len(book) - 1), NEW j \in 1 .. (Len(book) - 1), i < j
                 PROVE  ~Less(Tail(book)[j], Tail(book)[i])
    BY <1>3 DEF Sorted
  <2>2. i + 1 \in 1 .. Len(book) /\ j + 1 \in 1 .. Len(book) /\ i + 1 < j + 1
    BY <1>1, <2>1
  <2>3. Tail(book)[i] = book[i + 1] /\ Tail(book)[j] = book[j + 1]
    BY <1>2
  <2>4. QED
    BY <1>1, <2>2, <2>3 DEF Sorted
<1>5. QED
  BY <1>1, <1>2, <1>4

-----------------------------------------------------------------------------
(* What a book holds, as a set *)

\* No order rests on a book twice.
Distinct(book) ==
    \A i, j \in DOMAIN book : i # j => book[i].id # book[j].id

LEMMA InsertElements ==
    ASSUME NEW side \in Sides, NEW book \in Seq(Resting(side)), Sorted(book),
           NEW deal \in Resting(side)
    PROVE  ToSet(Insert(book, deal)) = ToSet(book) \cup {deal}
<1> DEFINE k == UpperBound(book, deal)
           new == Insert(book, deal)
<1>1. /\ Len(book) \in Nat
      /\ DOMAIN book = 1 .. Len(book)
  BY LenProperties
<1>2. /\ k \in 0 .. Len(book)
      /\ new \in Seq(Resting(side))
      /\ Len(new) = Len(book) + 1
      /\ \A i \in 1 .. k : new[i] = book[i]
      /\ new[k + 1] = deal
      /\ \A i \in (k + 2) .. (Len(book) + 1) : new[i] = book[i - 1]
  BY InsertPlaces
<1>3. \A i \in 1 .. Len(book) + 1 :
          new[i] = deal \/ \E j \in 1 .. Len(book) : new[i] = book[j]
  BY InsertProperties
<1>4. DOMAIN new = 1 .. Len(book) + 1
  BY <1>2, LenProperties
<1> HIDE DEF new, k
<1>5. ASSUME NEW j \in 1 .. Len(book)
      PROVE  \E i \in 1 .. Len(book) + 1 : new[i] = book[j]
  <2>1. CASE j <= k
    BY <1>1, <1>2, <2>1
  <2>2. CASE j > k
    <3>1. j + 1 \in (k + 2) .. (Len(book) + 1) /\ (j + 1) - 1 = j
          /\ j + 1 \in 1 .. Len(book) + 1
      BY <1>1, <1>2, <2>2
    <3>2. new[j + 1] = book[j]
      BY <1>2, <3>1
    <3>3. QED
      BY <3>1, <3>2
  <2>3. QED
    BY <1>1, <1>2, <2>1, <2>2
<1>6. k + 1 \in 1 .. Len(book) + 1
  BY <1>1, <1>2
<1>7. ASSUME NEW d \in ToSet(new)
      PROVE  d \in ToSet(book) \cup {deal}
  <2>1. PICK i \in 1 .. Len(book) + 1 : d = new[i]
    BY <1>4 DEF ToSet
  <2>2. QED
    BY <1>1, <1>3, <2>1 DEF ToSet
<1>8. ASSUME NEW d \in ToSet(book) \cup {deal}
      PROVE  d \in ToSet(new)
  <2>1. \E i \in 1 .. Len(book) + 1 : d = new[i]
    BY <1>1, <1>2, <1>5, <1>6 DEF ToSet
  <2>2. QED
    BY <1>4, <2>1 DEF ToSet
<1>9. QED
  BY <1>7, <1>8 DEF new

LEMMA InsertDistinct ==
    ASSUME NEW side \in Sides, NEW book \in Seq(Resting(side)), Sorted(book),
           NEW deal \in Resting(side), Distinct(book),
           \A d \in ToSet(book) : d.id # deal.id
    PROVE  Distinct(Insert(book, deal))
<1> DEFINE k == UpperBound(book, deal)
           new == Insert(book, deal)
           \* where the deal at i of the new book was
           old == [i \in 1 .. Len(book) + 1 |-> IF i <= k THEN i ELSE i - 1]
<1>1. /\ Len(book) \in Nat
      /\ DOMAIN book = 1 .. Len(book)
  BY LenProperties
<1>2. /\ k \in 0 .. Len(book)
      /\ new \in Seq(Resting(side))
      /\ Len(new) = Len(book) + 1
      /\ \A i \in 1 .. k : new[i] = book[i]
      /\ new[k + 1] = deal
      /\ \A i \in (k + 2) .. (Len(book) + 1) : new[i] = book[i - 1]
  BY InsertPlaces
<1>3. DOMAIN new = 1 .. Len(book) + 1
  BY <1>2, LenProperties
<1>4. \A j \in 1 .. Len(book) : book[j].id # deal.id
  BY <1>1 DEF ToSet
<1> HIDE DEF new, k
<1>5. ASSUME NEW i \in 1 .. Len(book) + 1, i # k + 1
      PROVE  old[i] \in 1 .. Len(book) /\ new[i] = book[old[i]]
  <2>1. CASE i <= k
    BY <1>1, <1>2, <2>1
  <2>2. CASE i > k
    <3>1. i \in (k + 2) .. (Len(book) + 1) /\ i - 1 \in 1 .. Len(book)
      BY <1>1, <1>2, <1>5, <2>2
    <3>2. old[i] = i - 1
      BY <1>2, <2>2
    <3>3. QED
      BY <1>2, <3>1, <3>2
  <2>3. QED
    BY <1>1, <1>2, <2>1, <2>2
<1>6. ASSUME NEW i \in 1 .. Len(book) + 1, NEW j \in 1 .. Len(book) + 1,
             i # j, i # k + 1, j # k + 1
      PROVE  old[i] # old[j]
  BY <1>1, <1>2, <1>6
<1> HIDE DEF old
<1>7. ASSUME NEW i \in 1 .. Len(book) + 1, NEW j \in 1 .. Len(book) + 1, i # j
      PROVE  new[i].id # new[j].id
  <2>1. CASE i = k + 1
    BY <1>2, <1>4, <1>5, <1>7, <2>1
  <2>2. CASE j = k + 1
    BY <1>2, <1>4, <1>5, <1>7, <2>2
  <2>3. CASE i # k + 1 /\ j # k + 1
    BY <1>1, <1>5, <1>6, <1>7, <2>3 DEF Distinct
  <2>4. QED
    BY <2>1, <2>2, <2>3
<1>8. QED
  BY <1>3, <1>7 DEF Distinct, new

LEMMA TailElements ==
    ASSUME NEW side \in Sides, NEW book \in Seq(Resting(side)), Sorted(book), book # <<>>,
           Distinct(book)
    PROVE  /\ Head(book) \in ToSet(book)
           /\ ToSet(Tail(book)) = ToSet(book) \ {Head(book)}
           /\ Distinct(Tail(book))
           /\ \A d \in ToSet(Tail(book)) : d.id # Head(book).id
<1>1. /\ Len(book) \in Nat \ {0}
      /\ Head(book) = book[1]
      /\ Tail(book) \in Seq(Resting(side))
      /\ Len(Tail(book)) = Len(book) - 1
      /\ \A i \in 1 .. Len(Tail(book)) : Tail(book)[i] = book[i + 1]
  BY TailProperties
<1>2. DOMAIN book = 1 .. Len(book) /\ DOMAIN Tail(book) = 1 .. (Len(book) - 1)
  BY <1>1, LenProperties
<1> DEFINE n == Len(book)
           rest == Tail(book)
<1>3. n \in Nat \ {0} /\ \A i \in 1 .. (n - 1) : rest[i] = book[i + 1]
  BY <1>1
<1> HIDE DEF n, rest
<1>4. \A i \in 1 .. (n - 1) : i + 1 \in 1 .. n /\ i + 1 # 1
  BY <1>3
<1>5. \A j \in 1 .. n : j # 1 => j - 1 \in 1 .. (n - 1) /\ rest[j - 1] = book[j]
  BY <1>3
<1>6. DOMAIN book = 1 .. n /\ DOMAIN rest = 1 .. (n - 1) /\ 1 \in 1 .. n
  BY <1>2, <1>3 DEF n, rest
<1>7. \A j \in 1 .. n : j # 1 => book[j] # book[1] /\ book[j].id # book[1].id
  BY <1>6 DEF Distinct
<1>8. ToSet(rest) = ToSet(book) \ {book[1]}
  <2>1. ASSUME NEW d \in ToSet(rest)
        PROVE  d \in ToSet(book) \ {book[1]}
    <3>1. PICK i \in 1 .. (n - 1) : d = rest[i]
      BY <1>6 DEF ToSet
    <3>2. QED
      BY <1>3, <1>4, <1>6, <1>7, <3>1 DEF ToSet
  <2>2. ASSUME NEW d \in ToSet(book), d # book[1]
        PROVE  d \in ToSet(rest)
    <3>1. PICK j \in 1 .. n : d = book[j]
      BY <1>6 DEF ToSet
    <3>2. QED
      BY <1>5, <1>6, <2>2, <3>1 DEF ToSet
  <2>3. QED
    BY <2>1, <2>2
<1>9. Distinct(rest)
  <2>1. SUFFICES ASSUME NEW i \in 1 .. (n - 1), NEW j \in 1 .. (n - 1), i # j
                 PROVE  rest[i].id # rest[j].id
    BY <1>6 DEF Distinct
  <2>2. i + 1 \in 1 .. n /\ j + 1 \in 1 .. n /\ i + 1 # j + 1
    BY <1>3, <2>1
  <2>3. QED
    BY <1>3, <1>6, <2>2 DEF Distinct
<1>10. \A d \in ToSet(rest) : d.id # book[1].id
  BY <1>3, <1>4, <1>6, <1>7 DEF ToSet
<1>11. QED
  BY <1>1, <1>6, <1>8, <1>9, <1>10 DEF rest, ToSet

-----------------------------------------------------------------------------
(* The invariant *)

IInv == TypeOK /\ BooksSorted /\ NotCrossed

-----------------------------------------------------------------------------
(* Types of the helpers *)

LEMMA FillTypes ==
    ASSUME NEW buy \in DealType, NEW sell \in DealType
    PROVE  /\ getDealVolume(buy, sell) \in Int
           /\ getDealPrice(buy, sell) \in Int
           /\ completeDeals(buy, sell).first \in DealType
           /\ completeDeals(buy, sell).first.uid = buy.uid
           /\ completeDeals(buy, sell).second \in DealType
           /\ completeDeals(buy, sell).second.uid = sell.uid
BY DEF getDealVolume, getDealPrice, completeDeals, Filled, DealType

\* What is left of an order keeps its class, owner, price and time.
LEMMA RestTypes ==
    ASSUME NEW deal \in DealType, NEW volume \in Int
    PROVE  /\ Reduced(deal, volume) \in DealType
           /\ Reduced(deal, volume).type = deal.type
           /\ Reduced(deal, volume).price = deal.price
           /\ Reduced(deal, volume).uid = deal.uid
           /\ Reduced(deal, volume).id = deal.id
           /\ Reduced(deal, volume).time = deal.time
<1>1. CASE deal.volume = volume
  BY <1>1 DEF Reduced, DealType
<1>2. CASE deal.volume # volume
  BY <1>2 DEF Reduced, DealType
<1>3. QED
  BY <1>1, <1>2

LEMMA CopyTypes ==
    ASSUME NEW deal \in DealType
    PROVE  /\ CopyOf(deal) \in DealType
           /\ ~CopyOf(deal).isClosed
           /\ CopyOf(deal).type = deal.type
           /\ CopyOf(deal).price = deal.price
           /\ CopyOf(deal).uid = deal.uid
           /\ CopyOf(deal).id = deal.id
           /\ CopyOf(deal).time = deal.time
BY DEF CopyOf, DealType

LEMMA CreditType ==
    ASSUME NEW U, NEW table \in [U -> UserType], NEW uid, NEW usd \in Int, NEW rub \in Int
    PROVE  Credit(table, uid, usd, rub) \in [U -> UserType]
<1>1. ASSUME NEW row \in UserType
      PROVE  AddRub(AddUsd(row, usd), rub) \in UserType
  <2>1. AddUsd(row, usd) \in UserType
    BY DEF AddUsd, UserType
  <2>2. QED
    BY <2>1 DEF AddRub, UserType
<1>2. QED
  BY <1>1 DEF Credit

LEMMA SettledType ==
    ASSUME NEW U, users \in [U -> UserType], NEW taker, NEW maker,
           NEW usd \in Int, NEW rub \in Int
    PROVE  Settled(taker, maker, usd, rub) \in [U -> UserType]
<1>1. -usd \in Int /\ -rub \in Int
  OBVIOUS
<1>2. Credit(users, taker, usd, -rub) \in [U -> UserType]
  BY <1>1, CreditType
<1>3. Credit(Credit(users, taker, usd, -rub), maker, -usd, rub) \in [U -> UserType]
  BY <1>1, <1>2, CreditType
<1>4. QED
  BY <1>3 DEF Settled

\* The histories of the users in U.
Histories(closed, U) ==
    /\ DOMAIN closed \subseteq U
    /\ \A uid \in DOMAIN closed : closed[uid] \in Seq(DealType)

LEMMA RecordType ==
    ASSUME NEW U, NEW closed, Histories(closed, U), NEW deal \in DealType, deal.uid \in U
    PROVE  Histories(Record(closed, deal), U)
<1> DEFINE entry == Append(ClosedOf(closed, deal.uid), CopyOf(deal))
           new == Record(closed, deal)
<1>1. ClosedOf(closed, deal.uid) \in Seq(DealType)
  BY EmptySeq DEF ClosedOf, Histories
<1>2. entry \in Seq(DealType)
  BY <1>1, CopyTypes, AppendProperties
<1> HIDE DEF entry
<1>3. new = [uid \in DOMAIN closed \cup {deal.uid} |->
                IF uid = deal.uid THEN entry ELSE closed[uid]]
  BY DEF Record, Put, entry
<1> HIDE DEF new
<1>4. DOMAIN new = {deal.uid} \cup DOMAIN closed
  BY <1>3
<1>5. ASSUME NEW uid \in DOMAIN new
      PROVE  new[uid] \in Seq(DealType)
  BY <1>2, <1>3, <1>4 DEF Histories
<1>6. DOMAIN new \subseteq U
  BY <1>4 DEF Histories
<1>7. QED
  BY <1>5, <1>6 DEF Histories, new

\* The comparison reads class, price, time and uid only.
LEMMA PutBack ==
    ASSUME NEW side \in Sides, NEW book \in Seq(Resting(side)), Sorted(book), book # <<>>,
           NEW rest \in DealType, rest.type = side, rest.price = Head(book).price
    PROVE  LET new == IF rest.isClosed THEN Tail(book) ELSE Insert(Tail(book), CopyOf(rest))
           IN  /\ new \in Seq(Resting(side))
               /\ Sorted(new)
               /\ \A i \in DOMAIN new : \E j \in DOMAIN book : new[i].price = book[j].price
<1>1. /\ Len(book) \in Nat \ {0}
      /\ DOMAIN book = 1 .. Len(book)
      /\ Head(book) = book[1]
      /\ Tail(book) \in Seq(Resting(side))
      /\ Len(Tail(book)) = Len(book) - 1
      /\ \A i \in 1 .. Len(Tail(book)) : Tail(book)[i] = book[i + 1]
      /\ Sorted(Tail(book))
  BY TailProperties, LenProperties
<1>2. CopyOf(rest) \in Resting(side) /\ CopyOf(rest).price = book[1].price
  BY <1>1, CopyTypes DEF Resting
<1>3. \A i \in 1 .. Len(Tail(book)) : i + 1 \in DOMAIN book
  BY <1>1
<1>4. CASE rest.isClosed
  <2>1. DOMAIN Tail(book) = 1 .. Len(Tail(book))
    BY <1>1, LenProperties
  <2>2. QED
    BY <1>1, <1>3, <1>4, <2>1
<1>5. CASE ~rest.isClosed
  <2> DEFINE new == Insert(Tail(book), CopyOf(rest))
  <2>1. /\ new \in Seq(Resting(side))
        /\ Sorted(new)
        /\ Len(new) = Len(Tail(book)) + 1
        /\ \A i \in 1 .. Len(Tail(book)) + 1 :
               \/ new[i] = CopyOf(rest)
               \/ \E j \in 1 .. Len(Tail(book)) : new[i] = Tail(book)[j]
    BY <1>1, <1>2, InsertProperties
  <2>2. DOMAIN new = 1 .. Len(Tail(book)) + 1
    BY <2>1, LenProperties
  <2>3. 1 \in DOMAIN book
    BY <1>1
  <2> HIDE DEF new
  <2>4. \A i \in DOMAIN new : \E j \in DOMAIN book : new[i].price = book[j].price
    BY <1>1, <1>2, <1>3, <2>1, <2>2, <2>3
  <2>5. QED
    BY <1>5, <2>1, <2>4 DEF new
<1>6. QED
  BY <1>4, <1>5

\* A remainder that is not compatible with the first deal of the other book is
\* not compatible with any.
LEMMA FirstIsBest ==
    ASSUME NEW side \in Sides, NEW book \in Seq(Resting(side)), Sorted(book), book # <<>>,
           NEW i \in DOMAIN book
    PROVE  /\ side = "buy" => book[i].price <= Head(book).price
           /\ side = "sell" => book[i].price >= Head(book).price
<1>1. /\ Len(book) \in Nat \ {0}
      /\ DOMAIN book = 1 .. Len(book)
      /\ Head(book) = book[1]
      /\ \A j \in DOMAIN book : book[j] \in Resting(side)
  BY TailProperties, LenProperties, ElementOfSeq
<1>2. CASE i = 1
  BY <1>1, <1>2 DEF Resting, DealType
<1>3. CASE i # 1
  <2>1. 1 \in DOMAIN book /\ 1 < i
    BY <1>1, <1>3
  <2>2. ~Less(book[i], book[1])
    BY <2>1 DEF Sorted
  <2>3. book[1] \in Resting(side) /\ book[i] \in Resting(side)
    BY <1>1, <2>1
  <2>4. QED
    BY <1>1, <2>2, <2>3 DEF Less, Resting, DealType
<1>4. QED
  BY <1>2, <1>3

-----------------------------------------------------------------------------
(* The steps *)

LEMMA InitIInv == Init => IInv
<1>1. SUFFICES ASSUME Init PROVE IInv
  OBVIOUS
<1>2. /\ users \in [1 .. (maxUid - 1) -> UserType]
      /\ DOMAIN logins = {} /\ DOMAIN closedDeals = {}
      /\ DOMAIN activeBuys = {} /\ DOMAIN activeSells = {}
  BY <1>1 DEF Init, TableInit
<1>3. TypeOK
  BY <1>1, <1>2, EmptySeq DEF Init, TableInit, TypeOK, Reply, Errors
<1>4. QED
  BY <1>2, <1>3 DEF IInv, BooksSorted, Sorted, NotCrossed

LEMMA RegisterIInv ==
    ASSUME IInv, NEW login \in Logins, NEW pass \in Passwords, RegisterNewUser(login, pass)
    PROVE  IInv'
<1>1. CASE IsLoginInTable(login)
  BY <1>1 DEF IInv, TypeOK, BooksSorted, NotCrossed, RegisterNewUser, tableVars, bookVars,
              Reply, Errors, Histories
<1>2. CASE ~IsLoginInTable(login)
  <2> DEFINE row == NewUser(login, pass)
  <2>1. row \in UserType
    BY DEF NewUser, UserType
  <2> HIDE DEF row
  <2>2. /\ maxUid \in Nat \ {0}
        /\ users \in [1 .. (maxUid - 1) -> UserType]
        /\ maxUid' = maxUid + 1
        /\ users' = Put(users, maxUid, row)
        /\ logins' = Put(logins, login, maxUid)
        /\ UNCHANGED bookVars
        /\ reply' = Reply("ok", maxUid)
    BY <1>2 DEF IInv, TypeOK, RegisterNewUser, AddUser, AddedUid, row
  <2>3. 1 .. (maxUid' - 1) = (1 .. (maxUid - 1)) \cup {maxUid}
    BY <2>2
  <2>4. users' \in [1 .. (maxUid' - 1) -> UserType]
    BY <2>1, <2>2, <2>3 DEF Put
  <2>5. DOMAIN users \subseteq DOMAIN users' /\ maxUid \in DOMAIN users'
    BY <2>2 DEF Put
  <2>6. /\ DOMAIN logins' \subseteq Logins
        /\ \A l \in DOMAIN logins' : logins'[l] \in DOMAIN users'
    BY <2>2, <2>5 DEF IInv, TypeOK, Put
  <2>7. DOMAIN closedDeals' \subseteq DOMAIN users'
    BY <2>2, <2>5 DEF IInv, TypeOK, bookVars
  <2>8. reply' \in [err : Errors, uid : Nat]
    BY <2>2 DEF Reply, Errors
  <2>9. QED
    BY <2>2, <2>4, <2>6, <2>7, <2>8 DEF IInv, TypeOK, BooksSorted, NotCrossed, bookVars
<1>3. QED
  BY <1>1, <1>2

LEMMA LoginIInv ==
    ASSUME IInv, NEW login \in Logins, NEW pass \in Passwords, TryLogin(login, pass)
    PROVE  IInv'
<1>1. reply' \in [err : Errors, uid : Nat]
  <2>1. IsLoginInTable(login) => GetUid(login) \in Nat
    BY DEF IInv, TypeOK, GetUid, IsLoginInTable
  <2>2. QED
    BY <2>1 DEF TryLogin, Reply, Errors
<1>2. QED
  BY <1>1 DEF IInv, TypeOK, BooksSorted, NotCrossed, TryLogin, tableVars, bookVars

LEMMA SubmitIInv ==
    ASSUME IInv, NEW type \in Sides, NEW uid \in DOMAIN users \cup ForeignUids,
           NEW volume \in Volumes, NEW cost \in Prices, Submit(type, uid, volume, cost)
    PROVE  IInv'
<1>1. clock' \in Int /\ uid \in Nat /\ volume \in Int /\ cost \in Int
  BY CoreAssumption DEF IInv, TypeOK, Submit
<1>2. Len(orders) + 1 \in Nat
  BY LenProperties DEF IInv, TypeOK
<1>3. incoming' \in DealType
  BY <1>1, <1>2 DEF Submit, NewDeal, DealType
<1>4. orders' \in Seq(DealType)
  BY <1>3, AppendProperties DEF IInv, TypeOK, Submit
<1>5. QED
  BY <1>1, <1>3, <1>4 DEF IInv, TypeOK, BooksSorted, NotCrossed, Submit, tableVars

LEMMA MatchBuyIInv ==
    ASSUME IInv, MatchBuy PROVE IInv'
<1> DEFINE other == Head(activeSells)
           deals == completeDeals(incoming, other)
           dealVolume == getDealVolume(incoming, other)
           dealPrice == getDealPrice(incoming, other)
           rest == deals.sell
<1>1. /\ activeSells \in Seq(Resting("sell")) /\ Sorted(activeSells) /\ activeSells # <<>>
      /\ incoming \in DealType /\ incoming.type = "buy"
  BY DEF IInv, TypeOK, BooksSorted, MatchBuy, BuyMatches, NoOrder
<1>2. other \in DealType /\ other.type = "sell"
  BY <1>1, TailProperties DEF Resting, Sides
<1> HIDE DEF other
<1>3. /\ dealVolume \in Int /\ dealPrice \in Int
      /\ deals.first \in DealType /\ deals.first.uid = incoming.uid
      /\ deals.second \in DealType /\ deals.second.uid = other.uid
  BY <1>1, <1>2, FillTypes
<1>4. rest = Reduced(other, dealVolume) /\ deals.buy = Reduced(incoming, dealVolume)
  BY DEF completeDeals
<1> HIDE DEF deals, dealVolume, dealPrice
<1>5. /\ rest \in DealType /\ rest.type = "sell" /\ rest.price = other.price
      /\ deals.buy \in DealType
  <2>1. /\ Reduced(other, dealVolume) \in DealType
        /\ Reduced(other, dealVolume).type = other.type
        /\ Reduced(other, dealVolume).price = other.price
    BY <1>2, <1>3, RestTypes
  <2>2. Reduced(incoming, dealVolume) \in DealType
    BY <1>1, <1>3, RestTypes
  <2>3. QED
    BY <1>2, <1>4, <2>1, <2>2
<1>6. /\ incoming.uid \in DOMAIN users /\ other.uid \in DOMAIN users
      /\ users' = Settled(incoming.uid, other.uid, dealVolume, dealPrice * dealVolume)
      /\ closedDeals' = Record(Record(closedDeals, deals.first), deals.second)
      /\ activeSells' = IF rest.isClosed THEN Tail(activeSells)
                                         ELSE Insert(Tail(activeSells), CopyOf(rest))
      /\ incoming' = deals.buy
      /\ UNCHANGED <<maxUid, logins, activeBuys, clock, reply, orders>>
  BY DEF MatchBuy, other, deals, dealVolume, dealPrice
<1>7. /\ activeSells' \in Seq(Resting("sell"))
      /\ Sorted(activeSells')
      /\ \A n \in DOMAIN activeSells' :
            \E m \in DOMAIN activeSells : activeSells'[n].price = activeSells[m].price
  BY <1>1, <1>5, <1>6, PutBack DEF other, Sides
<1>8. users' \in [1 .. (maxUid' - 1) -> UserType] /\ DOMAIN users' = DOMAIN users
  <2>1. users \in [1 .. (maxUid - 1) -> UserType]
    BY DEF IInv, TypeOK
  <2>2. dealVolume \in Int /\ dealPrice * dealVolume \in Int
    BY <1>3
  <2>3. users' \in [1 .. (maxUid - 1) -> UserType]
    BY <1>6, <2>1, <2>2, SettledType
  <2>4. QED
    BY <1>6, <2>1, <2>3
<1>9. Histories(closedDeals', DOMAIN users')
  <2>1. Histories(closedDeals, DOMAIN users)
    BY DEF IInv, TypeOK, Histories
  <2>2. Histories(Record(closedDeals, deals.first), DOMAIN users)
    BY <1>3, <1>6, <2>1, RecordType
  <2>3. QED
    BY <1>3, <1>6, <1>8, <2>2, RecordType
<1>10. TypeOK'
  BY <1>5, <1>6, <1>7, <1>8, <1>9 DEF IInv, TypeOK, Histories
<1>11. BooksSorted'
  BY <1>6, <1>7 DEF IInv, BooksSorted
<1>12. NotCrossed'
  BY <1>6, <1>7 DEF IInv, NotCrossed
<1>13. QED
  BY <1>10, <1>11, <1>12 DEF IInv

LEMMA RejectBuyIInv ==
    ASSUME IInv, RejectBuy PROVE IInv'
<1> DEFINE other == Head(activeSells)
           dealVolume == getDealVolume(incoming, other)
           dealPrice == getDealPrice(incoming, other)
<1>1. /\ activeSells \in Seq(Resting("sell")) /\ Sorted(activeSells) /\ activeSells # <<>>
      /\ incoming \in DealType
  BY DEF IInv, TypeOK, BooksSorted, RejectBuy, BuyMatches, NoOrder
<1>2. other \in DealType
  BY <1>1, TailProperties DEF Resting, Sides
<1> HIDE DEF other
<1>3. dealVolume \in Int /\ dealPrice \in Int
  BY <1>1, <1>2, FillTypes
<1> HIDE DEF dealVolume, dealPrice
<1>4. /\ users' = Settled(incoming.uid, other.uid, dealVolume, dealPrice * dealVolume)
      /\ activeSells' = Tail(activeSells)
      /\ incoming' = NoOrder
      /\ reply' = Reply("404", 0)
      /\ UNCHANGED <<maxUid, logins, activeBuys, closedDeals, clock, orders>>
  BY DEF RejectBuy, other, dealVolume, dealPrice
<1>5. /\ activeSells' \in Seq(Resting("sell"))
      /\ Sorted(activeSells')
      /\ \A n \in DOMAIN activeSells' :
            n + 1 \in DOMAIN activeSells /\ activeSells'[n] = activeSells[n + 1]
  BY <1>1, <1>4, TailProperties, LenProperties DEF Sides
<1>6. users' \in [1 .. (maxUid' - 1) -> UserType] /\ DOMAIN users' = DOMAIN users
  <2>1. users \in [1 .. (maxUid - 1) -> UserType]
    BY DEF IInv, TypeOK
  <2>2. dealVolume \in Int /\ dealPrice * dealVolume \in Int
    BY <1>3
  <2>3. users' \in [1 .. (maxUid - 1) -> UserType]
    BY <1>4, <2>1, <2>2, SettledType
  <2>4. QED
    BY <1>4, <2>1, <2>3
<1>7. TypeOK'
  BY <1>4, <1>5, <1>6 DEF IInv, TypeOK, Reply, Errors
<1>8. BooksSorted'
  BY <1>4, <1>5 DEF IInv, BooksSorted
<1>9. NotCrossed'
  BY <1>4, <1>5 DEF IInv, NotCrossed
<1>10. QED
  BY <1>7, <1>8, <1>9 DEF IInv

LEMMA FinishBuyIInv ==
    ASSUME IInv, FinishBuy PROVE IInv'
<1>1. /\ activeBuys \in Seq(Resting("buy")) /\ Sorted(activeBuys)
      /\ activeSells \in Seq(Resting("sell")) /\ Sorted(activeSells)
      /\ incoming \in DealType /\ incoming.type = "buy"
  BY DEF IInv, TypeOK, BooksSorted, FinishBuy, NoOrder
<1>2. /\ incoming' = NoOrder
      /\ reply' = Reply("ok", 0)
      /\ UNCHANGED <<tableVars, activeSells, closedDeals, clock, orders>>
  BY DEF FinishBuy
<1>3. CASE incoming.isClosed
  <2>1. UNCHANGED activeBuys
    BY <1>3 DEF FinishBuy
  <2>2. QED
    BY <1>2, <2>1 DEF IInv, TypeOK, BooksSorted, NotCrossed, tableVars, Reply, Errors
<1>4. CASE ~incoming.isClosed
  <2> DEFINE new == Insert(activeBuys, CopyOf(incoming))
  <2>1. activeBuys' = new
    BY <1>4 DEF FinishBuy
  <2>2. CopyOf(incoming) \in Resting("buy") /\ CopyOf(incoming).price = incoming.price
    BY <1>1, CopyTypes DEF Resting
  <2>3. /\ new \in Seq(Resting("buy"))
        /\ Sorted(new)
        /\ Len(new) = Len(activeBuys) + 1
        /\ \A n \in 1 .. Len(activeBuys) + 1 :
               \/ new[n] = CopyOf(incoming)
               \/ \E m \in 1 .. Len(activeBuys) : new[n] = activeBuys[m]
    BY <1>1, <2>2, InsertProperties DEF Sides
  <2>4. DOMAIN new = 1 .. Len(activeBuys) + 1 /\ DOMAIN activeBuys = 1 .. Len(activeBuys)
    BY <1>1, <2>3, LenProperties
  <2> HIDE DEF new
  <2>5. TypeOK'
    BY <1>2, <2>1, <2>3 DEF IInv, TypeOK, tableVars, Reply, Errors
  <2>6. BooksSorted'
    BY <1>2, <2>1, <2>3 DEF IInv, BooksSorted
  <2>7. ASSUME NEW n \in DOMAIN activeSells
        PROVE  incoming.price < activeSells[n].price
    <3>1. activeSells # <<>>
      BY <1>1, LenProperties, EmptySeq
    <3>2. ~(incoming.price >= Head(activeSells).price)
      BY <1>4, <3>1 DEF FinishBuy, BuyMatches, IsCompatible
    <3>3. activeSells[n].price >= Head(activeSells).price
      BY <1>1, <3>1, FirstIsBest DEF Sides
    <3>4. activeSells[n] \in DealType /\ Head(activeSells) \in DealType
      BY <1>1, <3>1, TailProperties, ElementOfSeq, LenProperties DEF Resting, Sides
    <3>5. QED
      BY <1>1, <3>2, <3>3, <3>4 DEF DealType
  <2>8. NotCrossed'
    BY <1>2, <2>1, <2>2, <2>3, <2>4, <2>7 DEF IInv, NotCrossed
  <2>9. QED
    BY <2>5, <2>6, <2>8 DEF IInv
<1>5. QED
  BY <1>3, <1>4

LEMMA MatchSellIInv ==
    ASSUME IInv, MatchSell PROVE IInv'
<1> DEFINE other == Head(activeBuys)
           deals == completeDeals(other, incoming)
           dealVolume == getDealVolume(other, incoming)
           dealPrice == getDealPrice(other, incoming)
           rest == deals.buy
<1>1. /\ activeBuys \in Seq(Resting("buy")) /\ Sorted(activeBuys) /\ activeBuys # <<>>
      /\ incoming \in DealType /\ incoming.type = "sell"
  BY DEF IInv, TypeOK, BooksSorted, MatchSell, SellMatches, NoOrder
<1>2. other \in DealType /\ other.type = "buy"
  BY <1>1, TailProperties DEF Resting, Sides
<1> HIDE DEF other
<1>3. /\ dealVolume \in Int /\ dealPrice \in Int
      /\ deals.first \in DealType /\ deals.first.uid = other.uid
      /\ deals.second \in DealType /\ deals.second.uid = incoming.uid
  BY <1>1, <1>2, FillTypes
<1>4. rest = Reduced(other, dealVolume) /\ deals.sell = Reduced(incoming, dealVolume)
  BY DEF completeDeals
<1> HIDE DEF deals, dealVolume, dealPrice
<1>5. /\ rest \in DealType /\ rest.type = "buy" /\ rest.price = other.price
      /\ deals.sell \in DealType
  <2>1. /\ Reduced(other, dealVolume) \in DealType
        /\ Reduced(other, dealVolume).type = other.type
        /\ Reduced(other, dealVolume).price = other.price
    BY <1>2, <1>3, RestTypes
  <2>2. Reduced(incoming, dealVolume) \in DealType
    BY <1>1, <1>3, RestTypes
  <2>3. QED
    BY <1>2, <1>4, <2>1, <2>2
<1>6. /\ incoming.uid \in DOMAIN users /\ other.uid \in DOMAIN users
      /\ users' = Settled(incoming.uid, other.uid, -dealVolume, -dealPrice * dealVolume)
      /\ closedDeals' = Record(Record(closedDeals, deals.first), deals.second)
      /\ activeBuys' = IF rest.isClosed THEN Tail(activeBuys)
                                         ELSE Insert(Tail(activeBuys), CopyOf(rest))
      /\ incoming' = deals.sell
      /\ UNCHANGED <<maxUid, logins, activeSells, clock, reply, orders>>
  BY DEF MatchSell, other, deals, dealVolume, dealPrice
<1>7. /\ activeBuys' \in Seq(Resting("buy"))
      /\ Sorted(activeBuys')
      /\ \A n \in DOMAIN activeBuys' :
            \E m \in DOMAIN activeBuys : activeBuys'[n].price = activeBuys[m].price
  BY <1>1, <1>5, <1>6, PutBack DEF other, Sides
<1>8. users' \in [1 .. (maxUid' - 1) -> UserType] /\ DOMAIN users' = DOMAIN users
  <2>1. users \in [1 .. (maxUid - 1) -> UserType]
    BY DEF IInv, TypeOK
  <2>2. -dealVolume \in Int /\ -dealPrice * dealVolume \in Int
    BY <1>3
  <2>3. users' \in [1 .. (maxUid - 1) -> UserType]
    BY <1>6, <2>1, <2>2, SettledType
  <2>4. QED
    BY <1>6, <2>1, <2>3
<1>9. Histories(closedDeals', DOMAIN users')
  <2>1. Histories(closedDeals, DOMAIN users)
    BY DEF IInv, TypeOK, Histories
  <2>2. Histories(Record(closedDeals, deals.first), DOMAIN users)
    BY <1>3, <1>6, <2>1, RecordType
  <2>3. QED
    BY <1>3, <1>6, <1>8, <2>2, RecordType
<1>10. TypeOK'
  BY <1>5, <1>6, <1>7, <1>8, <1>9 DEF IInv, TypeOK, Histories
<1>11. BooksSorted'
  BY <1>6, <1>7 DEF IInv, BooksSorted
<1>12. NotCrossed'
  BY <1>6, <1>7 DEF IInv, NotCrossed
<1>13. QED
  BY <1>10, <1>11, <1>12 DEF IInv

LEMMA RejectSellIInv ==
    ASSUME IInv, RejectSell PROVE IInv'
<1> DEFINE other == Head(activeBuys)
           dealVolume == getDealVolume(other, incoming)
           dealPrice == getDealPrice(other, incoming)
<1>1. /\ activeBuys \in Seq(Resting("buy")) /\ Sorted(activeBuys) /\ activeBuys # <<>>
      /\ incoming \in DealType
  BY DEF IInv, TypeOK, BooksSorted, RejectSell, SellMatches, NoOrder
<1>2. other \in DealType
  BY <1>1, TailProperties DEF Resting, Sides
<1> HIDE DEF other
<1>3. dealVolume \in Int /\ dealPrice \in Int
  BY <1>1, <1>2, FillTypes
<1> HIDE DEF dealVolume, dealPrice
<1>4. /\ users' = Settled(incoming.uid, other.uid, -dealVolume, -dealPrice * dealVolume)
      /\ activeBuys' = Tail(activeBuys)
      /\ incoming' = NoOrder
      /\ reply' = Reply("404", 0)
      /\ UNCHANGED <<maxUid, logins, activeSells, closedDeals, clock, orders>>
  BY DEF RejectSell, other, dealVolume, dealPrice
<1>5. /\ activeBuys' \in Seq(Resting("buy"))
      /\ Sorted(activeBuys')
      /\ \A n \in DOMAIN activeBuys' :
            n + 1 \in DOMAIN activeBuys /\ activeBuys'[n] = activeBuys[n + 1]
  BY <1>1, <1>4, TailProperties, LenProperties DEF Sides
<1>6. users' \in [1 .. (maxUid' - 1) -> UserType] /\ DOMAIN users' = DOMAIN users
  <2>1. users \in [1 .. (maxUid - 1) -> UserType]
    BY DEF IInv, TypeOK
  <2>2. -dealVolume \in Int /\ -dealPrice * dealVolume \in Int
    BY <1>3
  <2>3. users' \in [1 .. (maxUid - 1) -> UserType]
    BY <1>4, <2>1, <2>2, SettledType
  <2>4. QED
    BY <1>4, <2>1, <2>3
<1>7. TypeOK'
  BY <1>4, <1>5, <1>6 DEF IInv, TypeOK, Reply, Errors
<1>8. BooksSorted'
  BY <1>4, <1>5 DEF IInv, BooksSorted
<1>9. NotCrossed'
  BY <1>4, <1>5 DEF IInv, NotCrossed
<1>10. QED
  BY <1>7, <1>8, <1>9 DEF IInv

LEMMA FinishSellIInv ==
    ASSUME IInv, FinishSell PROVE IInv'
<1>1. /\ activeSells \in Seq(Resting("sell")) /\ Sorted(activeSells)
      /\ activeBuys \in Seq(Resting("buy")) /\ Sorted(activeBuys)
      /\ incoming \in DealType /\ incoming.type = "sell"
  BY DEF IInv, TypeOK, BooksSorted, FinishSell, NoOrder
<1>2. /\ incoming' = NoOrder
      /\ reply' = Reply("ok", 0)
      /\ UNCHANGED <<tableVars, activeBuys, closedDeals, clock, orders>>
  BY DEF FinishSell
<1>3. CASE incoming.isClosed
  <2>1. UNCHANGED activeSells
    BY <1>3 DEF FinishSell
  <2>2. QED
    BY <1>2, <2>1 DEF IInv, TypeOK, BooksSorted, NotCrossed, tableVars, Reply, Errors
<1>4. CASE ~incoming.isClosed
  <2> DEFINE new == Insert(activeSells, CopyOf(incoming))
  <2>1. activeSells' = new
    BY <1>4 DEF FinishSell
  <2>2. CopyOf(incoming) \in Resting("sell") /\ CopyOf(incoming).price = incoming.price
    BY <1>1, CopyTypes DEF Resting
  <2>3. /\ new \in Seq(Resting("sell"))
        /\ Sorted(new)
        /\ Len(new) = Len(activeSells) + 1
        /\ \A n \in 1 .. Len(activeSells) + 1 :
               \/ new[n] = CopyOf(incoming)
               \/ \E m \in 1 .. Len(activeSells) : new[n] = activeSells[m]
    BY <1>1, <2>2, InsertProperties DEF Sides
  <2>4. DOMAIN new = 1 .. Len(activeSells) + 1 /\ DOMAIN activeSells = 1 .. Len(activeSells)
    BY <1>1, <2>3, LenProperties
  <2> HIDE DEF new
  <2>5. TypeOK'
    BY <1>2, <2>1, <2>3 DEF IInv, TypeOK, tableVars, Reply, Errors
  <2>6. BooksSorted'
    BY <1>2, <2>1, <2>3 DEF IInv, BooksSorted
  <2>7. ASSUME NEW n \in DOMAIN activeBuys
        PROVE  activeBuys[n].price < incoming.price
    <3>1. activeBuys # <<>>
      BY <1>1, LenProperties, EmptySeq
    <3>2. ~(Head(activeBuys).price >= incoming.price)
      BY <1>4, <3>1 DEF FinishSell, SellMatches, IsCompatible
    <3>3. activeBuys[n].price <= Head(activeBuys).price
      BY <1>1, <3>1, FirstIsBest DEF Sides
    <3>4. activeBuys[n] \in DealType /\ Head(activeBuys) \in DealType
      BY <1>1, <3>1, TailProperties, ElementOfSeq, LenProperties DEF Resting, Sides
    <3>5. QED
      BY <1>1, <3>2, <3>3, <3>4 DEF DealType
  <2>8. NotCrossed'
    BY <1>2, <2>1, <2>2, <2>3, <2>4, <2>7 DEF IInv, NotCrossed
  <2>9. QED
    BY <2>5, <2>6, <2>8 DEF IInv
<1>5. QED
  BY <1>3, <1>4

LEMMA NextIInv == IInv /\ [Next]_vars => IInv'
<1>1. SUFFICES ASSUME IInv, [Next]_vars PROVE IInv'
  OBVIOUS
<1>2. CASE Account
  BY <1>1, <1>2, RegisterIInv, LoginIInv DEF Account
<1>3. CASE Trade
  BY <1>1, <1>3, SubmitIInv DEF Trade, TryBuy, TrySell, Sides
<1>4. CASE Run
  BY <1>1, <1>4, MatchBuyIInv, RejectBuyIInv, FinishBuyIInv,
     MatchSellIInv, RejectSellIInv, FinishSellIInv DEF Run
<1>5. CASE UNCHANGED vars
  BY <1>1, <1>5 DEF IInv, TypeOK, BooksSorted, NotCrossed, vars, tableVars, bookVars
<1>6. QED
  BY <1>1, <1>2, <1>3, <1>4, <1>5 DEF Next

-----------------------------------------------------------------------------
(* The theorems *)

\* The inductive invariant holds in every state of every behaviour of the engine.
LEMMA Invariant == Spec => []IInv
<1>1. QED
  BY InitIInv, NextIInv, PTL DEF Spec

\* Every variable of the engine stays in its type, whatever the clients send and
\* whatever the clock does (core.h:36-39).
THEOREM TypeCorrect == Spec => []TypeOK
<1>1. IInv => TypeOK
  BY DEF IInv
<1>2. QED
  BY <1>1, Invariant, PTL

\* The first element of each book is its best and oldest order after every step
\* (deal.cpp:17-21, 57-61).
THEOREM BooksStaySorted == Spec => []BooksSorted
<1>1. IInv => BooksSorted
  BY DEF IInv
<1>2. QED
  BY <1>1, Invariant, PTL

\* The books never cross, also in the middle of a call and after a rejected one
\* (core.cpp:37-100).
THEOREM NeverCrossed == Spec => []NotCrossed
<1>1. IInv => NotCrossed
  BY DEF IInv
<1>2. QED
  BY <1>1, Invariant, PTL

-----------------------------------------------------------------------------
(* Accounts *)

\* Crediting an account leaves its login alone.
LEMMA SettledKeepsLogins ==
    ASSUME NEW U, users \in [U -> UserType], NEW taker, NEW maker,
           NEW usd \in Int, NEW rub \in Int, NEW uid \in U
    PROVE  Settled(taker, maker, usd, rub)[uid].login = users[uid].login
<1>1. ASSUME NEW table \in [U -> UserType], NEW u, NEW x \in Int, NEW y \in Int
      PROVE  Credit(table, u, x, y)[uid].login = table[uid].login
  <2>1. ASSUME NEW row \in UserType
        PROVE  AddRub(AddUsd(row, x), y).login = row.login
    BY DEF AddRub, AddUsd, UserType
  <2>2. QED
    BY <2>1 DEF Credit
<1>2. -usd \in Int /\ -rub \in Int
  OBVIOUS
<1>3. Credit(users, taker, usd, -rub) \in [U -> UserType]
  BY <1>2, CreditType
<1>4. QED
  BY <1>1, <1>2, <1>3 DEF Settled

\* A step that leaves the login maps and every account's login alone keeps the
\* index.
LEMMA SameLogins ==
    ASSUME AccountIndex, UNCHANGED logins, DOMAIN users' = DOMAIN users,
           \A uid \in DOMAIN users : users'[uid].login = users[uid].login,
           \A login \in DOMAIN logins : logins[login] \in DOMAIN users
    PROVE  AccountIndex'
BY DEF AccountIndex

LEMMA NextAccountIndex == IInv /\ AccountIndex /\ [Next]_vars => AccountIndex'
<1>1. SUFFICES ASSUME IInv, AccountIndex, [Next]_vars PROVE AccountIndex'
  OBVIOUS
<1>2. /\ users \in [1 .. (maxUid - 1) -> UserType] /\ maxUid \in Nat \ {0}
      /\ \A login \in DOMAIN logins : logins[login] \in DOMAIN users
  BY <1>1 DEF IInv, TypeOK
<1>3. ASSUME UNCHANGED <<users, logins>> PROVE AccountIndex'
  BY <1>1, <1>3 DEF AccountIndex
<1>4. ASSUME NEW login \in Logins, NEW pass \in Passwords, RegisterNewUser(login, pass)
      PROVE  AccountIndex'
  <2>1. CASE IsLoginInTable(login)
    BY <1>3, <1>4, <2>1 DEF RegisterNewUser, tableVars
  <2>2. CASE ~IsLoginInTable(login)
    <3>1. /\ logins' = Put(logins, login, maxUid)
          /\ users' = Put(users, maxUid, NewUser(login, pass))
      BY <1>4, <2>2 DEF RegisterNewUser, AddUser
    <3>2. maxUid \notin DOMAIN users /\ login \notin DOMAIN logins
      BY <1>2, <2>2 DEF IsLoginInTable
    <3>3. NewUser(login, pass).login = login
      BY DEF NewUser
    <3>4. QED
      BY <1>1, <1>2, <3>1, <3>2, <3>3 DEF AccountIndex, Put
  <2>3. QED
    BY <2>1, <2>2
<1>5. ASSUME NEW taker, NEW maker, NEW usd \in Int, NEW rub \in Int,
             users' = Settled(taker, maker, usd, rub), UNCHANGED logins
      PROVE  AccountIndex'
  <2>1. users' \in [1 .. (maxUid - 1) -> UserType]
    BY <1>2, <1>5, SettledType
  <2>2. \A uid \in DOMAIN users : users'[uid].login = users[uid].login
    BY <1>2, <1>5, SettledKeepsLogins
  <2>3. QED
    BY <1>1, <1>2, <1>5, <2>1, <2>2, SameLogins
<1>6. CASE MatchBuy \/ RejectBuy
  <2> DEFINE sell == Head(activeSells)
             v == getDealVolume(incoming, sell)
             p == getDealPrice(incoming, sell)
  <2>1. incoming \in DealType /\ sell \in DealType
    BY <1>1, <1>6, TailProperties
    DEF IInv, TypeOK, BooksSorted, MatchBuy, RejectBuy, BuyMatches, NoOrder, Resting, Sides
  <2>2. v \in Int /\ p \in Int /\ p * v \in Int
    BY <2>1, FillTypes
  <2>3. users' = Settled(incoming.uid, sell.uid, v, p * v) /\ UNCHANGED logins
    BY <1>6 DEF MatchBuy, RejectBuy
  <2> HIDE DEF v, p, sell
  <2>4. QED
    BY <1>5, <2>2, <2>3
<1>7. CASE MatchSell \/ RejectSell
  <2> DEFINE buy == Head(activeBuys)
             v == getDealVolume(buy, incoming)
             p == getDealPrice(buy, incoming)
  <2>1. incoming \in DealType /\ buy \in DealType
    BY <1>1, <1>7, TailProperties
    DEF IInv, TypeOK, BooksSorted, MatchSell, RejectSell, SellMatches, NoOrder, Resting, Sides
  <2>2. v \in Int /\ p \in Int
    BY <2>1, FillTypes
  <2>3. users' = Settled(incoming.uid, buy.uid, -v, -p * v) /\ UNCHANGED logins
    BY <1>7 DEF MatchSell, RejectSell
  <2> HIDE DEF v, p, buy
  <2>4. -v \in Int /\ -p * v \in Int
    BY <2>2
  <2>5. QED
    BY <1>5, <2>3, <2>4
<1>8. CASE Trade
  BY <1>3, <1>8 DEF Trade, TryBuy, TrySell, Submit, tableVars
<1>9. CASE FinishBuy \/ FinishSell
  BY <1>3, <1>9 DEF FinishBuy, FinishSell, tableVars
<1>10. CASE Account
  BY <1>3, <1>4, <1>10 DEF Account, TryLogin, tableVars
<1>11. CASE UNCHANGED vars
  BY <1>3, <1>11 DEF vars, tableVars
<1>12. QED
  BY <1>1, <1>6, <1>7, <1>8, <1>9, <1>10, <1>11 DEF Next, Run

\* A login always leads to the account that was registered with it, and every
\* account is reached by its login, over all registrations and trades
\* (User.cpp:25-46).
THEOREM AccountsIndexed == Spec => []AccountIndex
<1>1. Init => AccountIndex
  BY DEF Init, TableInit, AccountIndex
<1>2. QED
  BY <1>1, NextAccountIndex, Invariant, PTL DEF Spec

-----------------------------------------------------------------------------
(* Whom the loops serve, and at what price *)

\* What a partial fill does not change of an order.
Follows(deal) ==
    /\ deal.id \in DOMAIN orders
    /\ deal.type = orders[deal.id].type
    /\ deal.uid = orders[deal.id].uid
    /\ deal.price = orders[deal.id].price
    /\ deal.time = orders[deal.id].time

OrdersFollowed ==
    /\ \A deal \in ToSet(activeBuys) \cup ToSet(activeSells) :
           Follows(deal) /\ (incoming # NoOrder => deal.id # Len(orders))
    /\ incoming # NoOrder => Follows(incoming) /\ incoming.id = Len(orders)
    /\ Distinct(activeBuys)
    /\ Distinct(activeSells)

OrdersInTime ==
    /\ \A i \in DOMAIN orders : orders[i].time <= clock
    /\ \A i, j \in DOMAIN orders : i < j => orders[i].time < orders[j].time

-----------------------------------------------------------------------------
(* Following an order *)

\* What is left of the first deal of a book takes its place in the set.
LEMMA PutBackElements ==
    ASSUME NEW side \in Sides, NEW book \in Seq(Resting(side)), Sorted(book), book # <<>>,
           Distinct(book), NEW rest \in DealType, rest.type = side, rest.id = Head(book).id
    PROVE  LET new == IF rest.isClosed THEN Tail(book) ELSE Insert(Tail(book), CopyOf(rest))
           IN  /\ Distinct(new)
               /\ ToSet(new) = (ToSet(book) \ {Head(book)})
                                 \cup (IF rest.isClosed THEN {} ELSE {CopyOf(rest)})
<1>1. /\ ToSet(Tail(book)) = ToSet(book) \ {Head(book)}
      /\ Distinct(Tail(book))
      /\ \A d \in ToSet(Tail(book)) : d.id # Head(book).id
  BY TailElements
<1>2. CASE rest.isClosed
  BY <1>1, <1>2
<1>3. CASE ~rest.isClosed
  <2>1. Tail(book) \in Seq(Resting(side)) /\ Sorted(Tail(book))
    BY TailProperties
  <2>2. CopyOf(rest) \in Resting(side) /\ CopyOf(rest).id = Head(book).id
    BY CopyTypes DEF Resting
  <2>3. Distinct(Insert(Tail(book), CopyOf(rest)))
    BY <1>1, <2>1, <2>2, InsertDistinct
  <2>4. ToSet(Insert(Tail(book), CopyOf(rest))) = ToSet(Tail(book)) \cup {CopyOf(rest)}
    <3> DEFINE tail == Tail(book)
               copy == CopyOf(rest)
    <3> HIDE DEF tail, copy
    <3>1. tail \in Seq(Resting(side)) /\ Sorted(tail) /\ copy \in Resting(side)
      BY <2>1, <2>2 DEF tail, copy
    <3>2. ToSet(Insert(tail, copy)) = ToSet(tail) \cup {copy}
      BY <3>1, InsertElements
    <3>3. QED
      BY <3>2 DEF tail, copy
  <2>5. QED
    BY <1>1, <1>3, <2>3, <2>4
<1>4. QED
  BY <1>2, <1>3

\* The deals of a book have the type of its side.
LEMMA BookElements ==
    ASSUME NEW side, NEW book \in Seq(Resting(side)), NEW deal \in ToSet(book)
    PROVE  deal \in DealType /\ deal.type = side /\ ~deal.isClosed
<1>1. DOMAIN book = 1 .. Len(book) /\ \A i \in 1 .. Len(book) : book[i] \in Resting(side)
  BY LenProperties, ElementOfSeq
<1>2. QED
  BY <1>1 DEF ToSet, Resting

LEMMA InitFollowed == Init => OrdersFollowed
BY DEF Init, OrdersFollowed, Distinct, ToSet

LEMMA SubmitFollowed ==
    ASSUME IInv, OrdersFollowed, NEW type \in Sides, NEW uid \in DOMAIN users \cup ForeignUids,
           NEW volume \in Volumes, NEW cost \in Prices, Submit(type, uid, volume, cost)
    PROVE  OrdersFollowed'
<1>1. /\ orders \in Seq(DealType) /\ orders' = Append(orders, incoming')
      /\ incoming' = NewDeal(Len(orders) + 1, type, uid, volume, cost, clock')
      /\ UNCHANGED <<activeBuys, activeSells>>
  BY DEF IInv, TypeOK, Submit
<1>2. IInv'
  BY SubmitIInv
<1>3. /\ Len(orders) \in Nat /\ DOMAIN orders = 1 .. Len(orders)
      /\ incoming' \in DealType
  <2>1. incoming' # NoOrder
    BY <1>1 DEF NewDeal, NoOrder
  <2>2. QED
    BY <1>1, <1>2, <2>1, LenProperties DEF IInv, TypeOK
<1>4. /\ Len(orders') = Len(orders) + 1
      /\ DOMAIN orders' = 1 .. Len(orders) + 1
      /\ \A i \in 1 .. Len(orders) : orders'[i] = orders[i]
      /\ orders'[Len(orders) + 1] = incoming'
  BY <1>1, <1>3, AppendProperties, LenProperties
<1>5. Follows(incoming)' /\ incoming'.id = Len(orders')
  BY <1>1, <1>3, <1>4 DEF Follows, NewDeal
<1>6. ASSUME NEW deal \in ToSet(activeBuys) \cup ToSet(activeSells)
      PROVE  Follows(deal)' /\ deal.id # Len(orders')
  <2>1. Follows(deal)
    BY <1>6 DEF OrdersFollowed
  <2>2. deal.id \in 1 .. Len(orders) /\ orders'[deal.id] = orders[deal.id]
    BY <1>3, <1>4, <2>1 DEF Follows
  <2>3. QED
    BY <1>3, <1>4, <2>1, <2>2 DEF Follows
<1>7. QED
  BY <1>1, <1>5, <1>6 DEF OrdersFollowed

\* Following deals of the same id are the same in what is followed.
LEMMA FollowsSame ==
    ASSUME NEW a, NEW b, Follows(a), UNCHANGED orders, b.id = a.id, b.type = a.type,
           b.uid = a.uid, b.price = a.price, b.time = a.time
    PROVE  Follows(b)'
BY DEF Follows

LEMMA FollowsKept ==
    ASSUME NEW a, Follows(a), UNCHANGED orders
    PROVE  Follows(a)'
BY DEF Follows

\* What a loop's iteration leaves of the two orders, once for both loops: "taker"
\* is in flight, the book of the other side loses its first deal and gets its
\* remainder back.
LEMMA MatchFollowed ==
    ASSUME IInv, OrdersFollowed, NEW volume \in Int,
           NEW side \in Sides, NEW book \in Seq(Resting(side)), Sorted(book), book # <<>>,
           Distinct(book), ToSet(book) \subseteq ToSet(activeBuys) \cup ToSet(activeSells),
           NEW rest, rest = Reduced(Head(book), volume),
           incoming # NoOrder, incoming' = Reduced(incoming, volume), UNCHANGED orders
    PROVE  LET new == IF rest.isClosed THEN Tail(book) ELSE Insert(Tail(book), CopyOf(rest))
           IN  /\ Follows(incoming)' /\ incoming'.id = Len(orders')
               /\ Distinct(new)
               /\ \A deal \in ToSet(new) : Follows(deal)' /\ deal.id # Len(orders')
<1> DEFINE maker == Head(book)
           new == IF rest.isClosed THEN Tail(book) ELSE Insert(Tail(book), CopyOf(rest))
<1>1. maker \in DealType /\ maker.type = side /\ maker \in ToSet(book)
  BY TailProperties, TailElements DEF Resting
<1>2. Follows(maker) /\ maker.id # Len(orders)
  BY <1>1 DEF OrdersFollowed
<1>3. incoming \in DealType /\ Follows(incoming) /\ incoming.id = Len(orders)
  BY DEF IInv, TypeOK, OrdersFollowed
<1>4. Follows(incoming)' /\ incoming'.id = Len(orders')
  <2>1. /\ incoming'.type = incoming.type /\ incoming'.price = incoming.price
        /\ incoming'.uid = incoming.uid /\ incoming'.id = incoming.id
        /\ incoming'.time = incoming.time
    BY <1>3, RestTypes
  <2>2. QED
    BY <1>3, <2>1 DEF Follows
<1> HIDE DEF maker
<1>5. /\ rest \in DealType /\ rest.type = maker.type /\ rest.price = maker.price
      /\ rest.uid = maker.uid /\ rest.id = maker.id /\ rest.time = maker.time
  BY <1>1, RestTypes DEF maker
<1>6. /\ Distinct(new)
      /\ ToSet(new) = (ToSet(book) \ {maker})
                        \cup (IF rest.isClosed THEN {} ELSE {CopyOf(rest)})
  BY <1>1, <1>5, PutBackElements DEF maker
<1>7. Follows(CopyOf(rest))' /\ CopyOf(rest).id # Len(orders')
  BY <1>2, <1>5, CopyTypes, FollowsSame
<1>8. ASSUME NEW deal \in ToSet(book)
      PROVE  Follows(deal)' /\ deal.id # Len(orders')
  BY <1>8, FollowsKept DEF OrdersFollowed
<1> HIDE DEF new
<1>9. \A deal \in ToSet(new) : Follows(deal)' /\ deal.id # Len(orders')
  BY <1>6, <1>7, <1>8
<1>10. QED
  BY <1>4, <1>6, <1>9 DEF new

LEMMA NextFollowed == IInv /\ OrdersFollowed /\ [Next]_vars => OrdersFollowed'
<1>1. SUFFICES ASSUME IInv, OrdersFollowed, [Next]_vars PROVE OrdersFollowed'
  OBVIOUS
<1>2. /\ activeBuys \in Seq(Resting("buy")) /\ Sorted(activeBuys) /\ Distinct(activeBuys)
      /\ activeSells \in Seq(Resting("sell")) /\ Sorted(activeSells) /\ Distinct(activeSells)
      /\ incoming # NoOrder => incoming \in DealType
      /\ "buy" \in Sides /\ "sell" \in Sides
  BY <1>1 DEF IInv, TypeOK, BooksSorted, OrdersFollowed, Sides
<1>3. CASE Account \/ UNCHANGED vars
  BY <1>1, <1>3 DEF Account, RegisterNewUser, TryLogin, vars, bookVars, OrdersFollowed, Follows
<1>4. CASE Trade
  BY <1>1, <1>4, SubmitFollowed DEF Trade, TryBuy, TrySell, Sides
<1>5. CASE MatchBuy
  <2> DEFINE maker == Head(activeSells)
             volume == getDealVolume(incoming, maker)
             rest == Reduced(maker, volume)
  <2>1. /\ activeSells # <<>> /\ incoming # NoOrder
        /\ activeSells' = IF rest.isClosed THEN Tail(activeSells)
                                           ELSE Insert(Tail(activeSells), CopyOf(rest))
        /\ incoming' = Reduced(incoming, volume)
        /\ UNCHANGED <<activeBuys, orders>>
    BY <1>5 DEF MatchBuy, BuyMatches, NoOrder, completeDeals
  <2>2. volume \in Int
    BY <1>2, <2>1, TailProperties, FillTypes DEF Resting
  <2> HIDE DEF volume
  <2>3. /\ Follows(incoming)' /\ incoming'.id = Len(orders')
        /\ Distinct(activeSells')
        /\ \A deal \in ToSet(activeSells') : Follows(deal)' /\ deal.id # Len(orders')
    BY <1>1, <1>2, <2>1, <2>2, MatchFollowed
  <2>4. \A deal \in ToSet(activeBuys) : Follows(deal)' /\ deal.id # Len(orders')
    BY <1>1, <2>1, FollowsKept DEF OrdersFollowed
  <2>5. QED
    BY <1>2, <2>1, <2>3, <2>4 DEF OrdersFollowed
<1>6. CASE MatchSell
  <2> DEFINE maker == Head(activeBuys)
             volume == getDealVolume(maker, incoming)
             rest == Reduced(maker, volume)
  <2>1. /\ activeBuys # <<>> /\ incoming # NoOrder
        /\ activeBuys' = IF rest.isClosed THEN Tail(activeBuys)
                                          ELSE Insert(Tail(activeBuys), CopyOf(rest))
        /\ incoming' = Reduced(incoming, volume)
        /\ UNCHANGED <<activeSells, orders>>
    BY <1>6 DEF MatchSell, SellMatches, NoOrder, completeDeals
  <2>2. volume \in Int
    BY <1>2, <2>1, TailProperties, FillTypes DEF Resting
  <2> HIDE DEF volume
  <2>3. /\ Follows(incoming)' /\ incoming'.id = Len(orders')
        /\ Distinct(activeBuys')
        /\ \A deal \in ToSet(activeBuys') : Follows(deal)' /\ deal.id # Len(orders')
    BY <1>1, <1>2, <2>1, <2>2, MatchFollowed
  <2>4. \A deal \in ToSet(activeSells) : Follows(deal)' /\ deal.id # Len(orders')
    BY <1>1, <2>1, FollowsKept DEF OrdersFollowed
  <2>5. QED
    BY <1>2, <2>1, <2>3, <2>4 DEF OrdersFollowed
<1>7. CASE RejectBuy
  <2>1. /\ activeSells # <<>> /\ activeSells' = Tail(activeSells) /\ incoming' = NoOrder
        /\ UNCHANGED <<activeBuys, orders>>
    BY <1>7 DEF RejectBuy, BuyMatches
  <2>2. Distinct(activeSells') /\ ToSet(activeSells') \subseteq ToSet(activeSells)
    BY <1>2, <2>1, TailElements
  <2>3. QED
    BY <1>1, <2>1, <2>2, FollowsKept DEF OrdersFollowed
<1>8. CASE RejectSell
  <2>1. /\ activeBuys # <<>> /\ activeBuys' = Tail(activeBuys) /\ incoming' = NoOrder
        /\ UNCHANGED <<activeSells, orders>>
    BY <1>8 DEF RejectSell, SellMatches
  <2>2. Distinct(activeBuys') /\ ToSet(activeBuys') \subseteq ToSet(activeBuys)
    BY <1>2, <2>1, TailElements
  <2>3. QED
    BY <1>1, <2>1, <2>2, FollowsKept DEF OrdersFollowed
<1>9. ASSUME NEW side \in Sides, NEW book \in Seq(Resting(side)), Sorted(book), Distinct(book),
             ToSet(book) \subseteq ToSet(activeBuys) \cup ToSet(activeSells),
             incoming # NoOrder, incoming.type = side, UNCHANGED orders,
             NEW copy, copy = CopyOf(incoming)
      PROVE  /\ Distinct(Insert(book, copy))
             /\ \A deal \in ToSet(Insert(book, copy)) : Follows(deal)'
  <2>1. /\ copy \in Resting(side)
        /\ copy.id = Len(orders)
        /\ Follows(copy)'
    <3>1. incoming \in DealType /\ Follows(incoming) /\ incoming.id = Len(orders)
      BY <1>1, <1>2, <1>9 DEF OrdersFollowed
    <3>2. copy \in Resting(side)
      BY <1>9, <3>1, CopyTypes DEF Resting
    <3>3. /\ copy.id = incoming.id /\ copy.type = incoming.type /\ copy.uid = incoming.uid
          /\ copy.price = incoming.price /\ copy.time = incoming.time
      BY <1>9, <3>1, CopyTypes
    <3>4. QED
      BY <1>9, <3>1, <3>2, <3>3, FollowsSame
  <2>2. \A deal \in ToSet(book) : deal.id # Len(orders) /\ Follows(deal)'
    BY <1>1, <1>9, FollowsKept DEF OrdersFollowed
  <2>3. Distinct(Insert(book, copy))
    BY <1>9, <2>1, <2>2, InsertDistinct
  <2>4. ToSet(Insert(book, copy)) = ToSet(book) \cup {copy}
    BY <1>9, <2>1, InsertElements
  <2>5. QED
    BY <2>1, <2>2, <2>3, <2>4
<1>10. CASE FinishBuy
  <2>1. /\ incoming.type = "buy" /\ incoming # NoOrder /\ incoming' = NoOrder
        /\ activeBuys' = activeBuys \/ activeBuys' = Insert(activeBuys, CopyOf(incoming))
        /\ UNCHANGED <<activeSells, orders>>
    BY <1>10 DEF FinishBuy, NoOrder
  <2>2. Distinct(activeBuys') /\ \A deal \in ToSet(activeBuys') : Follows(deal)'
    BY <1>1, <1>2, <1>9, <2>1, FollowsKept DEF OrdersFollowed
  <2>3. QED
    BY <1>1, <1>2, <2>1, <2>2, FollowsKept DEF OrdersFollowed
<1>11. CASE FinishSell
  <2>1. /\ incoming.type = "sell" /\ incoming # NoOrder /\ incoming' = NoOrder
        /\ activeSells' = activeSells \/ activeSells' = Insert(activeSells, CopyOf(incoming))
        /\ UNCHANGED <<activeBuys, orders>>
    BY <1>11 DEF FinishSell, NoOrder
  <2>2. Distinct(activeSells') /\ \A deal \in ToSet(activeSells') : Follows(deal)'
    BY <1>1, <1>2, <1>9, <2>1, FollowsKept DEF OrdersFollowed
  <2>3. QED
    BY <1>1, <1>2, <2>1, <2>2, FollowsKept DEF OrdersFollowed
<1>12. QED
  BY <1>1, <1>3, <1>4, <1>5, <1>6, <1>7, <1>8, <1>10, <1>11 DEF Next, Run

\* Each order that rests or is in flight keeps the class, owner, limit and time it
\* was submitted with, and is in one place only, in every state of every
\* behaviour.
LEMMA FollowedInvariant == Spec => [](IInv /\ OrdersFollowed)
<1>1. QED
  BY InitIInv, NextIInv, InitFollowed, NextFollowed, PTL DEF Spec

-----------------------------------------------------------------------------
(* What a step adds to the histories *)

\* Record makes the owner's history one fill longer and leaves the others alone.
LEMMA RecordGrows ==
    ASSUME NEW U, NEW closed, Histories(closed, U), NEW deal \in DealType, NEW uid
    PROVE  /\ ClosedOf(closed, uid) \in Seq(DealType)
           /\ ClosedOf(Record(closed, deal), uid) =
                  IF uid = deal.uid THEN Append(ClosedOf(closed, uid), CopyOf(deal))
                                    ELSE ClosedOf(closed, uid)
<1>1. ClosedOf(closed, uid) \in Seq(DealType)
  BY EmptySeq DEF ClosedOf, Histories
<1> DEFINE entry == Append(ClosedOf(closed, deal.uid), CopyOf(deal))
           new == Record(closed, deal)
<1>2. new = [u \in DOMAIN closed \cup {deal.uid} |-> IF u = deal.uid THEN entry ELSE closed[u]]
  BY DEF Record, Put
<1> HIDE DEF new, entry
<1>3. DOMAIN new = DOMAIN closed \cup {deal.uid}
  BY <1>2
<1>4. CASE uid = deal.uid
  <2>1. ClosedOf(new, uid) = entry
    BY <1>2, <1>3, <1>4 DEF ClosedOf
  <2>2. QED
    BY <1>1, <1>4, <2>1 DEF new, entry
<1>5. CASE uid # deal.uid
  <2>1. ClosedOf(new, uid) = ClosedOf(closed, uid)
    BY <1>2, <1>3, <1>5 DEF ClosedOf
  <2>2. QED
    BY <1>1, <1>5, <2>1 DEF new
<1>6. QED
  BY <1>1, <1>4, <1>5

\* The fills by which a history is longer than before.
LEMMA MatchFills ==
    ASSUME NEW U, Histories(closedDeals, U), NEW a \in DealType, NEW b \in DealType,
           a.uid \in U, b.uid \in U, closedDeals' = Record(Record(closedDeals, a), b)
    PROVE  NewFills \subseteq {CopyOf(a), CopyOf(b)}
<1> DEFINE middle == Record(closedDeals, a)
<1>1. Histories(middle, U)
  BY RecordType
<1>2. Histories(closedDeals', U)
  BY <1>1, RecordType
<1>3. CopyOf(a) \in DealType /\ CopyOf(b) \in DealType
  BY CopyTypes
<1>4. ASSUME NEW uid \in DOMAIN closedDeals',
             NEW i \in (Len(ClosedOf(closedDeals, uid)) + 1) .. Len(closedDeals'[uid])
      PROVE  closedDeals'[uid][i] \in {CopyOf(a), CopyOf(b)}
  <2> DEFINE old == ClosedOf(closedDeals, uid)
             mid == ClosedOf(middle, uid)
             new == closedDeals'[uid]
  <2>1. /\ old \in Seq(DealType)
        /\ mid = IF uid = a.uid THEN Append(old, CopyOf(a)) ELSE old
    BY RecordGrows
  <2>2. /\ mid \in Seq(DealType)
        /\ ClosedOf(Record(middle, b), uid) = IF uid = b.uid THEN Append(mid, CopyOf(b)) ELSE mid
    BY <1>1, RecordGrows
  <2>3. new = ClosedOf(Record(middle, b), uid)
    BY DEF ClosedOf
  <2>4. i \in (Len(old) + 1) .. Len(new)
    OBVIOUS
  <2> HIDE DEF old, mid, new, middle
  <2>5. Len(old) \in Nat /\ Len(mid) \in Nat
    BY <2>1, <2>2, LenProperties
  <2>6. CASE i <= Len(mid)
    <3>1. i \in (Len(old) + 1) .. Len(mid)
      BY <2>4, <2>5, <2>6
    <3>2. uid = a.uid
      BY <2>1, <2>5, <3>1
    <3>3. mid = Append(old, CopyOf(a))
      BY <2>1, <3>2
    <3>4. Len(mid) = Len(old) + 1 /\ mid[Len(old) + 1] = CopyOf(a)
      BY <1>3, <2>1, <3>3, AppendProperties
    <3>5. i = Len(old) + 1
      BY <2>5, <3>1, <3>4
    <3>6. i \in 1 .. Len(mid)
      BY <2>5, <3>1
    <3>7. new[i] = mid[i]
      BY <1>3, <2>2, <2>3, <3>6, AppendProperties
    <3>8. QED
      BY <3>4, <3>5, <3>7 DEF new
  <2>7. CASE ~(i <= Len(mid))
    <3>1. uid = b.uid /\ new = Append(mid, CopyOf(b))
      BY <2>2, <2>3, <2>4, <2>5, <2>7
    <3>2. Len(new) = Len(mid) + 1 /\ new[Len(mid) + 1] = CopyOf(b)
      BY <1>3, <2>2, <3>1, AppendProperties
    <3>3. i = Len(mid) + 1
      BY <2>4, <2>5, <2>7, <3>2
    <3>4. QED
      BY <3>2, <3>3 DEF new
  <2>8. QED
    BY <2>6, <2>7
<1>5. QED
  BY <1>4 DEF NewFills

LEMMA NoFills ==
    ASSUME NEW U, Histories(closedDeals, U), UNCHANGED closedDeals
    PROVE  NewFills = {}
<1>1. ASSUME NEW uid \in DOMAIN closedDeals
      PROVE  (Len(ClosedOf(closedDeals, uid)) + 1) .. Len(closedDeals[uid]) = {}
  <2>1. ClosedOf(closedDeals, uid) = closedDeals[uid]
    BY DEF ClosedOf
  <2>2. Len(closedDeals[uid]) \in Nat
    BY LenProperties DEF Histories
  <2>3. QED
    BY <2>1, <2>2
<1>2. ASSUME NEW fill \in NewFills
      PROVE  FALSE
  <2>1. PICK uid \in DOMAIN closedDeals :
            \E i \in (Len(ClosedOf(closedDeals, uid)) + 1) .. Len(closedDeals[uid]) :
                fill = closedDeals[uid][i]
    BY DEF NewFills
  <2>2. QED
    BY <1>1, <2>1
<1>3. QED
  BY <1>2

\* The two fills of an iteration: one of the order in flight, one of the first
\* deal of the other book, both at one price.
LEMMA MatchBuyFills ==
    ASSUME IInv, MatchBuy, NEW fill \in NewFills
    PROVE  /\ fill.price = getDealPrice(incoming, Head(activeSells))
           /\ fill.id # incoming.id => fill.id = Head(activeSells).id /\ fill.type = "sell"
<1> DEFINE maker == Head(activeSells)
           deals == completeDeals(incoming, maker)
<1>1. /\ activeSells \in Seq(Resting("sell")) /\ Sorted(activeSells) /\ activeSells # <<>>
      /\ incoming \in DealType
  BY DEF IInv, TypeOK, BooksSorted, MatchBuy, BuyMatches, NoOrder
<1>2. maker \in DealType /\ maker.type = "sell"
  BY <1>1, TailProperties DEF Resting, Sides
<1>3. closedDeals' = Record(Record(closedDeals, deals.first), deals.second)
      /\ {incoming.uid, maker.uid} \subseteq DOMAIN users
  BY DEF MatchBuy
<1> HIDE DEF maker
<1>4. /\ deals.first \in DealType /\ deals.first.uid = incoming.uid
      /\ deals.second \in DealType /\ deals.second.uid = maker.uid
  BY <1>1, <1>2, FillTypes
<1>5. /\ deals.first.id = incoming.id /\ deals.second.id = maker.id
      /\ deals.second.type = "sell"
      /\ deals.first.price = getDealPrice(incoming, maker)
      /\ deals.second.price = getDealPrice(incoming, maker)
  BY <1>1, <1>2 DEF completeDeals, Filled, DealType
<1> HIDE DEF deals
<1>6. Histories(closedDeals, DOMAIN users)
  BY DEF IInv, TypeOK, Histories
<1>7. fill \in {CopyOf(deals.first), CopyOf(deals.second)}
  BY <1>3, <1>4, <1>6, MatchFills
<1>8. QED
  BY <1>4, <1>5, <1>7, CopyTypes DEF maker

LEMMA MatchSellFills ==
    ASSUME IInv, MatchSell, NEW fill \in NewFills
    PROVE  /\ fill.price = getDealPrice(Head(activeBuys), incoming)
           /\ fill.id # incoming.id => fill.id = Head(activeBuys).id /\ fill.type = "buy"
<1> DEFINE maker == Head(activeBuys)
           deals == completeDeals(maker, incoming)
<1>1. /\ activeBuys \in Seq(Resting("buy")) /\ Sorted(activeBuys) /\ activeBuys # <<>>
      /\ incoming \in DealType
  BY DEF IInv, TypeOK, BooksSorted, MatchSell, SellMatches, NoOrder
<1>2. maker \in DealType /\ maker.type = "buy"
  BY <1>1, TailProperties DEF Resting, Sides
<1>3. closedDeals' = Record(Record(closedDeals, deals.first), deals.second)
      /\ {incoming.uid, maker.uid} \subseteq DOMAIN users
  BY DEF MatchSell
<1> HIDE DEF maker
<1>4. /\ deals.first \in DealType /\ deals.first.uid = maker.uid
      /\ deals.second \in DealType /\ deals.second.uid = incoming.uid
  BY <1>1, <1>2, FillTypes
<1>5. /\ deals.first.id = maker.id /\ deals.second.id = incoming.id
      /\ deals.first.type = "buy"
      /\ deals.first.price = getDealPrice(maker, incoming)
      /\ deals.second.price = getDealPrice(maker, incoming)
  BY <1>1, <1>2 DEF completeDeals, Filled, DealType
<1> HIDE DEF deals
<1>6. Histories(closedDeals, DOMAIN users)
  BY DEF IInv, TypeOK, Histories
<1>7. fill \in {CopyOf(deals.first), CopyOf(deals.second)}
  BY <1>3, <1>4, <1>6, MatchFills
<1>8. QED
  BY <1>4, <1>5, <1>7, CopyTypes DEF maker

\* Nothing else fills an order.
LEMMA OnlyMatchesFill ==
    ASSUME IInv, [Next]_vars, ~MatchBuy, ~MatchSell
    PROVE  NewFills = {}
<1>1. Histories(closedDeals, DOMAIN users)
  BY DEF IInv, TypeOK, Histories
<1>2. UNCHANGED closedDeals
  BY DEF Next, Account, Trade, Run, RegisterNewUser, TryLogin, TryBuy, TrySell, Submit,
         RejectBuy, FinishBuy, RejectSell, FinishSell, vars, bookVars
<1>3. QED
  BY <1>1, <1>2, NoFills

-----------------------------------------------------------------------------
(* The order of submission is the order of time *)

LEMMA NextInTime ==
    ASSUME \A d \in Ticks : d > 0, IInv, OrdersInTime, [Next]_vars
    PROVE  OrdersInTime'
<1>1. CASE UNCHANGED <<orders, clock>>
  BY <1>1 DEF OrdersInTime
<1>2. ASSUME NEW type \in Sides, NEW uid \in DOMAIN users \cup ForeignUids,
             NEW volume \in Volumes, NEW cost \in Prices, Submit(type, uid, volume, cost)
      PROVE  OrdersInTime'
  <2>1. clock \in Int /\ clock' \in Int /\ clock < clock'
    <3>1. PICK d \in Ticks : clock' = clock + d
      BY <1>2 DEF Submit
    <3>2. d \in Int /\ d > 0 /\ clock \in Int
      BY CoreAssumption DEF IInv, TypeOK
    <3>3. QED
      BY <3>1, <3>2
  <2>2. /\ orders \in Seq(DealType) /\ orders' = Append(orders, incoming')
        /\ incoming'.time = clock' /\ incoming' \in DealType
    <3>1. IInv' /\ incoming' # NoOrder
      BY <1>2, SubmitIInv DEF Submit, NewDeal, NoOrder
    <3>2. QED
      BY <1>2, <3>1 DEF Submit, NewDeal, IInv, TypeOK
  <2>3. /\ Len(orders) \in Nat /\ DOMAIN orders = 1 .. Len(orders)
        /\ DOMAIN orders' = 1 .. Len(orders) + 1
        /\ \A i \in 1 .. Len(orders) : orders'[i] = orders[i]
        /\ orders'[Len(orders) + 1] = incoming'
    BY <2>2, AppendProperties, LenProperties
  <2>4. \A i \in 1 .. Len(orders) : orders[i].time \in Int /\ orders[i].time <= clock
    <3>1. \A i \in 1 .. Len(orders) : orders[i] \in DealType
      BY <2>2, ElementOfSeq
    <3>2. QED
      BY <2>3, <3>1 DEF OrdersInTime, DealType
  <2>5. \A i \in DOMAIN orders' : orders'[i].time <= clock'
    BY <2>1, <2>2, <2>3, <2>4
  <2>6. ASSUME NEW i \in DOMAIN orders', NEW j \in DOMAIN orders', i < j
        PROVE  orders'[i].time < orders'[j].time
    <3>1. i \in 1 .. Len(orders)
      BY <2>3, <2>6
    <3>2. CASE j = Len(orders) + 1
      BY <2>1, <2>2, <2>3, <2>4, <3>1, <3>2
    <3>3. CASE j # Len(orders) + 1
      BY <2>3, <2>6, <3>1, <3>3 DEF OrdersInTime
    <3>4. QED
      BY <3>2, <3>3
  <2>7. QED
    BY <2>5, <2>6 DEF OrdersInTime
<1>3. CASE Trade
  BY <1>2, <1>3 DEF Trade, TryBuy, TrySell, Sides
<1>4. CASE Account \/ Run \/ UNCHANGED vars
  BY <1>1, <1>4 DEF Account, RegisterNewUser, TryLogin, Run, MatchBuy, RejectBuy, FinishBuy,
                    MatchSell, RejectSell, FinishSell, vars, bookVars
<1>5. QED
  BY <1>3, <1>4 DEF Next

\* The first deal of a sorted book is the one to serve: none is better, and none
\* of the same price was submitted before it.  The order in flight is younger.
LEMMA FirstInTurn ==
    ASSUME IInv, OrdersFollowed, OrdersInTime,
           NEW side \in Sides, NEW book \in Seq(Resting(side)), Sorted(book), book # <<>>,
           Distinct(book), ToSet(book) \subseteq ToSet(activeBuys) \cup ToSet(activeSells),
           incoming # NoOrder
    PROVE  /\ Head(book).price = orders[Head(book).id].price
           /\ Head(book).time < incoming.time
           /\ \A i \in DOMAIN book :
                 /\ side = "buy" => book[i].price <= Head(book).price
                 /\ side = "sell" => book[i].price >= Head(book).price
                 /\ book[i].price = Head(book).price => Head(book).id <= book[i].id
<1> DEFINE maker == Head(book)
<1>1. /\ Len(book) \in Nat \ {0} /\ maker = book[1] /\ maker \in ToSet(book)
      /\ DOMAIN book = 1 .. Len(book)
  BY TailProperties, TailElements, LenProperties
<1>2. /\ orders \in Seq(DealType) /\ DOMAIN orders = 1 .. Len(orders) /\ Len(orders) \in Nat
      /\ \A i \in DOMAIN orders : orders[i] \in DealType
  <2>1. orders \in Seq(DealType)
    BY DEF IInv, TypeOK
  <2>2. QED
    BY <2>1, LenProperties, ElementOfSeq
<1>3. \A deal \in ToSet(book) : Follows(deal) /\ deal.id # Len(orders)
  BY DEF OrdersFollowed
<1> HIDE DEF maker
<1>4. maker.time < incoming.time
  <2>1. Follows(incoming) /\ incoming.id = Len(orders) /\ Follows(maker) /\ maker.id # Len(orders)
    BY <1>1, <1>3 DEF OrdersFollowed
  <2>2. maker.id < incoming.id /\ maker.id \in DOMAIN orders /\ incoming.id \in DOMAIN orders
    BY <1>2, <2>1 DEF Follows
  <2>3. QED
    BY <2>1, <2>2 DEF Follows, OrdersInTime
<1>5. ASSUME NEW i \in DOMAIN book, book[i].price = maker.price
      PROVE  maker.id <= book[i].id
  <2>1. Follows(maker) /\ Follows(book[i])
    BY <1>1, <1>3 DEF ToSet
  <2>2. /\ maker.id \in DOMAIN orders /\ book[i].id \in DOMAIN orders
        /\ maker.time = orders[maker.id].time /\ book[i].time = orders[book[i].id].time
    BY <2>1 DEF Follows
  <2>3. ~(book[i].time < maker.time)
    <3>1. CASE i = 1
      BY <1>1, <1>2, <2>2, <3>1 DEF DealType
    <3>2. CASE i # 1
      <4>1. 1 \in DOMAIN book /\ 1 < i
        BY <1>1, <3>2
      <4>2. ~Less(book[i], maker)
        BY <1>1, <4>1 DEF Sorted
      <4>3. QED
        BY <1>5, <4>2 DEF Less
    <3>3. QED
      BY <3>1, <3>2
  <2>4. ~(book[i].id < maker.id)
    BY <2>2, <2>3 DEF OrdersInTime
  <2>5. QED
    BY <1>2, <2>2, <2>4
<1>6. maker.price = orders[maker.id].price
  BY <1>1, <1>3 DEF Follows
<1>7. \A i \in DOMAIN book :
          /\ side = "buy" => book[i].price <= Head(book).price
          /\ side = "sell" => book[i].price >= Head(book).price
  BY FirstIsBest
<1>8. QED
  BY <1>4, <1>5, <1>6, <1>7 DEF maker

\* The facts of FirstInTurn for the book that a loop reads.
LEMMA FirstSellInTurn ==
    ASSUME IInv, OrdersFollowed, OrdersInTime, MatchBuy
    PROVE  /\ Head(activeSells).price = orders[Head(activeSells).id].price
           /\ getDealPrice(incoming, Head(activeSells)) = Head(activeSells).price
           /\ \A i \in DOMAIN activeSells :
                 /\ activeSells[i].price >= Head(activeSells).price
                 /\ activeSells[i].price = Head(activeSells).price
                       => Head(activeSells).id <= activeSells[i].id
<1>1. /\ activeSells \in Seq(Resting("sell")) /\ Sorted(activeSells) /\ activeSells # <<>>
      /\ Distinct(activeSells) /\ incoming \in DealType /\ incoming # NoOrder
  BY DEF IInv, TypeOK, BooksSorted, OrdersFollowed, MatchBuy, BuyMatches, NoOrder
<1>2. Head(activeSells) \in DealType
  BY <1>1, TailProperties DEF Resting, Sides
<1>3. /\ Head(activeSells).price = orders[Head(activeSells).id].price
      /\ Head(activeSells).time < incoming.time
      /\ \A i \in DOMAIN activeSells :
            /\ activeSells[i].price >= Head(activeSells).price
            /\ activeSells[i].price = Head(activeSells).price
                  => Head(activeSells).id <= activeSells[i].id
  BY <1>1, FirstInTurn DEF Sides
<1>4. QED
  BY <1>1, <1>2, <1>3 DEF getDealPrice, DealType

LEMMA FirstBuyInTurn ==
    ASSUME IInv, OrdersFollowed, OrdersInTime, MatchSell
    PROVE  /\ Head(activeBuys).price = orders[Head(activeBuys).id].price
           /\ getDealPrice(Head(activeBuys), incoming) = Head(activeBuys).price
           /\ \A i \in DOMAIN activeBuys :
                 /\ activeBuys[i].price <= Head(activeBuys).price
                 /\ activeBuys[i].price = Head(activeBuys).price
                       => Head(activeBuys).id <= activeBuys[i].id
<1>1. /\ activeBuys \in Seq(Resting("buy")) /\ Sorted(activeBuys) /\ activeBuys # <<>>
      /\ Distinct(activeBuys) /\ incoming \in DealType /\ incoming # NoOrder
  BY DEF IInv, TypeOK, BooksSorted, OrdersFollowed, MatchSell, SellMatches, NoOrder
<1>2. Head(activeBuys) \in DealType
  BY <1>1, TailProperties DEF Resting, Sides
<1>3. /\ Head(activeBuys).price = orders[Head(activeBuys).id].price
      /\ Head(activeBuys).time < incoming.time
      /\ \A i \in DOMAIN activeBuys :
            /\ activeBuys[i].price <= Head(activeBuys).price
            /\ activeBuys[i].price = Head(activeBuys).price
                  => Head(activeBuys).id <= activeBuys[i].id
  BY <1>1, FirstInTurn DEF Sides
<1>4. QED
  BY <1>1, <1>2, <1>3 DEF getDealPrice, DealType

-----------------------------------------------------------------------------
(* The theorems *)

\* The body of each action property, for one step.
InTurn ==
    \A fill \in {f \in NewFills : f.id # incoming.id} :
        LET book == IF fill.type = "buy" THEN activeBuys ELSE activeSells
            limit == orders[fill.id].price
        IN  \A i \in DOMAIN book :
               /\ IF fill.type = "buy" THEN book[i].price <= limit
                                       ELSE book[i].price >= limit
               /\ book[i].price = limit => fill.id <= book[i].id

AtMakersPrice ==
    \A f, g \in NewFills :
        /\ f.id # incoming.id => f.price = orders[f.id].price
        /\ f.price = g.price

LEMMA StepInTurn ==
    ASSUME IInv, OrdersFollowed, OrdersInTime, [Next]_vars
    PROVE  InTurn /\ AtMakersPrice
<1>1. CASE MatchBuy
  BY <1>1, MatchBuyFills, FirstSellInTurn DEF InTurn, AtMakersPrice
<1>2. CASE MatchSell
  BY <1>2, MatchSellFills, FirstBuyInTurn DEF InTurn, AtMakersPrice
<1>3. CASE ~MatchBuy /\ ~MatchSell
  BY <1>3, OnlyMatchesFill DEF InTurn, AtMakersPrice
<1>4. QED
  BY <1>1, <1>2, <1>3

LEMMA TimeInvariant ==
    ASSUME \A d \in Ticks : d > 0
    PROVE  Spec => [](IInv /\ OrdersFollowed /\ OrdersInTime)
<1>1. Init => OrdersInTime
  BY DEF Init, OrdersInTime
<1>2. IInv /\ OrdersInTime /\ [Next]_vars => OrdersInTime'
  BY NextInTime
<1>3. QED
  BY <1>1, <1>2, InitIInv, NextIInv, InitFollowed, NextFollowed, PTL DEF Spec

\* Whenever the clock advances between two orders, a resting order is filled only
\* in its turn: no resting order of its side has a better price, and none of the
\* same price was submitted before it, whatever was partially filled and put back
\* in between (deal.cpp:17-21, 57-61, core.cpp:56-58).
THEOREM FilledInTurn ==
    ASSUME \A d \in Ticks : d > 0
    PROVE  Spec => PriceTimePriority
<1>1. IInv /\ OrdersFollowed /\ OrdersInTime /\ [Next]_vars => InTurn
  BY StepInTurn
<1>2. IInv /\ OrdersFollowed /\ OrdersInTime /\ [Next]_vars => [InTurn]_vars
  BY <1>1
<1>3. QED
  BY <1>2, TimeInvariant, PTL DEF Spec, PriceTimePriority, InTurn

\* Under the same clock a fill is at the limit of the order that rested, on both
\* sides of the fill, so the incoming order never pays its own limit when the
\* resting one is better (deal.cpp:96-98).
THEOREM FilledAtMakersPrice ==
    ASSUME \A d \in Ticks : d > 0
    PROVE  Spec => MakerPrice
<1>1. IInv /\ OrdersFollowed /\ OrdersInTime /\ [Next]_vars => [AtMakersPrice]_vars
  BY StepInTurn
<1>2. Spec => [][AtMakersPrice]_vars
  BY <1>1, TimeInvariant, PTL DEF Spec
<1>3. QED
  BY <1>2 DEF MakerPrice, AtMakersPrice

-----------------------------------------------------------------------------
(* Core implements Clearing: each iteration of a loop is one trade between *)
(* two open orders, and no other step moves money or changes what is open. *)
(* The set of open orders is told apart by ids, so this rests on each      *)
(* order being in one place (OrdersFollowed), and a trade needs both       *)
(* accounts, so it rests on every order having an owner (OrdersOwned).     *)

OrdersOwned == \A i \in DOMAIN orders : orders[i].uid \in DOMAIN users

\* An order as Clearing sees it.
View(d) == [id |-> d.id, type |-> d.type, uid |-> d.uid, volume |-> d.volume, price |-> d.price]
Views(S) == {View(d) : d \in S}

InFlight == IF incoming # NoOrder /\ ~incoming.isClosed THEN {incoming} ELSE {}

BalancesOf(table) == [uid \in DOMAIN table |-> [usd |-> table[uid].usd, rub |-> table[uid].rub]]

-----------------------------------------------------------------------------
(* Owners *)

LEMMA NextOwned ==
    ASSUME ForeignUids = {}, IInv, OrdersOwned, [Next]_vars
    PROVE  OrdersOwned' /\ DOMAIN users \subseteq DOMAIN users'
<1>1. /\ orders \in Seq(DealType) /\ DOMAIN orders = 1 .. Len(orders) /\ Len(orders) \in Nat
      /\ users \in [1 .. (maxUid - 1) -> UserType]
  BY LenProperties DEF IInv, TypeOK
<1>2. DOMAIN users \subseteq DOMAIN users'
  <2>1. ASSUME NEW login, NEW pass, RegisterNewUser(login, pass)
        PROVE  DOMAIN users \subseteq DOMAIN users'
    BY <2>1 DEF RegisterNewUser, AddUser, Put, tableVars
  <2>2. ASSUME NEW taker, NEW maker, NEW usd, NEW rub
        PROVE  DOMAIN Settled(taker, maker, usd, rub) = DOMAIN users
    BY DEF Settled, Credit
  <2>3. QED
    BY <2>1, <2>2 DEF Next, Account, Trade, Run, TryLogin, TryBuy, TrySell, Submit, MatchBuy,
       RejectBuy, FinishBuy, MatchSell, RejectSell, FinishSell, vars, tableVars
<1>3. ASSUME NEW type \in Sides, NEW uid \in DOMAIN users, NEW volume \in Volumes,
             NEW cost \in Prices, Submit(type, uid, volume, cost)
      PROVE  OrdersOwned'
  <2>1. /\ orders' = Append(orders, incoming') /\ UNCHANGED users
        /\ incoming'.uid = uid /\ incoming' \in DealType
    <3>1. IInv' /\ incoming' # NoOrder
      BY <1>3, SubmitIInv DEF Submit, NewDeal, NoOrder
    <3>2. QED
      BY <1>3, <3>1 DEF Submit, NewDeal, tableVars, IInv, TypeOK
  <2>2. /\ DOMAIN orders' = 1 .. Len(orders) + 1
        /\ \A i \in 1 .. Len(orders) : orders'[i] = orders[i]
        /\ orders'[Len(orders) + 1] = incoming'
    BY <1>1, <2>1, AppendProperties, LenProperties
  <2>3. QED
    BY <1>1, <2>1, <2>2 DEF OrdersOwned
<1>4. CASE UNCHANGED orders
  BY <1>2, <1>4 DEF OrdersOwned
<1>5. CASE Trade
  BY <1>2, <1>3, <1>5 DEF Trade, TryBuy, TrySell, Sides
<1>6. CASE Account \/ Run \/ UNCHANGED vars
  <2>1. UNCHANGED orders
    BY <1>6 DEF Account, RegisterNewUser, TryLogin, Run, MatchBuy, RejectBuy, FinishBuy,
                MatchSell, RejectSell, FinishSell, vars, bookVars
  <2>2. QED
    BY <1>4, <2>1
<1>7. QED
  BY <1>2, <1>5, <1>6 DEF Next

\* Whoever owns an order that can trade has an account.
LEMMA TradersHaveAccounts ==
    ASSUME OrdersFollowed, OrdersOwned
    PROVE  /\ incoming # NoOrder => incoming.uid \in DOMAIN users
           /\ \A deal \in ToSet(activeBuys) \cup ToSet(activeSells) : deal.uid \in DOMAIN users
BY DEF OrdersFollowed, OrdersOwned, Follows

-----------------------------------------------------------------------------
(* Open orders *)

LEMMA OpenOrdersSplit ==
    IInv => OpenOrders = Views(ToSet(activeBuys)) \cup Views(ToSet(activeSells)) \cup Views(InFlight)
<1> SUFFICES ASSUME IInv
             PROVE  OpenOrders = Views(ToSet(activeBuys)) \cup Views(ToSet(activeSells))
                                   \cup Views(InFlight)
  OBVIOUS
<1>1. \A d \in ToSet(activeBuys) \cup ToSet(activeSells) : ~d.isClosed
  BY BookElements DEF IInv, TypeOK
<1>2. {e \in ToSet(activeBuys) \cup ToSet(activeSells)
              \cup (IF Quiescent THEN {} ELSE {incoming}) : ~e.isClosed}
        = ToSet(activeBuys) \cup ToSet(activeSells) \cup InFlight
  BY <1>1 DEF Quiescent, InFlight
<1>3. OpenOrders = Views({e \in ToSet(activeBuys) \cup ToSet(activeSells)
              \cup (IF Quiescent THEN {} ELSE {incoming}) : ~e.isClosed})
  BY DEF OpenOrders, Views, View
<1>4. QED
  BY <1>2, <1>3 DEF Views

LEMMA OpenOrdersSplitNext ==
    IInv' => OpenOrders' = Views(ToSet(activeBuys')) \cup Views(ToSet(activeSells'))
                             \cup Views(InFlight')
<1>1. (IInv => OpenOrders = Views(ToSet(activeBuys)) \cup Views(ToSet(activeSells))
                              \cup Views(InFlight))'
  BY OpenOrdersSplit, PTL
<1>2. QED
  BY <1>1

\* What Clearing leaves of an order is what completeDeals leaves of it.
LEMMA RestOfOrder ==
    ASSUME NEW deal \in DealType, ~deal.isClosed, NEW volume \in Int,
           NEW rest, rest = Reduced(deal, volume)
    PROVE  /\ rest.isClosed => Abstract!Rest(View(deal), volume) = {}
           /\ ~rest.isClosed => Abstract!Rest(View(deal), volume) = {View(rest)}
           /\ View(CopyOf(rest)) = View(rest)
<1>1. CASE deal.volume = volume
  BY <1>1 DEF Reduced, Abstract!Rest, View, CopyOf, DealType
<1>2. CASE deal.volume # volume
  BY <1>2 DEF Reduced, Abstract!Rest, View, CopyOf, DealType
<1>3. QED
  BY <1>1, <1>2

\* One iteration of a loop, for the book it takes its counterpart from and the
\* other one.
LEMMA MatchOpen ==
    ASSUME IInv, OrdersFollowed, NEW volume \in Int,
           NEW side \in Sides, NEW book \in Seq(Resting(side)), Sorted(book), book # <<>>,
           Distinct(book), ToSet(book) \subseteq ToSet(activeBuys) \cup ToSet(activeSells),
           NEW others, others \subseteq ToSet(activeBuys) \cup ToSet(activeSells),
           \A d \in others : d.type # side,
           NEW rest, rest = Reduced(Head(book), volume),
           incoming # NoOrder, ~incoming.isClosed, incoming' = Reduced(incoming, volume)
    PROVE  LET new == IF rest.isClosed THEN Tail(book) ELSE Insert(Tail(book), CopyOf(rest))
               maker == Head(book)
           IN  Views(others) \cup Views(ToSet(new)) \cup Views(InFlight')
                 = ((Views(others) \cup Views(ToSet(book)) \cup Views(InFlight))
                      \ {View(maker), View(incoming)})
                     \cup Abstract!Rest(View(maker), volume)
                     \cup Abstract!Rest(View(incoming), volume)
<1> DEFINE maker == Head(book)
           new == IF rest.isClosed THEN Tail(book) ELSE Insert(Tail(book), CopyOf(rest))
           books == ToSet(book)
<1>1. maker \in DealType /\ maker.type = side /\ maker \in books /\ ~maker.isClosed
  BY TailProperties, TailElements DEF Resting
<1>2. \A d \in books : d # maker => d.id # maker.id
  <2>1. /\ books \ {maker} = ToSet(Tail(book))
        /\ \A d \in ToSet(Tail(book)) : d.id # maker.id
    BY TailElements
  <2>2. QED
    BY <2>1
<1>3. incoming \in DealType /\ incoming.id = Len(orders)
  BY DEF IInv, TypeOK, OrdersFollowed
<1>4. \A d \in books \cup others : d.id # incoming.id /\ Follows(d)
  BY <1>3 DEF OrdersFollowed
<1>5. \A d \in others : d.id # maker.id
  BY <1>1, <1>4 DEF Follows
<1> HIDE DEF maker
<1>6. /\ rest \in DealType /\ rest.type = maker.type /\ rest.id = maker.id
  BY <1>1, RestTypes DEF maker
<1>7. ToSet(new) = (books \ {maker}) \cup (IF rest.isClosed THEN {} ELSE {CopyOf(rest)})
  BY <1>1, <1>6, PutBackElements DEF maker
<1>8. InFlight = {incoming} /\ InFlight' = IF incoming'.isClosed THEN {} ELSE {incoming'}
  <2>1. incoming' # NoOrder
    BY <1>3, RestTypes DEF NoOrder, DealType
  <2>2. QED
    BY <2>1 DEF InFlight
<1>9. /\ rest.isClosed => Abstract!Rest(View(maker), volume) = {}
      /\ ~rest.isClosed => Abstract!Rest(View(maker), volume) = {View(rest)}
      /\ View(CopyOf(rest)) = View(rest)
  BY <1>1, RestOfOrder DEF maker
<1>10. /\ incoming'.isClosed => Abstract!Rest(View(incoming), volume) = {}
       /\ ~incoming'.isClosed => Abstract!Rest(View(incoming), volume) = {View(incoming')}
  BY <1>3, RestOfOrder
<1> HIDE DEF new, books
<1>11. Views(ToSet(new)) = (Views(books) \ {View(maker)}) \cup Abstract!Rest(View(maker), volume)
  <2>1. Views(books \ {maker}) = Views(books) \ {View(maker)}
    <3>1. \A d \in books : d # maker => View(d) # View(maker)
      BY <1>2 DEF View
    <3>2. QED
      BY <3>1 DEF Views
  <2>2. Views(ToSet(new)) = Views(books \ {maker})
                              \cup (IF rest.isClosed THEN {} ELSE {View(CopyOf(rest))})
    BY <1>7 DEF Views
  <2>3. QED
    BY <1>9, <2>1, <2>2
<1>12. Views(InFlight') = Abstract!Rest(View(incoming), volume)
  BY <1>8, <1>10 DEF Views
<1>13. Views(InFlight) = {View(incoming)}
  BY <1>8 DEF Views
<1>14. /\ View(incoming) \notin Views(books) /\ View(incoming) \notin Views(others)
       /\ View(maker) \notin Views(others)
  BY <1>4, <1>5 DEF Views, View
<1>15. QED
  BY <1>11, <1>12, <1>13, <1>14 DEF new, maker, books

-----------------------------------------------------------------------------
(* Balances *)

Balance == [usd : Int, rub : Int]

LEMMA Received ==
    ASSUME NEW U, NEW bal \in [U -> Balance], NEW uid \in U, NEW x \in Int, NEW y \in Int
    PROVE  /\ Abstract!Receive(bal, uid, x, y) =
                  [u \in U |-> IF u = uid THEN [usd |-> bal[u].usd + x, rub |-> bal[u].rub + y]
                                         ELSE bal[u]]
           /\ Abstract!Receive(bal, uid, x, y) \in [U -> Balance]
<1> DEFINE new == Abstract!Receive(bal, uid, x, y)
           sum == [usd |-> bal[uid].usd + x, rub |-> bal[uid].rub + y]
<1>1. new = [[bal EXCEPT ![uid] = [bal[uid] EXCEPT !.usd = bal[uid].usd + x]]
               EXCEPT ![uid] = [[bal[uid] EXCEPT !.usd = bal[uid].usd + x]
                                  EXCEPT !.rub = bal[uid].rub + y]]
  BY DEF Abstract!Receive, Balance
<1>2. bal[uid] \in Balance
  OBVIOUS
<1>3. [[bal[uid] EXCEPT !.usd = bal[uid].usd + x] EXCEPT !.rub = bal[uid].rub + y] = sum
  <2>1. ASSUME NEW row \in Balance, NEW p \in Int, NEW q \in Int
        PROVE  [[row EXCEPT !.usd = p] EXCEPT !.rub = q] = [usd |-> p, rub |-> q]
    <3> DEFINE one == [row EXCEPT !.usd = p]
               two == [one EXCEPT !.rub = q]
    <3>1. one \in Balance /\ one.usd = p
      BY <2>1 DEF Balance
    <3> HIDE DEF one
    <3>2. two \in Balance /\ two.usd = p /\ two.rub = q
      BY <2>1, <3>1 DEF Balance
    <3> HIDE DEF two
    <3>3. two = [usd |-> two.usd, rub |-> two.rub]
      BY <3>2 DEF Balance
    <3>4. QED
      BY <3>2, <3>3 DEF one, two
  <2>2. bal[uid].usd + x \in Int /\ bal[uid].rub + y \in Int
    BY <1>2 DEF Balance
  <2>3. QED
    BY <1>2, <2>1, <2>2
<1>4. sum \in Balance
  BY <1>2 DEF Balance
<1> HIDE DEF sum
<1>5. new = [u \in U |-> IF u = uid THEN sum ELSE bal[u]]
  BY <1>1, <1>3
<1>6. QED
  BY <1>4, <1>5 DEF sum

LEMMA CreditBalances ==
    ASSUME NEW U, NEW table \in [U -> UserType], NEW uid \in U, NEW usd \in Int, NEW rub \in Int
    PROVE  /\ Credit(table, uid, usd, rub) \in [U -> UserType]
           /\ BalancesOf(Credit(table, uid, usd, rub))
                = Abstract!Receive(BalancesOf(table), uid, usd, rub)
<1>1. Credit(table, uid, usd, rub) \in [U -> UserType]
  BY CreditType
<1> DEFINE new == Credit(table, uid, usd, rub)
<1>2. /\ new[uid] = AddRub(AddUsd(table[uid], usd), rub)
      /\ \A u \in U : u # uid => new[u] = table[u]
  BY DEF Credit
<1>3. new[uid].usd = table[uid].usd + usd /\ new[uid].rub = table[uid].rub + rub
  BY <1>2 DEF AddRub, AddUsd, UserType
<1> HIDE DEF new
<1> DEFINE bal == BalancesOf(table)
<1>4. /\ bal = [u \in U |-> [usd |-> table[u].usd, rub |-> table[u].rub]]
      /\ BalancesOf(new) = [u \in U |-> [usd |-> new[u].usd, rub |-> new[u].rub]]
  BY <1>1 DEF BalancesOf, new
<1> HIDE DEF bal
<1>5. Abstract!Receive(bal, uid, usd, rub) =
          [u \in U |-> IF u = uid THEN [usd |-> bal[u].usd + usd, rub |-> bal[u].rub + rub]
                                  ELSE bal[u]]
  <2>1. bal \in [U -> Balance]
    BY <1>4 DEF Balance, UserType
  <2>2. QED
    BY <2>1, Received
<1>6. BalancesOf(new) = Abstract!Receive(bal, uid, usd, rub)
  BY <1>2, <1>3, <1>4, <1>5
<1>7. QED
  BY <1>1, <1>6 DEF new, bal

LEMMA ReceiveCommutes ==
    ASSUME NEW U, NEW bal \in [U -> Balance], NEW a \in U, NEW b \in U,
           NEW x \in Int, NEW y \in Int, NEW z \in Int, NEW w \in Int
    PROVE  Abstract!Receive(Abstract!Receive(bal, a, x, y), b, z, w)
             = Abstract!Receive(Abstract!Receive(bal, b, z, w), a, x, y)
<1> DEFINE A == Abstract!Receive(bal, a, x, y)
           B == Abstract!Receive(bal, b, z, w)
<1>1. /\ A = [u \in U |-> IF u = a THEN [usd |-> bal[u].usd + x, rub |-> bal[u].rub + y]
                                     ELSE bal[u]]
      /\ A \in [U -> Balance]
      /\ B = [u \in U |-> IF u = b THEN [usd |-> bal[u].usd + z, rub |-> bal[u].rub + w]
                                     ELSE bal[u]]
      /\ B \in [U -> Balance]
  BY Received
<1> HIDE DEF A, B
<1>2. Abstract!Receive(A, b, z, w) =
          [u \in U |-> IF u = b THEN [usd |-> A[u].usd + z, rub |-> A[u].rub + w] ELSE A[u]]
  BY <1>1, Received
<1>3. Abstract!Receive(B, a, x, y) =
          [u \in U |-> IF u = a THEN [usd |-> B[u].usd + x, rub |-> B[u].rub + y] ELSE B[u]]
  BY <1>1, Received
<1>4. \A u \in U : bal[u].usd \in Int /\ bal[u].rub \in Int
  BY DEF Balance
<1>5. ASSUME NEW u \in U
      PROVE  (IF u = b THEN [usd |-> A[u].usd + z, rub |-> A[u].rub + w] ELSE A[u])
               = (IF u = a THEN [usd |-> B[u].usd + x, rub |-> B[u].rub + y] ELSE B[u])
  BY <1>1, <1>4
<1>6. QED
  BY <1>2, <1>3, <1>5 DEF A, B

LEMMA SettledBalances ==
    ASSUME NEW U, users \in [U -> UserType], NEW taker \in U, NEW maker \in U,
           NEW usd \in Int, NEW rub \in Int
    PROVE  /\ BalancesOf(Settled(taker, maker, usd, rub))
                = Abstract!Receive(Abstract!Receive(BalancesOf(users), taker, usd, -rub),
                                   maker, -usd, rub)
           /\ BalancesOf(Settled(taker, maker, usd, rub))
                = Abstract!Receive(Abstract!Receive(BalancesOf(users), maker, -usd, rub),
                                   taker, usd, -rub)
<1>1. -usd \in Int /\ -rub \in Int
  OBVIOUS
<1> DEFINE middle == Credit(users, taker, usd, -rub)
<1>2. /\ middle \in [U -> UserType]
      /\ BalancesOf(middle) = Abstract!Receive(BalancesOf(users), taker, usd, -rub)
  BY <1>1, CreditBalances
<1> HIDE DEF middle
<1>3. BalancesOf(Credit(middle, maker, -usd, rub))
        = Abstract!Receive(BalancesOf(middle), maker, -usd, rub)
  BY <1>1, <1>2, CreditBalances
<1>4. Settled(taker, maker, usd, rub) = Credit(middle, maker, -usd, rub)
  BY DEF Settled, middle
<1>5. BalancesOf(users) \in [U -> Balance]
  BY DEF BalancesOf, Balance, UserType
<1>6. QED
  BY <1>1, <1>2, <1>3, <1>4, <1>5, ReceiveCommutes

-----------------------------------------------------------------------------
(* The steps *)

LEMMA InitClearing == Init => Abstract!ClearingInit
<1>1. SUFFICES ASSUME Init PROVE Abstract!ClearingInit
  OBVIOUS
<1>2. Balances = <<>>
  BY <1>1 DEF Init, TableInit, Balances
<1>3. OpenOrders = {}
  BY <1>1 DEF Init, OpenOrders, Quiescent, ToSet
<1>4. Len(orders) = 0
  BY <1>1 DEF Init
<1>5. QED
  BY <1>2, <1>3, <1>4 DEF Abstract!ClearingInit

\* What any other step comes to: nothing, an account opened, or an order submitted.
Rests == UNCHANGED <<Balances, OpenOrders, orders, closedDeals>>

Opens ==
    /\ Abstract!OpenAccount(1 + Cardinality(DOMAIN Balances))
    /\ UNCHANGED <<OpenOrders, orders, closedDeals>>

Submits(order) ==
    /\ order \in DealType /\ order.id = Len(orders) + 1
    /\ order.volume \in Volumes /\ order.price \in Prices
    /\ Abstract!Submit(order.type, order.uid, order.volume, order.price)
    /\ orders' = Append(orders, order)
    /\ UNCHANGED <<Balances, closedDeals>>

\* A step that leaves both books, the order in flight and the balances alone.
LEMMA StutterRests ==
    ASSUME UNCHANGED <<activeBuys, activeSells, incoming, orders, users, closedDeals>>
    PROVE  Rests
BY DEF Rests, Balances, GetUserBalance, OpenOrders, Quiescent

LEMMA RegisterOpens ==
    ASSUME IInv, NEW login \in Logins, NEW pass \in Passwords, RegisterNewUser(login, pass)
    PROVE  Opens \/ Rests
<1>1. UNCHANGED <<activeBuys, activeSells, incoming, orders, closedDeals>>
  BY DEF RegisterNewUser, bookVars
<1>2. CASE IsLoginInTable(login)
  <2>1. UNCHANGED users
    BY <1>2 DEF RegisterNewUser, tableVars
  <2>2. QED
    BY <1>1, <2>1, StutterRests
<1>3. CASE ~IsLoginInTable(login)
  <2>1. /\ users' = Put(users, maxUid, NewUser(login, pass))
        /\ users \in [1 .. (maxUid - 1) -> UserType] /\ maxUid \in Nat \ {0}
    BY <1>3 DEF RegisterNewUser, AddUser, IInv, TypeOK
  <2>2. DOMAIN Balances = 1 .. (maxUid - 1)
    BY <2>1 DEF Balances
  <2>3. 1 + Cardinality(DOMAIN Balances) = maxUid
    <3>1. Cardinality(1 .. (maxUid - 1)) = IF 1 > maxUid - 1 THEN 0 ELSE (maxUid - 1) - 1 + 1
      BY <2>1, FS_Interval
    <3>2. QED
      BY <2>1, <2>2, <3>1
  <2>4. maxUid \notin DOMAIN Balances
    BY <2>1, <2>2
  <2>5. Balances' = [u \in DOMAIN Balances \cup {maxUid} |->
                       IF u = maxUid THEN [usd |-> 0, rub |-> 0] ELSE Balances[u]]
    BY <2>1 DEF Balances, GetUserBalance, Put, NewUser
  <2>6. UNCHANGED <<OpenOrders, Len(orders)>>
    BY <1>1 DEF OpenOrders, Quiescent
  <2>7. Abstract!OpenAccount(maxUid)
    BY <2>4, <2>5, <2>6 DEF Abstract!OpenAccount
  <2>8. QED
    BY <1>1, <2>3, <2>6, <2>7 DEF Opens
<1>4. QED
  BY <1>2, <1>3

LEMMA SubmitSubmits ==
    ASSUME IInv, NEW type \in Sides, NEW uid \in DOMAIN users \cup ForeignUids,
           NEW volume \in Volumes, NEW cost \in Prices, Submit(type, uid, volume, cost)
    PROVE  \E order : order.uid = uid /\ Submits(order)
<1>1. /\ incoming = NoOrder /\ orders' = Append(orders, incoming')
      /\ incoming' = NewDeal(Len(orders) + 1, type, uid, volume, cost, clock')
      /\ UNCHANGED <<users, activeBuys, activeSells, closedDeals>>
  BY DEF Submit, tableVars
<1>2. IInv'
  BY SubmitIInv
<1>3. incoming' # NoOrder /\ ~incoming'.isClosed
  BY <1>1 DEF NewDeal, NoOrder
<1>4. incoming' \in DealType
  BY <1>2, <1>3 DEF IInv, TypeOK
<1>5. Len(orders') = Len(orders) + 1
  BY <1>4, <1>1, AppendProperties DEF IInv, TypeOK
<1>6. OpenOrders = Views(ToSet(activeBuys)) \cup Views(ToSet(activeSells)) \cup Views(InFlight)
  BY OpenOrdersSplit
<1>7. OpenOrders' = Views(ToSet(activeBuys)) \cup Views(ToSet(activeSells)) \cup Views(InFlight')
  BY <1>1, <1>2, OpenOrdersSplitNext
<1>8. InFlight = {} /\ InFlight' = {incoming'}
  BY <1>1, <1>3 DEF InFlight
<1>9. Views(InFlight) = {} /\ Views(InFlight') = {View(incoming')}
  BY <1>8 DEF Views
<1>10. View(incoming') = Abstract!OpenOrder(Len(orders'), type, uid, volume, cost)
  BY <1>1, <1>5 DEF View, NewDeal, Abstract!OpenOrder
<1>11. OpenOrders' = OpenOrders \cup {Abstract!OpenOrder(Len(orders'), type, uid, volume, cost)}
  BY <1>6, <1>7, <1>9, <1>10
<1>12. UNCHANGED Balances
  BY <1>1 DEF Balances, GetUserBalance
<1>13. Abstract!Submit(type, uid, volume, cost)
  BY <1>5, <1>11, <1>12 DEF Abstract!Submit
<1>14. PICK order : order = incoming'
  OBVIOUS
<1>15. /\ order.id = Len(orders) + 1 /\ order.type = type /\ order.uid = uid
       /\ order.volume = volume /\ order.price = cost
  BY <1>1, <1>14 DEF NewDeal
<1>16. Submits(order)
  BY <1>1, <1>4, <1>12, <1>13, <1>14, <1>15 DEF Submits
<1>17. QED
  BY <1>15, <1>16

\* The record of a fill of an order.
IsFill(fill, order, volume, price) ==
    /\ fill \in DealType
    /\ fill.id = order.id /\ fill.type = order.type /\ fill.uid = order.uid
    /\ fill.volume = volume /\ fill.price = price

\* What an iteration of a loop comes to: a trade between two open orders, and a
\* record of it in the history of each owner.
Settles(buy, sell, price) ==
    /\ buy \in OpenOrders /\ sell \in OpenOrders
    /\ price \in {buy.price, sell.price}
    /\ Abstract!TradeBetween(buy, sell, price)
    /\ UNCHANGED <<orders, DOMAIN users>>
    /\ \E first, second :
          /\ IsFill(first, buy, getDealVolume(buy, sell), price)
          /\ IsFill(second, sell, getDealVolume(buy, sell), price)
          /\ closedDeals' = Record(Record(closedDeals, first), second)

\* The records completeDeals makes of two orders.
LEMMA FillsOfOrders ==
    ASSUME NEW buy \in DealType, NEW sell \in DealType,
           NEW volume, volume = getDealVolume(buy, sell),
           NEW price, price = getDealPrice(buy, sell)
    PROVE  /\ IsFill(completeDeals(buy, sell).first, View(buy), volume, price)
           /\ IsFill(completeDeals(buy, sell).second, View(sell), volume, price)
<1>1. /\ completeDeals(buy, sell).first \in DealType
      /\ completeDeals(buy, sell).second \in DealType
  BY FillTypes
<1>2. /\ completeDeals(buy, sell).first = Filled(buy, volume, price)
      /\ completeDeals(buy, sell).second = Filled(sell, volume, price)
  BY DEF completeDeals
<1>3. ASSUME NEW deal \in DealType, Filled(deal, volume, price) \in DealType
      PROVE  IsFill(Filled(deal, volume, price), View(deal), volume, price)
  BY <1>3 DEF IsFill, Filled, View, DealType
<1>4. QED
  BY <1>1, <1>2, <1>3

LEMMA MatchBuySettles ==
    ASSUME IInv, OrdersFollowed, MatchBuy
    PROVE  \E buy, sell, price : Settles(buy, sell, price)
<1> DEFINE sell == Head(activeSells)
           volume == getDealVolume(incoming, sell)
           price == getDealPrice(incoming, sell)
           rest == Reduced(sell, volume)
           others == ToSet(activeBuys)
<1>1. /\ activeSells \in Seq(Resting("sell")) /\ Sorted(activeSells) /\ activeSells # <<>>
      /\ activeBuys \in Seq(Resting("buy")) /\ Distinct(activeSells)
      /\ incoming \in DealType /\ incoming # NoOrder /\ ~incoming.isClosed
      /\ incoming.type = "buy" /\ incoming.price >= sell.price
      /\ users \in [DOMAIN users -> UserType]
  BY DEF IInv, TypeOK, BooksSorted, OrdersFollowed, MatchBuy, BuyMatches, NoOrder, IsCompatible
<1>2. sell \in DealType /\ sell.type = "sell" /\ ~sell.isClosed /\ sell \in ToSet(activeSells)
  BY <1>1, TailProperties, TailElements DEF Resting, Sides
<1>3. volume \in Int /\ price \in Int /\ price * volume \in Int
  BY <1>1, <1>2, FillTypes
<1>4. /\ users' = Settled(incoming.uid, sell.uid, volume, price * volume)
      /\ activeSells' = IF rest.isClosed THEN Tail(activeSells)
                                         ELSE Insert(Tail(activeSells), CopyOf(rest))
      /\ incoming' = Reduced(incoming, volume)
      /\ UNCHANGED <<activeBuys, orders>>
      /\ incoming.uid \in DOMAIN users /\ sell.uid \in DOMAIN users
  BY DEF MatchBuy, completeDeals
<1>5. volume = (IF View(sell).volume < View(incoming).volume
                THEN View(sell).volume ELSE View(incoming).volume)
  BY DEF getDealVolume, View
<1>6. /\ View(sell).price <= price /\ price <= View(incoming).price
      /\ price \in {View(incoming).price, View(sell).price}
      /\ View(sell).type = "sell" /\ View(incoming).type = "buy"
      /\ View(sell).uid = sell.uid /\ View(incoming).uid = incoming.uid
  BY <1>1, <1>2 DEF getDealPrice, View, DealType
<1> HIDE DEF volume, price
<1>7. IInv'
  BY MatchBuyIInv
<1>8. \A d \in others : d.type # "sell"
  BY <1>1, BookElements
<1> HIDE DEF others
<1>9. Views(others) \cup Views(ToSet(activeSells')) \cup Views(InFlight')
        = ((Views(others) \cup Views(ToSet(activeSells)) \cup Views(InFlight))
             \ {View(sell), View(incoming)})
            \cup Abstract!Rest(View(sell), volume)
            \cup Abstract!Rest(View(incoming), volume)
  BY <1>1, <1>3, <1>4, <1>8, MatchOpen DEF others, Sides
<1>10. OpenOrders = Views(others) \cup Views(ToSet(activeSells)) \cup Views(InFlight)
  BY OpenOrdersSplit DEF others
<1>11. OpenOrders' = Views(others) \cup Views(ToSet(activeSells')) \cup Views(InFlight')
  BY <1>4, <1>7, OpenOrdersSplitNext DEF others
<1>12. View(incoming) \in OpenOrders /\ View(sell) \in OpenOrders
  BY <1>1, <1>2, <1>10 DEF Views, InFlight
<1>13. OpenOrders' = (OpenOrders \ {View(incoming), View(sell)})
                       \cup Abstract!Rest(View(incoming), volume)
                       \cup Abstract!Rest(View(sell), volume)
  BY <1>9, <1>10, <1>11
<1>14. Balances' = Abstract!Receive(Abstract!Receive(Balances, incoming.uid, volume, -price * volume),
                                    sell.uid, -volume, price * volume)
  <2>1. Balances = BalancesOf(users) /\ Balances' = BalancesOf(users')
    BY DEF Balances, BalancesOf, GetUserBalance
  <2>2. BalancesOf(users') =
            Abstract!Receive(Abstract!Receive(BalancesOf(users), incoming.uid, volume,
                                              -(price * volume)),
                             sell.uid, -volume, price * volume)
    BY <1>1, <1>3, <1>4, SettledBalances
  <2>3. -price * volume = -(price * volume)
    BY <1>3
  <2>4. QED
    BY <2>1, <2>2, <2>3
<1>15. DOMAIN Balances = DOMAIN users
  BY DEF Balances
<1>16. Abstract!TradeBetween(View(incoming), View(sell), price)
  BY <1>4, <1>5, <1>6, <1>13, <1>14, <1>15 DEF Abstract!TradeBetween
<1> DEFINE deals == completeDeals(incoming, sell)
<1>17. closedDeals' = Record(Record(closedDeals, deals.first), deals.second)
  BY DEF MatchBuy
<1>18. /\ IsFill(deals.first, View(incoming), volume, price)
       /\ IsFill(deals.second, View(sell), volume, price)
  BY <1>1, <1>2, FillsOfOrders DEF volume, price
<1>19. DOMAIN users' = DOMAIN users
  <2>1. users' \in [DOMAIN users -> UserType]
    BY <1>1, <1>3, <1>4, SettledType
  <2>2. QED
    BY <2>1
<1> HIDE DEF deals
<1>20. QED
  <2>1. volume = getDealVolume(View(incoming), View(sell))
    BY <1>5 DEF getDealVolume
  <2>2. QED
    BY <1>4, <1>5, <1>6, <1>12, <1>16, <1>17, <1>18, <1>19, <2>1 DEF Settles

LEMMA MatchSellSettles ==
    ASSUME IInv, OrdersFollowed, MatchSell
    PROVE  \E buy, sell, price : Settles(buy, sell, price)
<1> DEFINE buy == Head(activeBuys)
           volume == getDealVolume(buy, incoming)
           price == getDealPrice(buy, incoming)
           rest == Reduced(buy, volume)
           others == ToSet(activeSells)
<1>1. /\ activeBuys \in Seq(Resting("buy")) /\ Sorted(activeBuys) /\ activeBuys # <<>>
      /\ activeSells \in Seq(Resting("sell")) /\ Distinct(activeBuys)
      /\ incoming \in DealType /\ incoming # NoOrder /\ ~incoming.isClosed
      /\ incoming.type = "sell" /\ buy.price >= incoming.price
      /\ users \in [DOMAIN users -> UserType]
  BY DEF IInv, TypeOK, BooksSorted, OrdersFollowed, MatchSell, SellMatches, NoOrder, IsCompatible
<1>2. buy \in DealType /\ buy.type = "buy" /\ ~buy.isClosed /\ buy \in ToSet(activeBuys)
  BY <1>1, TailProperties, TailElements DEF Resting, Sides
<1>3. volume \in Int /\ price \in Int /\ price * volume \in Int /\ -volume \in Int
      /\ -price * volume \in Int /\ -price * volume = -(price * volume)
      /\ -(-price * volume) = price * volume /\ -(-volume) = volume
  BY <1>1, <1>2, FillTypes
<1>4. /\ users' = Settled(incoming.uid, buy.uid, -volume, -price * volume)
      /\ activeBuys' = IF rest.isClosed THEN Tail(activeBuys)
                                        ELSE Insert(Tail(activeBuys), CopyOf(rest))
      /\ incoming' = Reduced(incoming, volume)
      /\ UNCHANGED <<activeSells, orders>>
      /\ incoming.uid \in DOMAIN users /\ buy.uid \in DOMAIN users
  BY DEF MatchSell, completeDeals
<1>5. volume = (IF View(incoming).volume < View(buy).volume
                THEN View(incoming).volume ELSE View(buy).volume)
  BY DEF getDealVolume, View
<1>6. /\ View(incoming).price <= price /\ price <= View(buy).price
      /\ price \in {View(buy).price, View(incoming).price}
      /\ View(incoming).type = "sell" /\ View(buy).type = "buy"
      /\ View(buy).uid = buy.uid /\ View(incoming).uid = incoming.uid
  BY <1>1, <1>2 DEF getDealPrice, View, DealType
<1> HIDE DEF volume, price
<1>7. IInv'
  BY MatchSellIInv
<1>8. \A d \in others : d.type # "buy"
  BY <1>1, BookElements
<1> HIDE DEF others
<1>9. Views(others) \cup Views(ToSet(activeBuys')) \cup Views(InFlight')
        = ((Views(others) \cup Views(ToSet(activeBuys)) \cup Views(InFlight))
             \ {View(buy), View(incoming)})
            \cup Abstract!Rest(View(buy), volume)
            \cup Abstract!Rest(View(incoming), volume)
  BY <1>1, <1>3, <1>4, <1>8, MatchOpen DEF others, Sides
<1>10. OpenOrders = Views(others) \cup Views(ToSet(activeBuys)) \cup Views(InFlight)
  BY OpenOrdersSplit DEF others
<1>11. OpenOrders' = Views(others) \cup Views(ToSet(activeBuys')) \cup Views(InFlight')
  BY <1>4, <1>7, OpenOrdersSplitNext DEF others
<1>12. View(incoming) \in OpenOrders /\ View(buy) \in OpenOrders
  BY <1>1, <1>2, <1>10 DEF Views, InFlight
<1>13. OpenOrders' = (OpenOrders \ {View(buy), View(incoming)})
                       \cup Abstract!Rest(View(buy), volume)
                       \cup Abstract!Rest(View(incoming), volume)
  BY <1>9, <1>10, <1>11
<1>14. Balances' = Abstract!Receive(Abstract!Receive(Balances, buy.uid, volume, -price * volume),
                                    incoming.uid, -volume, price * volume)
  <2>1. Balances = BalancesOf(users) /\ Balances' = BalancesOf(users')
    BY DEF Balances, BalancesOf, GetUserBalance
  <2>2. BalancesOf(users') =
            Abstract!Receive(Abstract!Receive(BalancesOf(users), buy.uid, -(-volume),
                                              -price * volume),
                             incoming.uid, -volume, -(-price * volume))
    BY <1>1, <1>3, <1>4, SettledBalances
  <2>3. QED
    BY <1>3, <2>1, <2>2
<1>15. DOMAIN Balances = DOMAIN users
  BY DEF Balances
<1>16. Abstract!TradeBetween(View(buy), View(incoming), price)
  BY <1>4, <1>5, <1>6, <1>13, <1>14, <1>15 DEF Abstract!TradeBetween
<1> DEFINE deals == completeDeals(buy, incoming)
<1>17. closedDeals' = Record(Record(closedDeals, deals.first), deals.second)
  BY DEF MatchSell
<1>18. /\ IsFill(deals.first, View(buy), volume, price)
       /\ IsFill(deals.second, View(incoming), volume, price)
  BY <1>1, <1>2, FillsOfOrders DEF volume, price
<1>19. DOMAIN users' = DOMAIN users
  <2>1. users' \in [DOMAIN users -> UserType]
    BY <1>1, <1>3, <1>4, SettledType
  <2>2. QED
    BY <2>1
<1> HIDE DEF deals
<1>20. QED
  <2>1. volume = getDealVolume(View(buy), View(incoming))
    BY <1>5 DEF getDealVolume
  <2>2. QED
    BY <1>4, <1>5, <1>6, <1>12, <1>16, <1>17, <1>18, <1>19, <2>1 DEF Settles

\* Resting the remainder moves it from the call into a book: the same order is open.
LEMMA FinishRests ==
    ASSUME IInv, FinishBuy \/ FinishSell
    PROVE  Rests
<1>1. /\ activeBuys \in Seq(Resting("buy")) /\ Sorted(activeBuys)
      /\ activeSells \in Seq(Resting("sell")) /\ Sorted(activeSells)
      /\ incoming \in DealType /\ incoming # NoOrder
      /\ "buy" \in Sides /\ "sell" \in Sides
  BY DEF IInv, TypeOK, BooksSorted, FinishBuy, FinishSell, NoOrder, Sides
<1>2. IInv'
  BY FinishBuyIInv, FinishSellIInv
<1>3. incoming' = NoOrder /\ UNCHANGED <<users, orders, closedDeals>>
  BY DEF FinishBuy, FinishSell, tableVars
<1>4. OpenOrders = Views(ToSet(activeBuys)) \cup Views(ToSet(activeSells)) \cup Views(InFlight)
  BY OpenOrdersSplit
<1>5. OpenOrders' = Views(ToSet(activeBuys')) \cup Views(ToSet(activeSells')) \cup Views(InFlight')
  BY <1>2, OpenOrdersSplitNext
<1>6. InFlight' = {} /\ Views({}) = {}
  BY <1>3 DEF InFlight, Views
<1>7. CASE incoming.isClosed
  <2>1. InFlight = {} /\ UNCHANGED <<activeBuys, activeSells>>
    BY <1>7 DEF InFlight, FinishBuy, FinishSell
  <2>2. QED
    BY <1>3, <1>4, <1>5, <1>6, <2>1 DEF Rests, Balances, GetUserBalance
<1>8. CASE ~incoming.isClosed
  <2> DEFINE copy == CopyOf(incoming)
  <2>1. InFlight = {incoming} /\ Views({incoming}) = {View(incoming)}
    BY <1>1, <1>8 DEF InFlight, Views
  <2>2. /\ View(copy) = View(incoming) /\ ~copy.isClosed
        /\ \A side \in Sides : incoming.type = side => copy \in Resting(side)
    BY <1>1, CopyTypes DEF View, CopyOf, DealType, Resting
  <2> HIDE DEF copy
  <2>3. \A A, B : Views(A \cup B) = Views(A) \cup Views(B)
    BY DEF Views
  <2>4. Views({copy}) = {View(incoming)}
    BY <2>2 DEF Views
  <2>5. CASE FinishBuy
    <3>1. activeBuys' = Insert(activeBuys, copy) /\ UNCHANGED activeSells
          /\ copy \in Resting("buy")
      BY <1>1, <1>8, <2>2, <2>5 DEF FinishBuy, copy
    <3>2. ToSet(activeBuys') = ToSet(activeBuys) \cup {copy}
      BY <1>1, <3>1, InsertElements
    <3>3. QED
      BY <1>3, <1>4, <1>5, <1>6, <2>1, <2>3, <2>4, <3>1, <3>2
      DEF Rests, Balances, GetUserBalance
  <2>6. CASE FinishSell
    <3>1. activeSells' = Insert(activeSells, copy) /\ UNCHANGED activeBuys
          /\ copy \in Resting("sell")
      BY <1>1, <1>8, <2>2, <2>6 DEF FinishSell, copy
    <3>2. ToSet(activeSells') = ToSet(activeSells) \cup {copy}
      BY <1>1, <3>1, InsertElements
    <3>3. QED
      BY <1>3, <1>4, <1>5, <1>6, <2>1, <2>3, <2>4, <3>1, <3>2
      DEF Rests, Balances, GetUserBalance
  <2>7. QED
    BY <2>5, <2>6
<1>9. QED
  BY <1>7, <1>8

\* Every step but the early return of a loop.
LEMMA NextSteps ==
    ASSUME IInv, OrdersFollowed, [Next]_vars
    PROVE  \/ Rests \/ Opens
           \/ \E order : order.uid \in DOMAIN users \cup ForeignUids /\ Submits(order)
           \/ \E buy, sell, price : Settles(buy, sell, price)
           \/ RejectBuy \/ RejectSell
<1>1. CASE Account
  <2>1. ASSUME NEW login \in Logins, NEW pass \in Passwords, TryLogin(login, pass)
        PROVE  Rests
    BY <2>1, StutterRests DEF TryLogin, tableVars, bookVars
  <2>2. QED
    BY <1>1, <2>1, RegisterOpens DEF Account
<1>2. CASE Trade
  <2>1. PICK type \in Sides, uid \in DOMAIN users \cup ForeignUids, volume \in Volumes,
             cost \in Prices : Submit(type, uid, volume, cost)
    BY <1>2 DEF Trade, TryBuy, TrySell, Sides
  <2>2. QED
    BY <2>1, SubmitSubmits
<1>3. CASE MatchBuy \/ MatchSell
  BY <1>3, MatchBuySettles, MatchSellSettles
<1>4. CASE FinishBuy \/ FinishSell
  BY <1>4, FinishRests
<1>5. CASE UNCHANGED vars
  BY <1>5, StutterRests DEF vars, tableVars, bookVars
<1>6. QED
  BY <1>1, <1>2, <1>3, <1>4, <1>5 DEF Next, Run

\* When all requests carry the uid of an account, no loop is left early.
LEMMA OwnedSteps ==
    ASSUME ForeignUids = {}, IInv, OrdersFollowed, OrdersOwned, [Next]_vars
    PROVE  \/ Rests \/ Opens
           \/ \E order : order.uid \in DOMAIN users /\ Submits(order)
           \/ \E buy, sell, price : Settles(buy, sell, price)
<1>1. ~RejectBuy /\ ~RejectSell
  <2>1. /\ activeBuys \in Seq(Resting("buy")) /\ Sorted(activeBuys) /\ Distinct(activeBuys)
        /\ activeSells \in Seq(Resting("sell")) /\ Sorted(activeSells) /\ Distinct(activeSells)
        /\ "buy" \in Sides /\ "sell" \in Sides
    BY DEF IInv, TypeOK, BooksSorted, OrdersFollowed, Sides
  <2>2. /\ activeBuys # <<>> => Head(activeBuys) \in ToSet(activeBuys)
        /\ activeSells # <<>> => Head(activeSells) \in ToSet(activeSells)
    BY <2>1, TailElements
  <2>3. QED
    BY <2>2, TradersHaveAccounts DEF RejectBuy, BuyMatches, RejectSell, SellMatches, NoOrder
<1>2. QED
  BY <1>1, NextSteps

LEMMA NextClearing ==
    ASSUME ForeignUids = {}, IInv, OrdersFollowed, OrdersOwned, [Next]_vars
    PROVE  [Abstract!ClearingNext]_(Abstract!clearingVars)
<1>1. CASE Rests
  BY <1>1 DEF Rests, Abstract!clearingVars
<1>2. CASE Opens
  BY <1>2 DEF Opens, Abstract!ClearingNext, Abstract!Cardinality, Cardinality,
              Abstract!IsFiniteSet, IsFiniteSet
<1>3. ASSUME NEW order, order.uid \in DOMAIN users, Submits(order) PROVE Abstract!ClearingNext
  <2>1. order.type \in {"buy", "sell"} /\ order.uid \in DOMAIN Balances
    BY <1>3 DEF Submits, DealType, Sides, Balances
  <2>2. QED
    BY <1>3, <2>1 DEF Submits, Abstract!ClearingNext
<1>4. ASSUME NEW buy, NEW sell, NEW price, Settles(buy, sell, price)
      PROVE  Abstract!ClearingNext
  BY <1>4 DEF Settles, Abstract!ClearingNext
<1>5. QED
  BY <1>1, <1>2, <1>3, <1>4, OwnedSteps

-----------------------------------------------------------------------------
(* The theorems *)

LEMMA OwnedInvariant ==
    ASSUME ForeignUids = {}
    PROVE  Spec => [](IInv /\ OrdersFollowed /\ OrdersOwned)
<1>1. Init => OrdersOwned
  BY DEF Init, OrdersOwned
<1>2. IInv /\ OrdersOwned /\ [Next]_vars => OrdersOwned'
  BY NextOwned
<1>3. QED
  BY <1>1, <1>2, InitIInv, NextIInv, InitFollowed, NextFollowed, PTL DEF Spec

\* When every request carries the uid of an account, the engine implements
\* Clearing: money and orders change only by an account opened, an order
\* submitted, or one whole trade between two open orders at a price both accept
\* (core.cpp:12-28, 37-100).
THEOREM CoreImplementsClearing ==
    ASSUME ForeignUids = {}
    PROVE  Spec => ImplementsClearing
<1>1. IInv /\ OrdersFollowed /\ OrdersOwned /\ [Next]_vars
        => [Abstract!ClearingNext]_(Abstract!clearingVars)
  BY NextClearing
<1>2. QED
  BY <1>1, InitClearing, OwnedInvariant, PTL DEF Spec, ImplementsClearing, Abstract!ClearingSpec

=============================================================================
