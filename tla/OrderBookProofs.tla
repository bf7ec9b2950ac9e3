--------------------------- MODULE OrderBookProofs ---------------------------
(***************************************************************************)
(* Theorems about OrderBook, for any prices, any length of the display and *)
(* any number of orders.                                                   *)
(*                                                                         *)
(* The two books hold their orders in different places, so what they have  *)
(* in common is said by a pairing of their positions that respects the     *)
(* price.  Every call can be followed in the pairing: where an order goes  *)
(* in or comes out, the positions behind it move by one.                   *)
(***************************************************************************)
EXTENDS OrderBook, SequenceTheorems, FunctionTheorems, FiniteSetTheorems,
        WellFoundedInduction, TLAPS

-----------------------------------------------------------------------------
(* A book and the same book with one order more *)

LEMMA BookTypes ==
    ASSUME NEW s \in Seq(Orders)
    PROVE  /\ Len(s) \in Nat /\ DOMAIN s = 1 .. Len(s)
           /\ \A i \in 1 .. Len(s) : /\ s[i] \in Orders
                                     /\ s[i].price \in Int /\ s[i].number \in Int
<1>1. \A i \in 1 .. Len(s) : s[i] \in Orders
  BY ElementOfSeq
<1>2. ASSUME NEW o \in Orders PROVE o.price \in Int /\ o.number \in Int
  <2>1. o.price \in Prices /\ o.number \in 1 .. MaxOrders
    BY DEF Orders
  <2>2. Prices \subseteq Int /\ MaxOrders \in Int
    BY OrderBookAssumption
  <2>3. o.price \in Int
    BY <2>1, <2>2
  <2>4. o.number \in Int
    BY <2>1, <2>2
  <2>5. QED
    BY <2>3, <2>4
<1>3. Len(s) \in Nat /\ DOMAIN s = 1 .. Len(s)
  BY LenProperties
<1>4. QED
  BY <1>1, <1>2, <1>3

\* The place in the longer book of an order that is i-th in the shorter, when the
\* additional order is k-th; and the way back.
Skip(k, i) == IF i < k THEN i ELSE i + 1
Unskip(k, i) == IF i < k THEN i ELSE i - 1

LEMMA SkipUnskip ==
    ASSUME NEW n \in Nat, NEW k \in 1 .. n + 1
    PROVE  /\ \A i \in 1 .. n : /\ Skip(k, i) \in (1 .. n + 1) \ {k}
                                /\ Unskip(k, Skip(k, i)) = i
           /\ \A i \in (1 .. n + 1) \ {k} : /\ Unskip(k, i) \in 1 .. n
                                            /\ Skip(k, Unskip(k, i)) = i
           /\ \A i, j \in 1 .. n : i < j => Skip(k, i) < Skip(k, j)
BY DEF Skip, Unskip

\* The shorter book is the longer one without its k-th order.
Longer(long, short, k) ==
    /\ long \in Seq(Orders) /\ short \in Seq(Orders)
    /\ Len(long) = Len(short) + 1 /\ k \in 1 .. Len(long)
    /\ \A i \in 1 .. Len(short) : short[i] = long[Skip(k, i)]

LEMMA ConcatAt ==
    ASSUME NEW a \in Seq(Orders), NEW b \in Seq(Orders)
    PROVE  /\ a \o b \in Seq(Orders) /\ Len(a \o b) = Len(a) + Len(b)
           /\ \A i \in 1 .. Len(a) : (a \o b)[i] = a[i]
           /\ \A i \in 1 .. Len(b) : (a \o b)[Len(a) + i] = b[i]
<1>1. Len(a) \in Nat /\ Len(b) \in Nat
  BY LenProperties
<1>2. /\ a \o b \in Seq(Orders) /\ Len(a \o b) = Len(a) + Len(b)
      /\ \A i \in 1 .. Len(a) + Len(b) : (a \o b)[i] = IF i <= Len(a) THEN a[i] ELSE b[i - Len(a)]
  BY ConcatProperties
<1>3. ASSUME NEW i \in 1 .. Len(b) PROVE (a \o b)[Len(a) + i] = b[i]
  <2>1. /\ Len(a) + i \in 1 .. Len(a) + Len(b) /\ ~(Len(a) + i <= Len(a))
        /\ (Len(a) + i) - Len(a) = i
    BY <1>1
  <2>2. QED
    BY <1>2, <2>1
<1>4. ASSUME NEW i \in 1 .. Len(a) PROVE (a \o b)[i] = a[i]
  <2>1. i \in 1 .. Len(a) + Len(b) /\ i <= Len(a)
    BY <1>1
  <2>2. QED
    BY <1>2, <2>1
<1>5. QED
  BY <1>2, <1>3, <1>4

LEMMA SubSeqAt ==
    ASSUME NEW s \in Seq(Orders), NEW m \in Nat, NEW n \in Nat,
           1 <= m, m <= n + 1, n <= Len(s)
    PROVE  /\ SubSeq(s, m, n) \in Seq(Orders) /\ Len(SubSeq(s, m, n)) = n + 1 - m
           /\ \A i \in 1 .. n + 1 - m : SubSeq(s, m, n)[i] = s[m + i - 1]
<1> DEFINE a == SubSeq(s, m, n)
<1>1. \A i \in m .. n : s[i] \in Orders
  <2>1. Len(s) \in Nat
    BY LenProperties
  <2>2. \A i \in m .. n : i \in 1 .. Len(s)
    BY <2>1
  <2>3. QED
    BY <2>2, ElementOfSeq
<1>2. /\ a \in Seq(Orders) /\ Len(a) = IF m <= n THEN n - m + 1 ELSE 0
      /\ \A i \in 1 .. n - m + 1 : a[i] = s[m + i - 1]
  BY <1>1, SubSeqProperties
<1> HIDE DEF a
<1>3. n - m + 1 = n + 1 - m /\ (m <= n \/ n + 1 - m = 0)
  OBVIOUS
<1>4. Len(a) = n + 1 - m
  <2>1. CASE m <= n
    BY <1>2, <1>3, <2>1
  <2>2. CASE ~(m <= n)
    BY <1>2, <1>3, <2>2
  <2>3. QED
    BY <2>1, <2>2
<1>5. QED
  BY <1>2, <1>3, <1>4 DEF a

LEMMA RemoveAtShortens ==
    ASSUME NEW s \in Seq(Orders), NEW k \in 1 .. Len(s)
    PROVE  Longer(s, RemoveAt(s, k), k)
<1> DEFINE a == SubSeq(s, 1, k - 1)
           b == SubSeq(s, k + 1, Len(s))
<1>1. Len(s) \in Nat /\ k \in Nat /\ 1 <= k /\ k <= Len(s)
  BY LenProperties
<1>2. /\ a \in Seq(Orders) /\ Len(a) = k - 1
      /\ \A i \in 1 .. k - 1 : a[i] = s[i]
  <2>1. /\ a \in Seq(Orders) /\ Len(a) = k - 1 + 1 - 1
        /\ \A i \in 1 .. k - 1 + 1 - 1 : a[i] = s[1 + i - 1]
    BY <1>1, SubSeqAt
  <2> HIDE DEF a
  <2>2. QED
    BY <1>1, <2>1
<1>3. /\ b \in Seq(Orders) /\ Len(b) = Len(s) - k
      /\ \A i \in 1 .. Len(s) - k : b[i] = s[k + i]
  <2>1. /\ b \in Seq(Orders) /\ Len(b) = Len(s) + 1 - (k + 1)
        /\ \A i \in 1 .. Len(s) + 1 - (k + 1) : b[i] = s[k + 1 + i - 1]
    BY <1>1, SubSeqAt
  <2> HIDE DEF b
  <2>2. QED
    BY <1>1, <2>1
<1> HIDE DEF a, b
<1>4. PICK short : short = a \o b
  OBVIOUS
<1>5. /\ short \in Seq(Orders) /\ Len(short) = (k - 1) + (Len(s) - k)
      /\ \A i \in 1 .. k - 1 : short[i] = a[i]
      /\ \A i \in 1 .. Len(s) - k : short[k - 1 + i] = b[i]
  <2>1. /\ short \in Seq(Orders) /\ Len(short) = Len(a) + Len(b)
        /\ \A i \in 1 .. Len(a) : short[i] = a[i]
        /\ \A i \in 1 .. Len(b) : short[Len(a) + i] = b[i]
    BY <1>2, <1>3, <1>4, ConcatAt
  <2>2. Len(a) = k - 1 /\ Len(b) = Len(s) - k
    BY <1>2, <1>3
  <2>3. QED
    BY <2>1, <2>2, Zenon
<1>6. Len(short) = Len(s) - 1
  BY <1>1, <1>5
<1>7. ASSUME NEW i \in 1 .. Len(s) - 1 PROVE short[i] = s[Skip(k, i)]
  <2>1. CASE i < k
    BY <1>1, <1>2, <1>5, <2>1 DEF Skip
  <2>2. CASE ~(i < k)
    <3>1. PICK j : j = i - k + 1
      OBVIOUS
    <3>2. j \in 1 .. Len(s) - k /\ k - 1 + j = i /\ k + j = i + 1
      BY <1>1, <2>2, <3>1
    <3>3. short[i] = b[j] /\ b[j] = s[i + 1]
      BY <1>3, <1>5, <3>2
    <3>4. QED
      BY <2>2, <3>3 DEF Skip
  <2>3. QED
    BY <2>1, <2>2
<1>8. short = RemoveAt(s, k)
  BY <1>4 DEF RemoveAt, a, b
<1>9. QED
  BY <1>1, <1>5, <1>6, <1>7, <1>8 DEF Longer

LEMMA InsertAtLengthens ==
    ASSUME NEW s \in Seq(Orders), NEW k \in 1 .. Len(s) + 1, NEW order \in Orders
    PROVE  /\ Longer(InsertAt(s, k, order), s, k)
           /\ InsertAt(s, k, order)[k] = order
<1> DEFINE a == SubSeq(s, 1, k - 1)
           b == SubSeq(s, k, Len(s))
<1>1. Len(s) \in Nat /\ k \in Nat /\ 1 <= k /\ k <= Len(s) + 1
  BY LenProperties
<1>2. /\ a \in Seq(Orders) /\ Len(a) = k - 1
      /\ \A i \in 1 .. k - 1 : a[i] = s[i]
  <2>1. /\ a \in Seq(Orders) /\ Len(a) = k - 1 + 1 - 1
        /\ \A i \in 1 .. k - 1 + 1 - 1 : a[i] = s[1 + i - 1]
    BY <1>1, SubSeqAt
  <2> HIDE DEF a
  <2>2. QED
    BY <1>1, <2>1
<1>3. /\ b \in Seq(Orders) /\ Len(b) = Len(s) + 1 - k
      /\ \A i \in 1 .. Len(s) + 1 - k : b[i] = s[k + i - 1]
  BY <1>1, SubSeqAt
<1> HIDE DEF a, b
<1>4. PICK one : one = <<order>>
  OBVIOUS
<1>5. one \in Seq(Orders) /\ Len(one) = 1 /\ one[1] = order
  BY <1>4
<1>6. PICK upto : upto = a \o one
  OBVIOUS
<1>7. /\ upto \in Seq(Orders) /\ Len(upto) = k
      /\ \A i \in 1 .. k - 1 : upto[i] = s[i]
      /\ upto[k] = order
  <2>1. /\ upto \in Seq(Orders) /\ Len(upto) = Len(a) + Len(one)
        /\ \A i \in 1 .. Len(a) : upto[i] = a[i]
        /\ \A i \in 1 .. Len(one) : upto[Len(a) + i] = one[i]
    BY <1>2, <1>5, <1>6, ConcatAt
  <2>2. Len(a) = k - 1 /\ Len(one) = 1 /\ Len(a) + 1 = k /\ 1 \in 1 .. 1
    BY <1>1, <1>2, <1>5
  <2>3. QED
    BY <1>2, <1>5, <2>1, <2>2
<1>8. PICK long : long = upto \o b
  OBVIOUS
<1>9. /\ long \in Seq(Orders) /\ Len(long) = k + (Len(s) + 1 - k)
      /\ \A i \in 1 .. k : long[i] = upto[i]
      /\ \A i \in 1 .. Len(s) + 1 - k : long[k + i] = b[i]
  <2>1. /\ long \in Seq(Orders) /\ Len(long) = Len(upto) + Len(b)
        /\ \A i \in 1 .. Len(upto) : long[i] = upto[i]
        /\ \A i \in 1 .. Len(b) : long[Len(upto) + i] = b[i]
    BY <1>3, <1>7, <1>8, ConcatAt
  <2>2. Len(upto) = k /\ Len(b) = Len(s) + 1 - k
    BY <1>3, <1>7
  <2>3. QED
    BY <2>1, <2>2, Zenon
<1>10. Len(long) = Len(s) + 1 /\ long[k] = order
  BY <1>1, <1>7, <1>9
<1>11. ASSUME NEW i \in 1 .. Len(s) PROVE s[i] = long[Skip(k, i)]
  <2>1. CASE i < k
    BY <1>1, <1>7, <1>9, <2>1 DEF Skip
  <2>2. CASE ~(i < k)
    <3>1. i + 1 - k \in 1 .. Len(s) + 1 - k /\ k + (i + 1 - k) = i + 1 /\ k + (i + 1 - k) - 1 = i
      BY <1>1, <2>2
    <3>2. QED
      BY <1>3, <1>9, <2>2, <3>1 DEF Skip
  <2>3. QED
    BY <2>1, <2>2
<1>12. long = InsertAt(s, k, order)
  BY <1>4, <1>6, <1>8 DEF InsertAt, a, b
<1>13. QED
  BY <1>1, <1>9, <1>10, <1>11, <1>12 DEF Longer

LEMMA AppendLengthens ==
    ASSUME NEW s \in Seq(Orders), NEW order \in Orders
    PROVE  /\ Longer(Append(s, order), s, Len(s) + 1)
           /\ Append(s, order)[Len(s) + 1] = order
<1>1. Len(s) \in Nat
  BY LenProperties
<1>2. /\ Append(s, order) \in Seq(Orders) /\ Len(Append(s, order)) = Len(s) + 1
      /\ \A i \in 1 .. Len(s) : Append(s, order)[i] = s[i]
      /\ Append(s, order)[Len(s) + 1] = order
  BY AppendProperties
<1>3. \A i \in 1 .. Len(s) : Skip(Len(s) + 1, i) = i
  BY <1>1 DEF Skip
<1>4. QED
  BY <1>1, <1>2, <1>3 DEF Longer

\* Orders are still distinct when one is taken out, or when one comes in that was not
\* there.
LEMMA ShorterInjective ==
    ASSUME NEW long, NEW short, NEW k, Longer(long, short, k), IsInjective(long)
    PROVE  IsInjective(short)
<1>1. Len(short) \in Nat /\ DOMAIN short = 1 .. Len(short) /\ DOMAIN long = 1 .. Len(short) + 1
      /\ k \in 1 .. Len(short) + 1
  BY LenProperties DEF Longer
<1>2. \A i, j \in 1 .. Len(short) : Skip(k, i) = Skip(k, j) => i = j
  BY <1>1 DEF Skip
<1>3. \A i \in 1 .. Len(short) : Skip(k, i) \in 1 .. Len(short) + 1 /\ short[i] = long[Skip(k, i)]
  BY <1>1, SkipUnskip DEF Longer
<1>4. QED
  BY <1>1, <1>2, <1>3 DEF IsInjective

LEMMA LongerElements ==
    ASSUME NEW long, NEW short, NEW k, Longer(long, short, k)
    PROVE  /\ Len(short) \in Nat /\ k \in 1 .. Len(short) + 1
           /\ DOMAIN short = 1 .. Len(short) /\ DOMAIN long = 1 .. Len(short) + 1
           /\ \A i \in DOMAIN short : /\ Skip(k, i) \in DOMAIN long \ {k}
                                      /\ Unskip(k, Skip(k, i)) = i
                                      /\ short[i] = long[Skip(k, i)]
           /\ \A i \in DOMAIN long \ {k} : /\ Unskip(k, i) \in DOMAIN short
                                           /\ Skip(k, Unskip(k, i)) = i
                                           /\ long[i] = short[Unskip(k, i)]
<1>1. Len(short) \in Nat /\ DOMAIN short = 1 .. Len(short) /\ DOMAIN long = 1 .. Len(short) + 1
      /\ k \in 1 .. Len(short) + 1
  BY LenProperties DEF Longer
<1>2. ASSUME NEW i \in DOMAIN short
      PROVE  /\ Skip(k, i) \in DOMAIN long \ {k} /\ Unskip(k, Skip(k, i)) = i
             /\ short[i] = long[Skip(k, i)]
  BY <1>1, SkipUnskip DEF Longer
<1>3. ASSUME NEW i \in DOMAIN long \ {k}
      PROVE  /\ Unskip(k, i) \in DOMAIN short /\ Skip(k, Unskip(k, i)) = i
             /\ long[i] = short[Unskip(k, i)]
  <2>1. i \in (1 .. Len(short) + 1) \ {k}
    BY <1>1
  <2>2. Unskip(k, i) \in DOMAIN short /\ Skip(k, Unskip(k, i)) = i
    BY <1>1, <2>1, SkipUnskip
  <2>3. QED
    BY <1>2, <2>2
<1>4. QED
  BY <1>1, <1>2, <1>3

LEMMA LongerInjective ==
    ASSUME NEW long, NEW short, NEW k, Longer(long, short, k), IsInjective(short),
           \A i \in DOMAIN short : short[i] # long[k]
    PROVE  IsInjective(long)
<1>1. ASSUME NEW i \in DOMAIN long, NEW j \in DOMAIN long, long[i] = long[j] PROVE i = j
  <2>1. CASE i = k \/ j = k
    BY <1>1, <2>1, LongerElements
  <2>2. CASE i # k /\ j # k
    <3>1. Unskip(k, i) = Unskip(k, j)
      BY <1>1, <2>2, LongerElements DEF IsInjective
    <3>2. i \in Int /\ j \in Int /\ k \in Int
      BY LongerElements
    <3>3. QED
      BY <2>2, <3>1, <3>2 DEF Unskip
  <2>3. QED
    BY <2>1, <2>2
<1>2. QED
  BY <1>1 DEF IsInjective

-----------------------------------------------------------------------------
(* The turn of orders in the multiset *)

Ahead(a, b) == a.price > b.price \/ (a.price = b.price /\ a.number < b.number)

InTurn(book) == \A i, j \in DOMAIN book : i < j => Ahead(book[i], book[j])

LEMMA ShorterInTurn ==
    ASSUME NEW long, NEW short, NEW k, Longer(long, short, k), InTurn(long)
    PROVE  InTurn(short)
<1>1. \A i, j \in 1 .. Len(short) : i < j => Skip(k, i) < Skip(k, j)
  BY LongerElements, SkipUnskip
<1>2. QED
  BY <1>1, LongerElements DEF InTurn

\* A nonempty set of natural numbers has a least element.
LEMMA LeastElement ==
    ASSUME NEW K, K \subseteq Nat, K # {}
    PROVE  \E k \in K : \A l \in K : k <= l
<1> DEFINE Below == {p \in Nat \X Nat : p[1] < p[2]}
<1>1. Below = OpToRel(<, Nat)
  BY Zenon DEF OpToRel
<1>2. IsWellFoundedOn(Below, Nat)
  BY <1>1, NatLessThanWellFounded
<1>3. PICK k \in K : \A l \in K : <<l, k>> \notin Below
  BY <1>2, WFMin
<1>4. \A l \in K : l < k => <<l, k>> \in Below
  OBVIOUS
<1>5. \A l \in K : ~(l < k)
  <2> HIDE DEF Below
  <2> QED BY <1>3, <1>4
<1>6. QED
  BY <1>5

\* The place that Inserted chooses.
IsPlace(k, book, order) ==
    /\ \A i \in 1 .. k : ~Compare(order, book[i])
    /\ \A i \in (k + 1) .. Len(book) : Compare(order, book[i])

LEMMA PlaceExists ==
    ASSUME NEW book \in Seq(Orders), InTurn(book), NEW order \in Orders
    PROVE  \E k \in 0 .. Len(book) :
              IsPlace(k, book, order) /\ Inserted(book, order) = InsertAt(book, k + 1, order)
<1>1. Len(book) \in Nat /\ DOMAIN book = 1 .. Len(book)
      /\ \A i \in 1 .. Len(book) : book[i] \in Orders
  BY LenProperties, ElementOfSeq
<1> DEFINE K == {k \in 0 .. Len(book) : \A i \in (k + 1) .. Len(book) : Compare(order, book[i])}
<1>2. Len(book) \in K /\ K \subseteq Nat
  BY <1>1
<1>3. PICK k \in K : \A l \in K : k <= l
  <2> HIDE DEF K
  <2> QED BY <1>2, LeastElement
<1>4. ASSUME NEW i \in 1 .. k PROVE ~Compare(order, book[i])
  <2>1. k \in 1 .. Len(book) /\ i \in 1 .. Len(book) /\ k - 1 \in 0 .. Len(book)
    BY <1>1, <1>4
  <2>2. k - 1 \notin K
    <3>1. ~(k <= k - 1)
      BY <2>1
    <3> HIDE DEF K
    <3>2. QED
      BY <1>3, <3>1
  <2>3. ~Compare(order, book[k])
    BY <1>1, <2>1, <2>2
  <2>4. book[i].price \in Int /\ book[k].price \in Int /\ order.price \in Int
    BY <1>1, <2>1, OrderBookAssumption DEF Orders
  <2>5. i = k \/ book[i].price >= book[k].price
    <3>1. i = k \/ Ahead(book[i], book[k])
      BY <1>1, <2>1 DEF InTurn
    <3>2. QED
      BY <2>4, <3>1 DEF Ahead
  <2>6. QED
    BY <2>3, <2>4, <2>5 DEF Compare
<1>5. k \in 0 .. Len(book) /\ IsPlace(k, book, order)
  BY <1>4 DEF IsPlace
<1> HIDE DEF K
<1>6. PICK l : l = CHOOSE n \in 0 .. Len(book) : IsPlace(n, book, order)
  OBVIOUS
<1>7. l \in 0 .. Len(book) /\ IsPlace(l, book, order)
  BY <1>5, <1>6
<1>8. Inserted(book, order) = InsertAt(book, l + 1, order)
  BY <1>6 DEF Inserted, IsPlace
<1>9. QED
  BY <1>7, <1>8

\* An order that is younger than all of the book takes its turn in it.
LEMMA InsertInTurn ==
    ASSUME NEW book \in Seq(Orders), InTurn(book), NEW order \in Orders,
           \A i \in DOMAIN book : book[i].number < order.number
    PROVE  /\ InTurn(Inserted(book, order))
           /\ \E k : Longer(Inserted(book, order), book, k) /\ Inserted(book, order)[k] = order
<1>1. PICK p \in 0 .. Len(book) :
        IsPlace(p, book, order) /\ Inserted(book, order) = InsertAt(book, p + 1, order)
  BY PlaceExists
<1>2. Len(book) \in Nat /\ DOMAIN book = 1 .. Len(book)
      /\ \A i \in 1 .. Len(book) : book[i] \in Orders
  BY LenProperties, ElementOfSeq
<1>3. PICK k, new : k = p + 1 /\ new = Inserted(book, order)
  OBVIOUS
<1>4. k \in 1 .. Len(book) + 1
  BY <1>2, <1>3
<1>5. Longer(new, book, k) /\ new[k] = order
  BY <1>1, <1>3, <1>4, InsertAtLengthens
<1>6. /\ \A i \in 1 .. Len(book) : i < k => ~Compare(order, book[i])
      /\ \A i \in 1 .. Len(book) : ~(i < k) => Compare(order, book[i])
  <2>1. \A i \in 1 .. Len(book) : /\ i < k => i \in 1 .. p
                                  /\ ~(i < k) => i \in (p + 1) .. Len(book)
    BY <1>2, <1>3
  <2>2. QED
    BY <1>1, <2>1 DEF IsPlace
<1>7. ASSUME NEW i \in DOMAIN new, NEW j \in DOMAIN new, i < j PROVE Ahead(new[i], new[j])
  <2>1. i \in Int /\ j \in Int /\ k \in Int
    BY <1>4, <1>5, LongerElements
  <2>2. CASE i # k /\ j # k
    <3>1. Unskip(k, i) < Unskip(k, j)
      BY <1>7, <2>1, <2>2 DEF Unskip
    <3>2. /\ Unskip(k, i) \in 1 .. Len(book) /\ Unskip(k, j) \in 1 .. Len(book)
          /\ new[i] = book[Unskip(k, i)] /\ new[j] = book[Unskip(k, j)]
      BY <1>5, <2>2, LongerElements
    <3>3. QED
      BY <1>2, <3>1, <3>2 DEF InTurn
  <2>3. CASE j = k
    <3>1. i # k /\ Unskip(k, i) = i
      BY <1>7, <2>1, <2>3 DEF Unskip
    <3>2. i \in 1 .. Len(book) /\ new[i] = book[i] /\ i < k
      BY <1>5, <1>7, <2>3, <3>1, LongerElements
    <3>3. ~Compare(order, book[i]) /\ book[i].number < order.number /\ book[i] \in Orders
      BY <1>2, <1>6, <3>2
    <3>4. book[i].price \in Int /\ order.price \in Int
      BY <3>3, OrderBookAssumption DEF Orders
    <3>5. Ahead(book[i], order)
      BY <3>3, <3>4 DEF Ahead, Compare
    <3>6. QED
      BY <1>5, <2>3, <3>2, <3>5
  <2>4. CASE i = k
    <3>1. j # k /\ Unskip(k, j) = j - 1 /\ ~(j - 1 < k)
      BY <1>7, <2>1, <2>4 DEF Unskip
    <3>2. j - 1 \in 1 .. Len(book) /\ new[j] = book[j - 1]
      BY <1>5, <3>1, LongerElements
    <3>3. Compare(order, book[j - 1])
      BY <1>6, <3>1, <3>2
    <3>4. QED
      BY <1>5, <2>4, <3>2, <3>3 DEF Ahead, Compare
  <2>5. QED
    BY <2>2, <2>3, <2>4
<1>8. QED
  BY <1>3, <1>5, <1>7 DEF InTurn

-----------------------------------------------------------------------------
(* Two books with the same prices *)

\* The positions of one book go with those of the other, price by price.
Pairs(f, v, m) ==
    /\ f \in Bijection(DOMAIN v, DOMAIN m)
    /\ \A i \in DOMAIN v : v[i].price = m[f[i]].price

Paired(v, m) == \E f : Pairs(f, v, m)

LEMMA BijectionFacts ==
    ASSUME NEW S, NEW T, NEW f
    PROVE  f \in Bijection(S, T) <=>
              /\ f \in [S -> T]
              /\ \A i, j \in S : f[i] = f[j] => i = j
              /\ \A t \in T : \E i \in S : f[i] = t
BY DEF Bijection, Injection, Surjection, IsInjective

LEMMA PairsReverse ==
    ASSUME NEW v, NEW m, NEW f, Pairs(f, v, m)
    PROVE  \E g : Pairs(g, m, v)
<1>1. PICK g : g = Inverse(f, DOMAIN v, DOMAIN m)
  OBVIOUS
<1>2. g \in Bijection(DOMAIN m, DOMAIN v) /\ \A i \in DOMAIN v : g[f[i]] = i
  BY <1>1, Fun_BijInverse DEF Pairs
<1>3. ASSUME NEW j \in DOMAIN m PROVE m[j].price = v[g[j]].price
  <2>1. PICK i \in DOMAIN v : f[i] = j
    BY BijectionFacts DEF Pairs
  <2>2. QED
    BY <1>2, <2>1 DEF Pairs
<1>4. QED
  BY <1>2, <1>3 DEF Pairs

\* The same price comes into both books, wherever it goes in each of them.
LEMMA PairedLonger ==
    ASSUME NEW v, NEW m, NEW v0, NEW m0, NEW k, NEW l,
           Longer(v, v0, k), Longer(m, m0, l), v[k].price = m[l].price, Paired(v0, m0)
    PROVE  Paired(v, m)
<1>1. PICK f : Pairs(f, v0, m0)
  BY DEF Paired
<1> DEFINE g == [i \in DOMAIN v |-> IF i = k THEN l ELSE Skip(l, f[Unskip(k, i)])]
<1>2. ASSUME NEW i \in DOMAIN v, i # k
      PROVE  /\ Unskip(k, i) \in DOMAIN v0 /\ f[Unskip(k, i)] \in DOMAIN m0
             /\ g[i] \in DOMAIN m \ {l} /\ Unskip(l, g[i]) = f[Unskip(k, i)]
             /\ v[i].price = m[g[i]].price
  <2>1. Unskip(k, i) \in DOMAIN v0 /\ v[i] = v0[Unskip(k, i)]
    BY <1>2, LongerElements
  <2>2. f[Unskip(k, i)] \in DOMAIN m0 /\ v0[Unskip(k, i)].price = m0[f[Unskip(k, i)]].price
    BY <1>1, <2>1, BijectionFacts DEF Pairs
  <2>3. g[i] = Skip(l, f[Unskip(k, i)])
    BY <1>2
  <2>4. /\ Skip(l, f[Unskip(k, i)]) \in DOMAIN m \ {l}
        /\ Unskip(l, Skip(l, f[Unskip(k, i)])) = f[Unskip(k, i)]
        /\ m0[f[Unskip(k, i)]] = m[Skip(l, f[Unskip(k, i)])]
    BY <2>2, LongerElements
  <2>5. QED
    BY <2>1, <2>2, <2>3, <2>4
<1>3. k \in DOMAIN v /\ l \in DOMAIN m /\ g[k] = l
  BY LongerElements
<1>4. ASSUME NEW j \in DOMAIN m PROVE \E i \in DOMAIN v : g[i] = j
  <2>1. CASE j = l
    BY <1>3, <2>1
  <2>2. CASE j # l
    <3>1. Unskip(l, j) \in DOMAIN m0 /\ Skip(l, Unskip(l, j)) = j
      BY <2>2, LongerElements
    <3>2. PICK h \in DOMAIN v0 : f[h] = Unskip(l, j)
      BY <1>1, <3>1, BijectionFacts DEF Pairs
    <3>3. Skip(k, h) \in DOMAIN v \ {k} /\ Unskip(k, Skip(k, h)) = h
      BY LongerElements
    <3>4. g[Skip(k, h)] = j
      BY <3>1, <3>2, <3>3
    <3>5. QED
      BY <3>3, <3>4
  <2>3. QED
    BY <2>1, <2>2
<1>5. g \in [DOMAIN v -> DOMAIN m]
  BY <1>2, <1>3
<1> HIDE DEF g
<1>6. ASSUME NEW i \in DOMAIN v, NEW j \in DOMAIN v, g[i] = g[j] PROVE i = j
  <2>1. CASE i = k \/ j = k
    BY <1>2, <1>3, <1>6, <2>1
  <2>2. CASE i # k /\ j # k
    <3>1. Unskip(k, i) = Unskip(k, j)
      BY <1>1, <1>2, <1>6, <2>2, BijectionFacts DEF Pairs
    <3>2. i \in Int /\ j \in Int /\ k \in Int
      BY LongerElements
    <3>3. QED
      BY <2>2, <3>1, <3>2 DEF Unskip
  <2>3. QED
    BY <2>1, <2>2
<1>7. g \in Bijection(DOMAIN v, DOMAIN m)
  BY <1>4, <1>5, <1>6, BijectionFacts
<1>8. QED
  BY <1>2, <1>3, <1>7 DEF Pairs, Paired

\* The same price goes out of both books: the order it was paired with in the other
\* book takes over the partner of the one that goes.
LEMMA PairedShorter ==
    ASSUME NEW v, NEW m, NEW v0, NEW m0, NEW k, NEW l,
           Longer(v, v0, k), Longer(m, m0, l), v[k].price = m[l].price, Paired(v, m)
    PROVE  Paired(v0, m0)
<1>1. PICK f : Pairs(f, v, m)
  BY DEF Paired
<1>2. k \in DOMAIN v /\ l \in DOMAIN m
  BY LongerElements
<1>3. PICK b \in DOMAIN v : f[b] = l
  BY <1>1, <1>2, BijectionFacts DEF Pairs
<1> DEFINE h == [i \in DOMAIN v |-> IF i = k THEN l ELSE IF i = b THEN f[k] ELSE f[i]]
<1>4. /\ h \in Bijection(DOMAIN v, DOMAIN m) /\ h[k] = l
      /\ \A i \in DOMAIN v : v[i].price = m[h[i]].price
  <2>1. /\ f \in [DOMAIN v -> DOMAIN m]
        /\ \A i, j \in DOMAIN v : f[i] = f[j] => i = j
        /\ \A j \in DOMAIN m : \E i \in DOMAIN v : f[i] = j
        /\ \A i \in DOMAIN v : v[i].price = m[f[i]].price
    BY <1>1, BijectionFacts DEF Pairs
  <2>2. h \in [DOMAIN v -> DOMAIN m] /\ h[k] = l
    BY <1>2, <1>3, <2>1
  <2>3. \A i, j \in DOMAIN v : h[i] = h[j] => i = j
    BY <1>2, <1>3, <2>1
  <2>4. ASSUME NEW j \in DOMAIN m PROVE \E i \in DOMAIN v : h[i] = j
    <3>1. PICK i \in DOMAIN v : f[i] = j
      BY <2>1
    <3>2. CASE i = k
      BY <1>2, <1>3, <3>1, <3>2
    <3>3. CASE i = b
      BY <1>2, <1>3, <3>1, <3>3
    <3>4. CASE i # k /\ i # b
      BY <3>1, <3>4
    <3>5. QED
      BY <3>2, <3>3, <3>4
  <2>5. \A i \in DOMAIN v : v[i].price = m[h[i]].price
    BY <1>2, <1>3, <2>1
  <2> HIDE DEF h
  <2>6. QED
    BY <2>2, <2>3, <2>4, <2>5, BijectionFacts
<1> HIDE DEF h
<1>5. /\ h \in [DOMAIN v -> DOMAIN m] /\ h[k] = l
      /\ \A i, j \in DOMAIN v : h[i] = h[j] => i = j
      /\ \A j \in DOMAIN m : \E i \in DOMAIN v : h[i] = j
  BY <1>4, BijectionFacts
<1> DEFINE g == [i \in DOMAIN v0 |-> Unskip(l, h[Skip(k, i)])]
<1>6. ASSUME NEW i \in DOMAIN v0
      PROVE  /\ Skip(k, i) \in DOMAIN v \ {k} /\ Unskip(k, Skip(k, i)) = i
             /\ h[Skip(k, i)] \in DOMAIN m \ {l}
             /\ g[i] \in DOMAIN m0 /\ Skip(l, g[i]) = h[Skip(k, i)]
             /\ v0[i].price = m0[g[i]].price
  <2>1. Skip(k, i) \in DOMAIN v \ {k} /\ Unskip(k, Skip(k, i)) = i /\ v0[i] = v[Skip(k, i)]
    BY LongerElements
  <2>2. h[Skip(k, i)] \in DOMAIN m \ {l}
    BY <1>2, <1>5, <2>1
  <2>3. /\ Unskip(l, h[Skip(k, i)]) \in DOMAIN m0
        /\ Skip(l, Unskip(l, h[Skip(k, i)])) = h[Skip(k, i)]
        /\ m[h[Skip(k, i)]] = m0[Unskip(l, h[Skip(k, i)])]
    BY <2>2, LongerElements
  <2>4. v[Skip(k, i)].price = m[h[Skip(k, i)]].price
    BY <1>4, <2>1
  <2>5. QED
    BY <2>1, <2>2, <2>3, <2>4
<1>7. ASSUME NEW j \in DOMAIN m0 PROVE \E i \in DOMAIN v0 : g[i] = j
  <2>1. Skip(l, j) \in DOMAIN m \ {l} /\ Unskip(l, Skip(l, j)) = j
    BY LongerElements
  <2>2. PICK a \in DOMAIN v : h[a] = Skip(l, j)
    BY <1>5, <2>1
  <2>3. a # k
    BY <1>5, <2>1, <2>2
  <2>4. Unskip(k, a) \in DOMAIN v0 /\ Skip(k, Unskip(k, a)) = a
    BY <2>3, LongerElements
  <2>5. g[Unskip(k, a)] = j
    BY <2>1, <2>2, <2>4
  <2>6. QED
    BY <2>4, <2>5
<1>8. g \in [DOMAIN v0 -> DOMAIN m0]
  BY <1>6
<1> HIDE DEF g
<1>9. ASSUME NEW i \in DOMAIN v0, NEW j \in DOMAIN v0, g[i] = g[j] PROVE i = j
  <2>1. Skip(k, i) = Skip(k, j)
    BY <1>5, <1>6, <1>9
  <2>2. QED
    BY <1>6, <2>1
<1>10. g \in Bijection(DOMAIN v0, DOMAIN m0)
  BY <1>7, <1>8, <1>9, BijectionFacts
<1>11. QED
  BY <1>6, <1>10 DEF Pairs, Paired

\* Books in order of price that are paired have the same price at each place: else
\* the places before it in one book would all be paired with fewer of the other.
LEMMA NoHigherPrice ==
    ASSUME NEW v \in Seq(Orders), NEW m \in Seq(Orders), Sorted(v), Sorted(m),
           Len(v) = Len(m), NEW f, Pairs(f, v, m), NEW k \in 1 .. Len(v)
    PROVE  v[k].price <= m[k].price
<1>1. /\ Len(v) \in Nat /\ DOMAIN v = 1 .. Len(v) /\ DOMAIN m = 1 .. Len(v)
      /\ \A i \in 1 .. Len(v) : v[i].price \in Int /\ m[i].price \in Int
  BY BookTypes
<1>2. /\ f \in [1 .. Len(v) -> 1 .. Len(v)]
      /\ \A i, j \in 1 .. Len(v) : f[i] = f[j] => i = j
      /\ \A i \in 1 .. Len(v) : v[i].price = m[f[i]].price
  <2>1. PICK D : D = 1 .. Len(v)
    OBVIOUS
  <2>2. f \in Bijection(D, D) /\ \A i \in D : v[i].price = m[f[i]].price
    BY <1>1, <2>1 DEF Pairs
  <2>3. f \in [D -> D] /\ \A i, j \in D : f[i] = f[j] => i = j
    BY <2>2, BijectionFacts
  <2>4. QED
    BY <2>1, <2>2, <2>3
<1> SUFFICES ASSUME v[k].price > m[k].price PROVE FALSE
  BY <1>1
<1>3. ASSUME NEW i \in 1 .. k PROVE f[i] \in 1 .. k - 1
  <2>1. i \in 1 .. Len(v) /\ k \in Int
    BY <1>1, <1>3
  <2>2. f[i] \in 1 .. Len(v)
    BY <1>2, <2>1
  <2>3. v[i].price >= v[k].price
    <3>1. CASE i = k
      BY <1>1, <3>1
    <3>2. CASE i < k
      BY <1>1, <2>1, <3>2 DEF Sorted
    <3>3. QED
      BY <2>1, <3>1, <3>2
  <2>4. m[f[i]].price > m[k].price
    BY <1>1, <1>2, <2>1, <2>2, <2>3
  <2>5. f[i] # k
    BY <1>1, <2>4
  <2>6. ~(k < f[i])
    <3>1. k < f[i] => m[k].price >= m[f[i]].price
      BY <1>1, <2>1, <2>2 DEF Sorted
    <3>2. QED
      BY <1>1, <2>1, <2>2, <2>4, <3>1
  <2>7. QED
    BY <1>1, <2>1, <2>2, <2>5, <2>6
<1> DEFINE g == [i \in 1 .. k |-> f[i]]
<1>4. g \in [1 .. k -> 1 .. k - 1]
  BY <1>3
<1>5. /\ IsFiniteSet(1 .. k) /\ IsFiniteSet(1 .. k - 1)
      /\ Cardinality(1 .. k - 1) < Cardinality(1 .. k)
  <2>1. k \in Int /\ 1 <= k
    BY <1>1
  <2>2. /\ IsFiniteSet(1 .. k) /\ Cardinality(1 .. k) = k - 1 + 1
        /\ IsFiniteSet(1 .. k - 1) /\ Cardinality(1 .. k - 1) = k - 1
    <3>1. Cardinality(1 .. k) = IF 1 > k THEN 0 ELSE k - 1 + 1
      BY <2>1, FS_Interval
    <3>2. Cardinality(1 .. k - 1) = IF 1 > k - 1 THEN 0 ELSE k - 1 - 1 + 1
      BY <2>1, FS_Interval
    <3>3. IsFiniteSet(1 .. k) /\ IsFiniteSet(1 .. k - 1)
      BY <2>1, FS_Interval
    <3>4. QED
      BY <2>1, <3>1, <3>2, <3>3
  <2>3. QED
    BY <2>1, <2>2
<1> HIDE DEF g
<1>6. PICK x \in 1 .. k, y \in 1 .. k : x # y /\ g[x] = g[y]
  BY <1>4, <1>5, FS_PigeonHole
<1>7. f[x] = f[y] /\ x \in 1 .. Len(v) /\ y \in 1 .. Len(v)
  BY <1>1, <1>6 DEF g
<1>8. QED
  BY <1>2, <1>6, <1>7

LEMMA SamePrices ==
    ASSUME NEW v \in Seq(Orders), NEW m \in Seq(Orders), Sorted(v), Sorted(m),
           Len(v) = Len(m), Paired(v, m), NEW k \in 1 .. Len(v)
    PROVE  v[k].price = m[k].price
<1>1. PICK f : Pairs(f, v, m)
  BY DEF Paired
<1>2. PICK g : Pairs(g, m, v)
  BY <1>1, PairsReverse
<1>3. v[k].price <= m[k].price
  BY <1>1, NoHigherPrice
<1>4. m[k].price <= v[k].price
  BY <1>2, NoHigherPrice
<1>5. v[k].price \in Int /\ m[k].price \in Int
  BY BookTypes
<1>6. QED
  BY <1>3, <1>4, <1>5

\* Books that are paired hold each price equally often.
LEMMA SameCounts ==
    ASSUME NEW v \in Seq(Orders), NEW m \in Seq(Orders), Paired(v, m), NEW price
    PROVE  PriceCount(v, price) = PriceCount(m, price)
<1> DEFINE V == {i \in DOMAIN v : v[i].price = price}
           M == {i \in DOMAIN m : m[i].price = price}
<1>1. PICK f : Pairs(f, v, m)
  BY DEF Paired
<1>2. /\ f \in [DOMAIN v -> DOMAIN m]
      /\ \A i, j \in DOMAIN v : f[i] = f[j] => i = j
      /\ \A j \in DOMAIN m : \E i \in DOMAIN v : f[i] = j
      /\ \A i \in DOMAIN v : v[i].price = m[f[i]].price
  BY <1>1, BijectionFacts DEF Pairs
<1> DEFINE g == [i \in V |-> f[i]]
<1>3. g \in [V -> M]
  BY <1>2
<1>4. ASSUME NEW j \in M PROVE \E i \in V : g[i] = j
  BY <1>2, <1>4
<1>5. \A i, j \in V : g[i] = g[j] => i = j
  BY <1>2
<1>6. IsFiniteSet(V)
  <2>1. Len(v) \in Int /\ DOMAIN v = 1 .. Len(v)
    BY LenProperties
  <2>2. IsFiniteSet(1 .. Len(v)) /\ V \in SUBSET (1 .. Len(v))
    BY <2>1, FS_Interval
  <2> HIDE DEF V
  <2>3. QED
    BY <2>2, FS_Subset
<1> HIDE DEF V, M, g
<1>7. g \in Bijection(V, M)
  BY <1>3, <1>4, <1>5, BijectionFacts
<1>8. Cardinality(V) = Cardinality(M)
  BY <1>6, <1>7, FS_Bijection DEF ExistsBijection
<1>9. QED
  BY <1>8 DEF PriceCount, V, M

\* Sorting a book leaves its orders, and pairs with what it was paired with.
LEMMA SortedIsPaired ==
    ASSUME NEW v \in Seq(Orders), NEW s \in Arrangements(v)
    PROVE  /\ s \in Seq(Orders) /\ Len(s) = Len(v) /\ IsInjective(s) /\ Sorted(s)
           /\ ToSet(s) = ToSet(v)
           /\ \A m : Paired(v, m) => Paired(s, m)
<1>1. Len(v) \in Nat /\ DOMAIN v = 1 .. Len(v) /\ \A i \in 1 .. Len(v) : v[i] \in Orders
  BY LenProperties, ElementOfSeq
<1>2. s \in [1 .. Len(v) -> ToSet(v)] /\ IsInjective(s) /\ Sorted(s)
  BY <1>1 DEF Arrangements
<1>3. s \in Seq(Orders) /\ Len(s) = Len(v) /\ DOMAIN s = 1 .. Len(v)
  <2>1. ToSet(v) \subseteq Orders
    BY <1>1 DEF ToSet
  <2>2. s \in [1 .. Len(v) -> Orders]
    BY <1>2, <2>1
  <2>3. QED
    BY <1>1, <2>2, LenProperties, SeqDef
<1>4. \A i \in 1 .. Len(v) : \E j \in 1 .. Len(v) : s[i] = v[j]
  BY <1>1, <1>2 DEF ToSet
<1> DEFINE p == [i \in 1 .. Len(v) |-> CHOOSE j \in 1 .. Len(v) : s[i] = v[j]]
<1>5. p \in [1 .. Len(v) -> 1 .. Len(v)] /\ \A i \in 1 .. Len(v) : s[i] = v[p[i]]
  BY <1>4
<1> HIDE DEF p
<1>6. \A i, j \in 1 .. Len(v) : p[i] = p[j] => i = j
  BY <1>2, <1>3, <1>5 DEF IsInjective
<1>7. p \in Injection(1 .. Len(v), 1 .. Len(v))
  BY <1>5, <1>6 DEF Injection, IsInjective
<1>8. p \in Surjection(1 .. Len(v), 1 .. Len(v))
  <2>1. IsFiniteSet(1 .. Len(v))
    BY <1>1, FS_Interval
  <2>2. QED
    BY <1>7, <2>1, FS_Injection
<1>9. p \in Bijection(DOMAIN s, DOMAIN v)
  BY <1>1, <1>3, <1>7, <1>8 DEF Bijection
<1>10. ToSet(s) = ToSet(v)
  <2>1. \A j \in 1 .. Len(v) : \E i \in 1 .. Len(v) : v[j] = s[i]
    BY <1>5, <1>8 DEF Surjection
  <2>2. ToSet(s) \subseteq ToSet(v)
    BY <1>1, <1>3, <1>4 DEF ToSet
  <2>3. ToSet(v) \subseteq ToSet(s)
    BY <1>1, <1>3, <2>1 DEF ToSet
  <2>4. QED
    BY <2>2, <2>3
<1>11. ASSUME NEW m, Paired(v, m) PROVE Paired(s, m)
  <2>1. PICK f : Pairs(f, v, m)
    BY <1>11 DEF Paired
  <2>2. PICK g : g = [i \in DOMAIN s |-> f[p[i]]]
    OBVIOUS
  <2>3. g \in Bijection(DOMAIN s, DOMAIN m)
    BY <1>9, <2>1, <2>2, Fun_BijTransitive DEF Pairs
  <2>4. \A i \in DOMAIN s : s[i].price = m[g[i]].price
    BY <1>1, <1>3, <1>5, <2>1, <2>2 DEF Pairs
  <2>5. QED
    BY <2>3, <2>4 DEF Pairs, Paired
<1>12. QED
  BY <1>2, <1>3, <1>10, <1>11

-----------------------------------------------------------------------------
(* The invariant *)

\* The orders of a book are distinct, and none is younger than the last one made.
Sound(book, n) ==
    /\ book \in Seq(Orders) /\ IsInjective(book)
    /\ \A i \in DOMAIN book : book[i].number <= n

BooksIInv ==
    /\ Sound(vector, made) /\ Sound(multiset, made)
    /\ shown.vector \in Seq(Orders) /\ shown.multiset \in Seq(Orders)
    /\ made \in 0 .. MaxOrders
    /\ status \in {"running", "thrown", "undefined"}
    /\ aligned \in BOOLEAN
    /\ InTurn(multiset)
    /\ Len(vector) = Len(multiset)
    /\ aligned => Paired(vector, multiset)

LEMMA GoesOut ==
    ASSUME NEW long, NEW short, NEW k, NEW n, Longer(long, short, k), Sound(long, n)
    PROVE  Sound(short, n)
<1>1. short \in Seq(Orders) /\ IsInjective(short)
  BY ShorterInjective DEF Longer, Sound
<1>2. \A i \in DOMAIN short : short[i].number <= n
  BY LongerElements DEF Sound
<1>3. QED
  BY <1>1, <1>2 DEF Sound

LEMMA ComesIn ==
    ASSUME NEW long, NEW short, NEW k, NEW n \in Nat, Longer(long, short, k), Sound(short, n),
           long[k].number = n + 1
    PROVE  Sound(long, n + 1)
<1>1. long \in Seq(Orders) /\ short \in Seq(Orders)
  BY DEF Longer
<1>2. ASSUME NEW i \in DOMAIN short PROVE short[i] # long[k]
  BY <1>2 DEF Sound
<1>3. IsInjective(long)
  BY <1>2, LongerInjective DEF Sound
<1>4. ASSUME NEW i \in DOMAIN long PROVE long[i].number <= n + 1
  <2>1. CASE i = k
    BY <2>1
  <2>2. CASE i # k
    <3>1. Unskip(k, i) \in DOMAIN short /\ long[i] = short[Unskip(k, i)]
      BY <2>2, LongerElements
    <3>2. short[Unskip(k, i)].number <= n /\ short[Unskip(k, i)].number \in Int
      BY <1>1, <3>1, BookTypes DEF Sound
    <3>3. QED
      BY <3>1, <3>2
  <2>3. QED
    BY <2>1, <2>2
<1>5. QED
  BY <1>1, <1>3, <1>4 DEF Sound

LEMMA SoundLater ==
    ASSUME NEW book, NEW n \in Nat, Sound(book, n)
    PROVE  Sound(book, n + 1)
<1>1. book \in Seq(Orders)
  BY DEF Sound
<1>2. ASSUME NEW i \in DOMAIN book PROVE book[i].number <= n + 1
  <2>1. book[i].number <= n /\ book[i].number \in Int
    BY <1>1, <1>2, BookTypes DEF Sound
  <2>2. QED
    BY <2>1
<1>3. QED
  BY <1>2 DEF Sound

\* An order put in the place of another.
LEMMA Replaced ==
    ASSUME NEW s, NEW short, NEW k, Longer(s, short, k), NEW order \in Orders
    PROVE  /\ Longer([s EXCEPT ![k] = order], short, k)
           /\ [s EXCEPT ![k] = order][k] = order
<1> DEFINE t == [s EXCEPT ![k] = order]
<1>1. s \in Seq(Orders) /\ k \in 1 .. Len(s)
  BY DEF Longer
<1>2. t \in Seq(Orders) /\ Len(t) = Len(s) /\ t[k] = order
      /\ \A i \in 1 .. Len(s) : i # k => t[i] = s[i]
  BY <1>1, ExceptSeq
<1> HIDE DEF t
<1>3. ASSUME NEW i \in 1 .. Len(short) PROVE short[i] = t[Skip(k, i)]
  <2>1. Skip(k, i) \in 1 .. Len(s) /\ Skip(k, i) # k /\ short[i] = s[Skip(k, i)]
    BY <1>1, LongerElements DEF Longer
  <2>2. QED
    BY <1>2, <2>1
<1>4. Longer(t, short, k)
  BY <1>1, <1>2, <1>3 DEF Longer
<1>5. QED
  BY <1>2, <1>4 DEF t

LEMMA InTurnSorted ==
    ASSUME NEW book \in Seq(Orders), InTurn(book)
    PROVE  Sorted(book)
<1>1. \A i \in DOMAIN book : book[i].price \in Int
  BY BookTypes
<1>2. QED
  BY <1>1 DEF InTurn, Ahead, Sorted

LEMMA NewOrder ==
    ASSUME made \in 0 .. MaxOrders, made < MaxOrders, NEW price \in Prices
    PROVE  /\ Order(price, made + 1) \in Orders
           /\ Order(price, made + 1).number = made + 1 /\ Order(price, made + 1).price = price
           /\ made \in Nat /\ made + 1 \in 0 .. MaxOrders
<1>1. MaxOrders \in Nat
  BY OrderBookAssumption
<1>2. QED
  BY <1>1 DEF Order, Orders

LEMMA InitBooks == OrderBookInit => BooksIInv
<1> SUFFICES ASSUME OrderBookInit PROVE BooksIInv
  OBVIOUS
<1>1. <<>> \in Seq(Orders) /\ DOMAIN <<>> = {}
  BY EmptySeq
<1>2. Sound(<<>>, 0) /\ InTurn(<<>>)
  BY <1>1 DEF Sound, InTurn, IsInjective
<1>3. Paired(<<>>, <<>>)
  <2>1. PICK f : f = [i \in {} |-> i]
    OBVIOUS
  <2>2. f \in Bijection({}, {})
    BY <2>1, BijectionFacts
  <2>3. QED
    BY <1>1, <2>2 DEF Pairs, Paired
<1>4. 0 \in 0 .. MaxOrders
  BY OrderBookAssumption
<1>5. QED
  BY <1>1, <1>2, <1>3, <1>4 DEF OrderBookInit, BooksIInv

LEMMA AddKeepsBooks ==
    ASSUME BooksIInv, NEW price \in Prices, addOrder(price)
    PROVE  BooksIInv'
<1> USE DEF BooksIInv
<1>1. PICK order : order = Order(price, made + 1)
  OBVIOUS
<1>2. /\ order \in Orders /\ order.number = made + 1 /\ made \in Nat /\ made + 1 \in 0 .. MaxOrders
      /\ made' = made + 1
      /\ vector' = Append(vector, order) /\ multiset' = Inserted(multiset, order)
      /\ UNCHANGED <<shown, status, aligned>>
  BY <1>1, NewOrder DEF addOrder
<1>3. PICK k : Longer(vector', vector, k) /\ vector'[k] = order
  BY <1>2, AppendLengthens DEF Sound
<1>4. \A i \in DOMAIN multiset : multiset[i].number < order.number
  BY <1>2, BookTypes DEF Sound
<1>5. InTurn(multiset') /\ \E l : Longer(multiset', multiset, l) /\ multiset'[l] = order
  BY <1>2, <1>4, InsertInTurn DEF Sound
<1>6. PICK l : Longer(multiset', multiset, l) /\ multiset'[l] = order
  BY <1>5
<1>7. Sound(vector', made + 1) /\ Sound(multiset', made + 1)
  BY <1>2, <1>3, <1>6, ComesIn
<1>8. Len(vector') = Len(multiset')
  BY <1>3, <1>6 DEF Longer
<1>9. aligned => Paired(vector', multiset')
  BY <1>3, <1>6, PairedLonger
<1>10. Sound(vector, made)' /\ Sound(multiset, made)' /\ InTurn(multiset)'
       /\ (aligned => Paired(vector, multiset))'
  BY <1>2, <1>5, <1>7, <1>9
<1>11. QED
  BY <1>2, <1>8, <1>10

\* The books without the orders at one position.
LEMMA TakenOut ==
    ASSUME BooksIInv, NEW k \in 1 .. Len(vector)
    PROVE  LET v == RemoveAt(vector, k)
               m == RemoveAt(multiset, k)
           IN  /\ Longer(vector, v, k) /\ Longer(multiset, m, k)
               /\ Sound(v, made) /\ Sound(m, made) /\ InTurn(m)
               /\ Len(v) = Len(m)
               /\ aligned /\ Sorted(vector) => Paired(v, m)
<1> USE DEF BooksIInv
<1>1. PICK v, m : v = RemoveAt(vector, k) /\ m = RemoveAt(multiset, k)
  OBVIOUS
<1>2. Longer(vector, v, k) /\ Longer(multiset, m, k)
  BY <1>1, RemoveAtShortens DEF Sound
<1>3. Sound(v, made) /\ Sound(m, made) /\ InTurn(m)
  BY <1>2, GoesOut, ShorterInTurn
<1>4. Len(v) = Len(m)
  <2>1. Len(vector) = Len(v) + 1 /\ Len(multiset) = Len(m) + 1
    BY <1>2 DEF Longer
  <2>2. Len(v) \in Nat /\ Len(m) \in Nat
    BY <1>2, LongerElements
  <2>3. Len(vector) = Len(multiset)
    OBVIOUS
  <2> HIDE DEF BooksIInv
  <2>4. PICK a, b : a = Len(v) /\ b = Len(m)
    OBVIOUS
  <2>5. a + 1 = b + 1 /\ a \in Nat /\ b \in Nat
    BY <2>1, <2>2, <2>3, <2>4
  <2>6. QED
    BY <2>4, <2>5
<1>5. ASSUME aligned, Sorted(vector) PROVE Paired(v, m)
  <2>1. vector[k].price = multiset[k].price
    BY <1>5, InTurnSorted, SamePrices DEF Sound
  <2>2. QED
    BY <1>2, <1>5, <2>1, PairedShorter
<1>6. QED
  BY <1>1, <1>2, <1>3, <1>4, <1>5

LEMMA ModifyKeepsBooks ==
    ASSUME BooksIInv, NEW index \in Nat, NEW price \in Prices, modifyOrder(index, price)
    PROVE  BooksIInv'
<1> USE DEF BooksIInv
<1>1. PICK order : order = Order(price, made + 1)
  OBVIOUS
<1>2. /\ order \in Orders /\ order.number = made + 1 /\ made \in Nat /\ made + 1 \in 0 .. MaxOrders
      /\ made' = made + 1 /\ UNCHANGED shown
      /\ aligned' = (aligned /\ Sorted(vector)) /\ aligned' \in BOOLEAN
      /\ multiset' = ModifyAt(multiset, index, order)
  BY <1>1, NewOrder DEF modifyOrder
<1>3. CASE index < Len(vector)
  <2>1. PICK k, v, m : k = index + 1 /\ v = RemoveAt(vector, k) /\ m = RemoveAt(multiset, k)
    OBVIOUS
  <2>2. k \in 1 .. Len(vector)
    BY <1>3, <2>1, BookTypes DEF Sound
  <2>3. vector' = [vector EXCEPT ![k] = order] /\ multiset' = Inserted(m, order) /\ UNCHANGED status
    BY <1>1, <1>2, <1>3, <2>1 DEF modifyOrder, ModifyAt
  <2>4. /\ Longer(vector, v, k) /\ Sound(v, made) /\ Sound(m, made) /\ InTurn(m) /\ Len(v) = Len(m)
        /\ aligned /\ Sorted(vector) => Paired(v, m)
    BY <2>1, <2>2, TakenOut
  <2>5. Longer(vector', v, k) /\ vector'[k] = order
    <3> HIDE DEF BooksIInv
    <3>1. Longer([vector EXCEPT ![k] = order], v, k) /\ [vector EXCEPT ![k] = order][k] = order
      BY <1>2, <2>4, Replaced
    <3>2. PICK new : new = [vector EXCEPT ![k] = order]
      OBVIOUS
    <3>3. Longer(new, v, k) /\ new[k] = order
      BY <3>1, <3>2
    <3>4. vector' = new
      BY <2>3, <3>2
    <3>5. QED
      BY <3>3, <3>4
  <2>6. ASSUME NEW i \in DOMAIN m PROVE m[i].number < order.number
    <3> HIDE DEF BooksIInv
    <3>1. m \in Seq(Orders) /\ m[i].number <= made
      BY <2>4, <2>6 DEF Sound
    <3>2. m[i].number \in Int
      BY <3>1, <2>6, BookTypes
    <3>3. QED
      BY <1>2, <3>1, <3>2
  <2>7. InTurn(multiset') /\ \E l : Longer(multiset', m, l) /\ multiset'[l] = order
    <3> HIDE DEF BooksIInv
    <3>1. m \in Seq(Orders) /\ InTurn(m)
      BY <2>4 DEF Sound
    <3>2. InTurn(Inserted(m, order)) /\ \E l : Longer(Inserted(m, order), m, l) /\ Inserted(m, order)[l] = order
      BY <1>2, <2>6, <3>1, InsertInTurn
    <3>3. PICK new : new = Inserted(m, order)
      OBVIOUS
    <3>4. InTurn(new) /\ \E l : Longer(new, m, l) /\ new[l] = order
      BY <3>2, <3>3
    <3>5. multiset' = new
      BY <2>3, <3>3
    <3>6. QED
      BY <3>4, <3>5
  <2>8. PICK l : Longer(multiset', m, l) /\ multiset'[l] = order
    BY <2>7
  <2>9. Sound(vector', made + 1) /\ Sound(multiset', made + 1)
    BY <1>2, <2>4, <2>5, <2>8, ComesIn
  <2>10. Len(vector') = Len(multiset')
    BY <2>4, <2>5, <2>8 DEF Longer
  <2>11. aligned' => Paired(vector', multiset')
    BY <1>2, <2>4, <2>5, <2>8, PairedLonger
  <2>12. QED
    BY <1>2, <2>3, <2>7, <2>9, <2>10, <2>11
<1>4. CASE ~(index < Len(vector))
  <2>1. UNCHANGED vector /\ multiset' = multiset /\ status' = "thrown"
    BY <1>2, <1>4 DEF modifyOrder, ModifyAt
  <2>2. Sound(vector, made + 1) /\ Sound(multiset, made + 1)
    BY <1>2, SoundLater
  <2>3. QED
    BY <1>2, <2>1, <2>2
<1>5. QED
  BY <1>3, <1>4

LEMMA DeleteKeepsBooks ==
    ASSUME BooksIInv, NEW index \in Nat, deleteOrder(index)
    PROVE  BooksIInv'
<1> USE DEF BooksIInv
<1>1. /\ UNCHANGED <<shown, made>>
      /\ aligned' = (aligned /\ Sorted(vector)) /\ aligned' \in BOOLEAN
      /\ multiset' = DeleteAt(multiset, index)
  BY DEF deleteOrder
<1>2. CASE index < Len(vector)
  <2>1. PICK k : k = index + 1
    OBVIOUS
  <2>2. k \in 1 .. Len(vector)
    BY <1>2, <2>1, BookTypes DEF Sound
  <2>3. vector' = RemoveAt(vector, k) /\ multiset' = RemoveAt(multiset, k) /\ UNCHANGED status
    BY <1>1, <1>2, <2>1 DEF deleteOrder, DeleteAt
  <2>4. /\ Sound(vector', made) /\ Sound(multiset', made) /\ InTurn(multiset')
        /\ Len(vector') = Len(multiset')
        /\ aligned /\ Sorted(vector) => Paired(vector', multiset')
    BY <2>2, <2>3, TakenOut
  <2>5. QED
    BY <1>1, <2>3, <2>4
<1>3. CASE ~(index < Len(vector))
  <2>1. UNCHANGED vector /\ multiset' = multiset /\ status' = "undefined"
    BY <1>1, <1>3 DEF deleteOrder, DeleteAt
  <2>2. QED
    BY <1>1, <2>1
<1>4. QED
  BY <1>2, <1>3

LEMMA ShownTypes ==
    ASSUME NEW book \in Seq(Orders)
    PROVE  /\ Shown(book) \in Seq(Orders)
           /\ Len(Shown(book)) = (IF Len(book) < Top THEN Len(book) ELSE Top)
           /\ \A i \in 1 .. Len(Shown(book)) : Shown(book)[i] = book[i]
<1>1. PICK n : n = IF Len(book) < Top THEN Len(book) ELSE Top
  OBVIOUS
<1>2. n \in Nat /\ n <= Len(book)
  BY <1>1, BookTypes, OrderBookAssumption
<1>3. /\ SubSeq(book, 1, n) \in Seq(Orders) /\ Len(SubSeq(book, 1, n)) = n + 1 - 1
      /\ \A i \in 1 .. n + 1 - 1 : SubSeq(book, 1, n)[i] = book[1 + i - 1]
  BY <1>2, SubSeqAt
<1>4. n + 1 - 1 = n /\ \A i \in 1 .. n : 1 + i - 1 = i
  BY <1>2
<1>5. Shown(book) = SubSeq(book, 1, n)
  BY <1>1 DEF Shown
<1>6. QED
  BY <1>1, <1>3, <1>4, <1>5

LEMMA DisplayKeepsBooks ==
    ASSUME BooksIInv, displayTopOrders
    PROVE  BooksIInv'
<1> USE DEF BooksIInv
<1>1. /\ vector' \in Arrangements(vector) /\ UNCHANGED <<multiset, made, status, aligned>>
      /\ shown' = [vector |-> Shown(vector'), multiset |-> Shown(multiset)]
  BY DEF displayTopOrders
<1>2. /\ vector' \in Seq(Orders) /\ Len(vector') = Len(vector) /\ IsInjective(vector')
      /\ ToSet(vector') = ToSet(vector)
      /\ \A m : Paired(vector, m) => Paired(vector', m)
  BY <1>1, SortedIsPaired DEF Sound
<1>3. \A i \in DOMAIN vector' : vector'[i].number <= made
  BY <1>2 DEF Sound, ToSet
<1>4. Sound(vector', made)
  BY <1>2, <1>3 DEF Sound
<1>5. shown'.vector \in Seq(Orders) /\ shown'.multiset \in Seq(Orders)
  BY <1>1, <1>2, ShownTypes DEF Sound
<1>6. QED
  BY <1>1, <1>2, <1>4, <1>5

LEMMA NextKeepsBooks == BooksIInv /\ [OrderBookNext]_bookVars => BooksIInv'
<1> SUFFICES ASSUME BooksIInv, [OrderBookNext]_bookVars PROVE BooksIInv'
  OBVIOUS
<1>1. \A index \in 0 .. MaxOrders : index \in Nat
  BY OrderBookAssumption
<1>2. CASE UNCHANGED bookVars
  BY <1>2 DEF BooksIInv, bookVars
<1>3. QED
  BY <1>1, <1>2, AddKeepsBooks, ModifyKeepsBooks, DeleteKeepsBooks, DisplayKeepsBooks
  DEF OrderBookNext

LEMMA BooksInvariant == OrderBookSpec => []BooksIInv
BY InitBooks, NextKeepsBooks, PTL DEF OrderBookSpec

-----------------------------------------------------------------------------
(* The theorems *)

\* Every variable has its type, and no order is in a book twice (Order.h:34).
THEOREM BooksTypeCorrect == OrderBookSpec => []OrderBookTypeOK
<1>1. BooksIInv => OrderBookTypeOK
  BY DEF BooksIInv, Sound, OrderBookTypeOK
<1>2. QED
  BY <1>1, BooksInvariant, PTL

\* Orders of one price keep their turn in the multiset through any insertions and
\* removals around them (Order.h:66-94).
THEOREM TurnIsKept == OrderBookSpec => []PriceThenArrival
<1>1. BooksIInv => PriceThenArrival
  BY DEF BooksIInv, InTurn, Ahead, PriceThenArrival
<1>2. QED
  BY <1>1, BooksInvariant, PTL

\* Two books given the same calls are of one size, and hold the same prices as long
\* as positions are used while the vector is sorted (Order.h:44-53, 79-94).
THEOREM BooksStayAlike == OrderBookSpec => []BooksAgree
<1>1. BooksIInv => BooksAgree
  BY SameCounts DEF BooksIInv, Sound, BooksAgree
<1>2. QED
  BY <1>1, BooksInvariant, PTL

\* What is displayed of a book in order is the best of it.
LEMMA ShownIsBest ==
    ASSUME NEW book \in Seq(Orders), Sorted(book)
    PROVE  IsBest(Shown(book), book)
<1>1. PICK lines : lines = Shown(book)
  OBVIOUS
<1>2. /\ lines \in Seq(Orders)
      /\ Len(lines) = (IF Len(book) < Top THEN Len(book) ELSE Top)
      /\ \A i \in 1 .. Len(lines) : lines[i] = book[i]
  BY <1>1, ShownTypes
<1>3. /\ Len(lines) \in Nat /\ Len(book) \in Nat /\ Len(lines) <= Len(book)
      /\ DOMAIN lines = 1 .. Len(lines) /\ DOMAIN book = 1 .. Len(book)
  BY <1>2, BookTypes, OrderBookAssumption
<1>4. ASSUME NEW i \in DOMAIN lines
      PROVE  /\ lines[i] \in ToSet(book)
             /\ \A order \in ToSet(book) \ ToSet(lines) : lines[i].price >= order.price
  <2>1. i \in 1 .. Len(book) /\ lines[i] = book[i]
    BY <1>2, <1>3
  <2>2. ASSUME NEW order \in ToSet(book), order \notin ToSet(lines)
        PROVE  lines[i].price >= order.price
    <3>1. PICK j \in 1 .. Len(book) : order = book[j]
      BY <1>3 DEF ToSet
    <3>2. ~(j \in 1 .. Len(lines))
      BY <1>2, <1>3, <2>2, <3>1 DEF ToSet
    <3>3. i < j
      BY <1>3, <3>2
    <3>4. QED
      BY <1>3, <2>1, <3>1, <3>3 DEF Sorted
  <2>3. QED
    BY <1>3, <2>1, <2>2 DEF ToSet
<1>5. QED
  BY <1>1, <1>2, <1>4 DEF IsBest

\* No order is displayed in place of a better one, after any history of changes to
\* an unsorted vector (Order.h:52-58, 96-102).
THEOREM DisplayIsBest == OrderBookSpec => BestShown
<1>1. ASSUME BooksIInv, displayTopOrders
      PROVE  IsBest(shown'.vector, vector) /\ IsBest(shown'.multiset, multiset)
  <2>1. PICK s : s = vector'
    OBVIOUS
  <2>2. s \in Arrangements(vector) /\ shown'.vector = Shown(s) /\ shown'.multiset = Shown(multiset)
    BY <1>1, <2>1 DEF displayTopOrders
  <2>3. s \in Seq(Orders) /\ Len(s) = Len(vector) /\ Sorted(s) /\ ToSet(s) = ToSet(vector)
    BY <1>1, <2>2, SortedIsPaired DEF BooksIInv, Sound
  <2>4. IsBest(Shown(s), s)
    BY <2>3, ShownIsBest
  <2>5. IsBest(Shown(s), vector)
    BY <2>3, <2>4 DEF IsBest
  <2>6. IsBest(Shown(multiset), multiset)
    BY <1>1, InTurnSorted, ShownIsBest DEF BooksIInv, Sound
  <2>7. QED
    BY <2>2, <2>5, <2>6
<1>2. BooksIInv /\ [OrderBookNext]_bookVars =>
        [displayTopOrders => IsBest(shown'.vector, vector) /\ IsBest(shown'.multiset, multiset)]_bookVars
  BY <1>1
<1>3. QED
  BY <1>2, BooksInvariant, PTL DEF OrderBookSpec, BestShown

=============================================================================
