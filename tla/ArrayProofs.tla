----------------------------- MODULE ArrayProofs -----------------------------
(***************************************************************************)
(* Theorems about CTestArray, for any values, capacities and lengths: its  *)
(* types, and that the block of memory is a list, call by call.            *)
(***************************************************************************)
EXTENDS CTestArray, SequenceTheorems, FiniteSetTheorems, NaturalsInduction,
        WellFoundedInduction, TLAPS

-----------------------------------------------------------------------------
(* Lists, place by place *)

\* The first n cells of a block, as a list.
ListOf(block, n) == [i \in 1 .. n |-> block[i - 1]]

LEMMA ListOfCells ==
    ASSUME NEW V, NEW n \in Nat, NEW block, \A i \in 0 .. (n - 1) : block[i] \in V
    PROVE  /\ ListOf(block, n) \in Seq(V)
           /\ Len(ListOf(block, n)) = n
           /\ DOMAIN ListOf(block, n) = 1 .. n
           /\ \A i \in 1 .. n : ListOf(block, n)[i] = block[i - 1]
<1>1. \A i \in 1 .. n : i - 1 \in 0 .. (n - 1)
  OBVIOUS
<1>2. ListOf(block, n) \in [1 .. n -> V]
  BY <1>1 DEF ListOf
<1>3. ListOf(block, n) \in Seq(V)
  BY <1>2, SeqDef
<1>4. DOMAIN ListOf(block, n) = 1 .. n /\ Len(ListOf(block, n)) \in Nat
  BY <1>2, <1>3, LenProperties
<1>5. Len(ListOf(block, n)) = n
  BY <1>3, <1>4, LenProperties
<1>6. QED
  BY <1>3, <1>4, <1>5 DEF ListOf

\* A list is what a block holds when it has its length and its elements.
LEMMA SameList ==
    ASSUME NEW V, NEW n \in Nat, NEW block, NEW s \in Seq(V), Len(s) = n,
           \A i \in 1 .. n : block[i - 1] = s[i]
    PROVE  ListOf(block, n) = s
<1>1. DOMAIN s = 1 .. n /\ s \in [1 .. n -> V]
  BY LenProperties
<1>2. QED
  BY <1>1 DEF ListOf

LEMMA ConcatAt ==
    ASSUME NEW V, NEW a \in Seq(V), NEW b \in Seq(V), NEW m, NEW n, Len(a) = m, Len(b) = n
    PROVE  /\ a \o b \in Seq(V) /\ Len(a \o b) = m + n
           /\ \A i \in 1 .. m : (a \o b)[i] = a[i]
           /\ \A i \in (m + 1) .. (m + n) : (a \o b)[i] = b[i - m]
<1>1. m \in Nat /\ n \in Nat
  BY LenProperties
<1>2. /\ a \o b \in Seq(V) /\ Len(a \o b) = m + n
      /\ \A i \in 1 .. m + n : (a \o b)[i] = IF i <= m THEN a[i] ELSE b[i - m]
  BY ConcatProperties
<1>3. QED
  BY <1>1, <1>2

LEMMA SubSeqAt ==
    ASSUME NEW V, NEW s \in Seq(V), NEW m \in Nat, NEW n \in Nat,
           1 <= m, m <= n + 1, n <= Len(s)
    PROVE  /\ SubSeq(s, m, n) \in Seq(V) /\ Len(SubSeq(s, m, n)) = n + 1 - m
           /\ \A i \in 1 .. n + 1 - m : SubSeq(s, m, n)[i] = s[m + i - 1]
<1> DEFINE a == SubSeq(s, m, n)
<1>1. \A i \in m .. n : s[i] \in V
  <2>1. Len(s) \in Nat
    BY LenProperties
  <2>2. \A i \in m .. n : i \in 1 .. Len(s)
    BY <2>1
  <2>3. QED
    BY <2>2, ElementOfSeq
<1>2. /\ a \in Seq(V) /\ Len(a) = IF m <= n THEN n - m + 1 ELSE 0
      /\ \A i \in 1 .. n - m + 1 : a[i] = s[m + i - 1]
  BY <1>1, SubSeqProperties
<1> HIDE DEF a
<1>3. n - m + 1 = n + 1 - m /\ (m <= n \/ n + 1 - m = 0)
  OBVIOUS
<1>4. Len(a) = n + 1 - m
  <2>1. CASE m <= n
    BY <1>2, <1>3, <2>1
  <2>2. CASE ~(m <= n)
    BY <1>2, <1>3, <2>2
  <2>3. QED
    BY <2>1, <2>2
<1>5. QED
  BY <1>2, <1>3, <1>4 DEF a

\* The list s of length n without its k-th element, and with a value put in at k.
Without(s, n, k) == SubSeq(s, 1, k - 1) \o SubSeq(s, k + 1, n)
With(s, n, k, value) == SubSeq(s, 1, k - 1) \o <<value>> \o SubSeq(s, k, n)

\* Taking out the k-th element moves up those behind it.
LEMMA RemovedAt ==
    ASSUME NEW V, NEW s \in Seq(V), NEW n, Len(s) = n, NEW k \in 1 .. n,
           NEW r, r = Without(s, n, k)
    PROVE  /\ r \in Seq(V) /\ Len(r) = n - 1
           /\ \A i \in 1 .. (k - 1) : r[i] = s[i]
           /\ \A i \in k .. (n - 1) : r[i] = s[i + 1]
<1> DEFINE a == SubSeq(s, 1, k - 1)
           b == SubSeq(s, k + 1, n)
<1>1. n \in Nat /\ k \in Nat /\ 1 <= k /\ k <= n
  BY LenProperties
<1>2. a \in Seq(V) /\ Len(a) = k - 1 /\ \A i \in 1 .. (k - 1) : a[i] = s[i]
  <2>1. /\ a \in Seq(V) /\ Len(a) = k - 1 + 1 - 1
        /\ \A i \in 1 .. k - 1 + 1 - 1 : a[i] = s[1 + i - 1]
    BY <1>1, SubSeqAt
  <2> HIDE DEF a
  <2>2. QED
    BY <1>1, <2>1
<1>3. b \in Seq(V) /\ Len(b) = n - k /\ \A i \in 1 .. (n - k) : b[i] = s[k + i]
  <2>1. /\ b \in Seq(V) /\ Len(b) = n + 1 - (k + 1)
        /\ \A i \in 1 .. n + 1 - (k + 1) : b[i] = s[k + 1 + i - 1]
    BY <1>1, SubSeqAt
  <2> HIDE DEF b
  <2>2. n + 1 - (k + 1) = n - k /\ \A i \in 1 .. (n - k) : k + 1 + i - 1 = k + i
    BY <1>1
  <2>3. QED
    BY <2>1, <2>2
<1>4. r = a \o b
  BY DEF Without
<1> HIDE DEF a, b
<1>5. PICK m : m = k - 1
  OBVIOUS
<1>6. /\ r \in Seq(V) /\ Len(r) = m + (n - k)
      /\ \A i \in 1 .. m : r[i] = a[i]
      /\ \A i \in (m + 1) .. (m + (n - k)) : r[i] = b[i - m]
  BY <1>2, <1>3, <1>4, <1>5, ConcatAt
<1>7. ASSUME NEW i \in k .. (n - 1) PROVE r[i] = s[i + 1]
  <2>1. i \in (m + 1) .. (m + (n - k)) /\ i - m \in 1 .. (n - k) /\ k + (i - m) = i + 1
    BY <1>1, <1>5
  <2>2. r[i] = b[i - m] /\ b[i - m] = s[k + (i - m)]
    BY <1>3, <1>6, <2>1
  <2>3. QED
    BY <2>1, <2>2
<1>8. Len(r) = n - 1 /\ \A i \in 1 .. (k - 1) : r[i] = s[i]
  BY <1>1, <1>2, <1>5, <1>6
<1>9. QED
  BY <1>6, <1>7, <1>8

\* Putting an element in at k moves down those from k on.
LEMMA InsertedAt ==
    ASSUME NEW V, NEW s \in Seq(V), NEW n, Len(s) = n, NEW k, NEW value \in V,
           NEW above, above = n + 1, k \in 1 .. above, NEW r, r = With(s, n, k, value)
    PROVE  /\ r \in Seq(V) /\ Len(r) = above
           /\ \A i \in 1 .. (k - 1) : r[i] = s[i]
           /\ r[k] = value
           /\ \A i \in (k + 1) .. above : r[i] = s[i - 1]
<1> DEFINE a == SubSeq(s, 1, k - 1)
           b == SubSeq(s, k, n)
<1>1. n \in Nat /\ k \in Nat /\ 1 <= k /\ k <= n + 1
  BY LenProperties
<1>2. a \in Seq(V) /\ Len(a) = k - 1 /\ \A i \in 1 .. (k - 1) : a[i] = s[i]
  <2>1. /\ a \in Seq(V) /\ Len(a) = k - 1 + 1 - 1
        /\ \A i \in 1 .. k - 1 + 1 - 1 : a[i] = s[1 + i - 1]
    BY <1>1, SubSeqAt
  <2> HIDE DEF a
  <2>2. QED
    BY <1>1, <2>1
<1>3. b \in Seq(V) /\ Len(b) = n + 1 - k /\ \A i \in 1 .. (n + 1 - k) : b[i] = s[k + i - 1]
  BY <1>1, SubSeqAt
<1>4. PICK upto : upto = Append(a, value)
  OBVIOUS
<1>5. r = upto \o b
  BY <1>2, <1>4, AppendIsConcat DEF With
<1> HIDE DEF a, b
<1>6. /\ upto \in Seq(V) /\ Len(upto) = (k - 1) + 1
      /\ \A i \in 1 .. (k - 1) : upto[i] = a[i]
      /\ upto[(k - 1) + 1] = value
  BY <1>2, <1>4, AppendProperties
<1>7. (k - 1) + 1 = k
  BY <1>1
<1>8. Len(upto) = k /\ upto[k] = value /\ \A i \in 1 .. (k - 1) : upto[i] = s[i]
  BY <1>2, <1>6, <1>7
<1>9. PICK w : upto \in Seq(V) /\ b \in Seq(V) /\ Len(b) = w /\ w = n + 1 - k
  BY <1>3, <1>6
<1>10. /\ r \in Seq(V) /\ Len(r) = k + w
       /\ \A i \in 1 .. k : r[i] = upto[i]
       /\ \A i \in (k + 1) .. (k + w) : r[i] = b[i - k]
  BY <1>5, <1>8, <1>9, ConcatAt
<1>11. ASSUME NEW i \in (k + 1) .. above PROVE r[i] = s[i - 1]
  <2>1. /\ i \in (k + 1) .. (k + w) /\ i - k \in 1 .. (n + 1 - k)
        /\ k + (i - k) - 1 = i - 1
    BY <1>1, <1>9
  <2>2. r[i] = b[i - k] /\ b[i - k] = s[k + (i - k) - 1]
    BY <1>3, <1>10, <2>1
  <2>3. QED
    BY <2>1, <2>2
<1>12. Len(r) = above /\ r[k] = value /\ \A i \in 1 .. (k - 1) : r[i] = s[i]
  BY <1>1, <1>8, <1>9, <1>10
<1>13. QED
  BY <1>10, <1>11, <1>12

-----------------------------------------------------------------------------
(* The loops of Delete and Insert *)

\* Inductions on naturals go by the least counterexample.
LEMMA LeastElement ==
    ASSUME NEW K, K \subseteq Nat, K # {}
    PROVE  \E k \in K : \A l \in K : k <= l
<1> DEFINE Below == {p \in Nat \X Nat : p[1] < p[2]}
<1>1. Below = OpToRel(<, Nat)
  BY Zenon DEF OpToRel
<1>2. IsWellFoundedOn(Below, Nat)
  BY <1>1, NatLessThanWellFounded
<1>3. PICK k \in K : \A l \in K : <<l, k>> \notin Below
  BY <1>2, WFMin
<1>4. \A l \in K : l < k => <<l, k>> \in Below
  OBVIOUS
<1>5. \A l \in K : ~(l < k)
  <2> HIDE DEF Below
  <2> QED BY <1>3, <1>4
<1>6. QED
  BY <1>5

\* A block of n cells in which those from low on, below i, have moved down by one.
Lowered(block, n, low, i) ==
    [j \in 0 .. (n - 1) |-> IF low <= j /\ j < i THEN block[j + 1] ELSE block[j]]

\* A block of n cells in which those above i, up to high, have moved up by one.
Raised(block, n, high, i) ==
    [j \in 0 .. (n - 1) |-> IF i < j /\ j <= high THEN block[j - 1] ELSE block[j]]

\* One turn of the loop of Delete, and of the loop of Insert.
LEMMA LoweredOnce ==
    ASSUME NEW n \in Nat, NEW block, NEW low \in Nat,
           NEW i \in Nat, low < i, i < n, NEW before, before = Lowered(block, n, low, i - 1)
    PROVE  [before EXCEPT ![i - 1] = before[i]] = Lowered(block, n, low, i)
<1>1. PICK after : after = [before EXCEPT ![i - 1] = before[i]]
  OBVIOUS
<1>2. i \in 0 .. (n - 1) /\ i - 1 \in 0 .. (n - 1) /\ (i - 1) + 1 = i
  OBVIOUS
<1>3. before[i] = block[i]
  BY <1>2 DEF Lowered
<1>4. after = [j \in 0 .. (n - 1) |-> IF j = i - 1 THEN block[i] ELSE before[j]]
  BY <1>1, <1>2, <1>3 DEF Lowered
<1>5. ASSUME NEW j \in 0 .. (n - 1)
      PROVE  (IF j = i - 1 THEN block[i] ELSE before[j])
               = (IF low <= j /\ j < i THEN block[j + 1] ELSE block[j])
  <2>1. CASE j = i - 1
    BY <1>2, <2>1
  <2>2. CASE j # i - 1
    <3>1. low <= j /\ j < i <=> low <= j /\ j < i - 1
      BY <2>2
    <3>2. before[j] = IF low <= j /\ j < i - 1 THEN block[j + 1] ELSE block[j]
      BY DEF Lowered
    <3>3. QED
      BY <2>2, <3>1, <3>2
  <2>3. QED
    BY <2>1, <2>2
<1>6. QED
  BY <1>1, <1>4, <1>5 DEF Lowered

LEMMA RaisedOnce ==
    ASSUME NEW n \in Nat, NEW block, NEW high \in Nat,
           NEW i \in Nat, i < high, high < n, NEW before, before = Raised(block, n, high, i + 1)
    PROVE  [before EXCEPT ![i + 1] = before[i]] = Raised(block, n, high, i)
<1>1. PICK after : after = [before EXCEPT ![i + 1] = before[i]]
  OBVIOUS
<1>2. i \in 0 .. (n - 1) /\ i + 1 \in 0 .. (n - 1) /\ (i + 1) - 1 = i
  OBVIOUS
<1>3. before[i] = block[i]
  BY <1>2 DEF Raised
<1>4. after = [j \in 0 .. (n - 1) |-> IF j = i + 1 THEN block[i] ELSE before[j]]
  BY <1>1, <1>2, <1>3 DEF Raised
<1>5. ASSUME NEW j \in 0 .. (n - 1)
      PROVE  (IF j = i + 1 THEN block[i] ELSE before[j])
               = (IF i < j /\ j <= high THEN block[j - 1] ELSE block[j])
  <2>1. CASE j = i + 1
    BY <1>2, <2>1
  <2>2. CASE j # i + 1
    <3>1. i < j /\ j <= high <=> i + 1 < j /\ j <= high
      BY <2>2
    <3>2. before[j] = IF i + 1 < j /\ j <= high THEN block[j - 1] ELSE block[j]
      BY DEF Raised
    <3>3. QED
      BY <2>2, <3>1, <3>2
  <2>3. QED
    BY <2>1, <2>2
<1>6. QED
  BY <1>1, <1>4, <1>5 DEF Raised

\* The loop of Delete moves the cells behind index down by one, however many they are.
LEMMA ShiftedDownIs ==
    ASSUME NEW V, NEW n \in Nat, NEW block \in [0 .. (n - 1) -> V],
           NEW index \in Nat, m_length \in Nat, index < m_length, m_length <= n
    PROVE  ShiftedDown(block, index) = Lowered(block, n, index, m_length - 1)
<1>1. PICK last : last = m_length - 1
  OBVIOUS
<1>2. last \in Nat /\ index <= last /\ last < n
  BY <1>1
<1> DEFINE Step(f, i) == IF i = index THEN block ELSE [f[i - 1] EXCEPT ![i - 1] = f[i - 1][i]]
           Loop(f) == f = [i \in index .. last |-> Step(f, i)]
<1>3. Lowered(block, n, index, index) = block
  <2>1. \A j \in 0 .. (n - 1) :
           (IF index <= j /\ j < index THEN block[j + 1] ELSE block[j]) = block[j]
    OBVIOUS
  <2>2. QED
    BY <2>1 DEF Lowered
<1>4. ASSUME NEW i \in Nat, index < i, i <= last,
             NEW before, before = Lowered(block, n, index, i - 1)
      PROVE  [before EXCEPT ![i - 1] = before[i]] = Lowered(block, n, index, i)
  <2>1. i < n
    BY <1>2, <1>4
  <2>2. QED
    BY <1>4, <2>1, LoweredOnce
<1>5. \E f : Loop(f)
  <2>1. PICK f : f = [i \in index .. last |-> Lowered(block, n, index, i)]
    OBVIOUS
  <2>2. ASSUME NEW i \in index .. last PROVE Step(f, i) = Lowered(block, n, index, i)
    <3>1. CASE i = index
      BY <1>3, <3>1
    <3>2. CASE i # index
      <4>1. i \in Nat /\ index < i /\ i <= last /\ i - 1 \in index .. last
        BY <1>2, <3>2
      <4>2. f[i - 1] = Lowered(block, n, index, i - 1)
        BY <2>1, <4>1
      <4>3. QED
        BY <1>4, <3>2, <4>1, <4>2
    <3>3. QED
      BY <3>1, <3>2
  <2> HIDE DEF Step
  <2>3. QED
    BY <2>1, <2>2
<1>6. ASSUME NEW f, Loop(f) PROVE f[last] = Lowered(block, n, index, last)
  <2> DEFINE K == {i \in index .. last : f[i] # Lowered(block, n, index, i)}
  <2>1. ASSUME K # {} PROVE FALSE
    <3>1. PICK k \in K : \A l \in K : k <= l
      <4>1. K \subseteq Nat
        BY <1>2
      <4> HIDE DEF K
      <4>2. QED
        BY <2>1, <4>1, LeastElement
    <3>2. k \in index .. last /\ f[k] # Lowered(block, n, index, k)
      OBVIOUS
    <3>3. f[k] = Step(f, k)
      <4> HIDE DEF Step
      <4> QED BY <1>6, <3>2
    <3>4. CASE k = index
      BY <1>3, <3>2, <3>3, <3>4
    <3>5. CASE k # index
      <4>1. k \in Nat /\ index < k /\ k <= last /\ k - 1 \in index .. last /\ ~(k <= k - 1)
        BY <1>2, <3>2, <3>5
      <4>2. k - 1 \notin K
        <5> HIDE DEF K
        <5> QED BY <3>1, <4>1
      <4>3. f[k - 1] = Lowered(block, n, index, k - 1)
        BY <4>1, <4>2
      <4>4. QED
        BY <1>4, <3>2, <3>3, <3>5, <4>1, <4>3
    <3>6. QED
      BY <3>4, <3>5
  <2>2. last \in index .. last
    BY <1>2
  <2>3. QED
    BY <2>1, <2>2
<1>7. ShiftedDown(block, index) = (CHOOSE f : Loop(f))[last]
  BY <1>1 DEF ShiftedDown
<1> HIDE DEF Loop
<1>8. QED
  BY <1>1, <1>5, <1>6, <1>7

\* The loop of Insert moves the cells from index on up by one, however many they are.
LEMMA ShiftedUpIs ==
    ASSUME NEW V, NEW n \in Nat, NEW block \in [0 .. (n - 1) -> V],
           NEW index \in Nat, m_length \in Nat, index <= m_length, m_length < n
    PROVE  ShiftedUp(block, index) = Raised(block, n, m_length, index)
<1>1. PICK last : last = m_length
  OBVIOUS
<1>2. last \in Nat /\ index <= last /\ last < n
  BY <1>1
<1> DEFINE Step(f, i) == IF i = last THEN block ELSE [f[i + 1] EXCEPT ![i + 1] = f[i + 1][i]]
           Loop(f) == f = [i \in index .. last |-> Step(f, i)]
<1>3. Raised(block, n, last, last) = block
  <2>1. \A j \in 0 .. (n - 1) :
           (IF last < j /\ j <= last THEN block[j - 1] ELSE block[j]) = block[j]
    BY <1>2
  <2>2. QED
    BY <2>1 DEF Raised
<1>4. ASSUME NEW i \in Nat, i < last, NEW before, before = Raised(block, n, last, i + 1)
      PROVE  [before EXCEPT ![i + 1] = before[i]] = Raised(block, n, last, i)
  BY <1>2, <1>4, RaisedOnce
<1>5. \E f : Loop(f)
  <2>1. PICK f : f = [i \in index .. last |-> Raised(block, n, last, i)]
    OBVIOUS
  <2>2. ASSUME NEW i \in index .. last PROVE Step(f, i) = Raised(block, n, last, i)
    <3>1. CASE i = last
      BY <1>3, <3>1
    <3>2. CASE i # last
      <4>1. i \in Nat /\ i < last /\ i + 1 \in index .. last
        BY <1>2, <3>2
      <4>2. f[i + 1] = Raised(block, n, last, i + 1)
        BY <2>1, <4>1
      <4>3. QED
        BY <1>4, <3>2, <4>1, <4>2
    <3>3. QED
      BY <3>1, <3>2
  <2> HIDE DEF Step
  <2>3. QED
    BY <2>1, <2>2
<1>6. ASSUME NEW f, Loop(f) PROVE f[index] = Raised(block, n, last, index)
  <2> DEFINE K == {d \in 0 .. (last - index) : f[last - d] # Raised(block, n, last, last - d)}
  <2>1. ASSUME K # {} PROVE FALSE
    <3>1. PICK d \in K : \A l \in K : d <= l
      <4>1. K \subseteq Nat
        BY <1>2
      <4> HIDE DEF K
      <4>2. QED
        BY <2>1, <4>1, LeastElement
    <3>2. PICK k : k = last - d
      OBVIOUS
    <3>3. d \in 0 .. (last - index) /\ k \in index .. last /\ f[k] # Raised(block, n, last, k)
      BY <1>2, <3>2
    <3>4. f[k] = Step(f, k)
      <4> HIDE DEF Step
      <4> QED BY <1>6, <3>3
    <3>5. CASE k = last
      BY <1>3, <3>3, <3>4, <3>5
    <3>6. CASE k # last
      <4>1. k \in Nat /\ k < last /\ k + 1 \in index .. last
        BY <1>2, <3>3, <3>6
      <4>2. d - 1 \in 0 .. (last - index) /\ ~(d <= d - 1) /\ last - (d - 1) = k + 1
        BY <1>2, <3>2, <3>3, <3>6
      <4>3. d - 1 \notin K
        <5> HIDE DEF K
        <5> QED BY <3>1, <4>2
      <4>4. f[k + 1] = Raised(block, n, last, k + 1)
        BY <4>2, <4>3
      <4>5. QED
        BY <1>4, <3>3, <3>4, <3>6, <4>1, <4>4
    <3>7. QED
      BY <3>5, <3>6
  <2>2. last - index \in 0 .. (last - index) /\ last - (last - index) = index
    BY <1>2
  <2>3. QED
    BY <2>1, <2>2
<1>7. ShiftedUp(block, index) = (CHOOSE f : Loop(f))[index]
  BY <1>1 DEF ShiftedUp
<1> HIDE DEF Loop
<1>8. QED
  BY <1>1, <1>5, <1>6, <1>7

-----------------------------------------------------------------------------
(* The invariant *)

\* The elements are in the block, and they have been written.
ArrayIInv ==
    /\ ArrayTypeOK
    /\ m_length <= m_capacity
    /\ \A i \in 0 .. (m_length - 1) : cells[i] \in Values

LEMMA ElementsAre ==
    ASSUME ArrayIInv
    PROVE  /\ m_length \in Nat /\ Elements = ListOf(cells, m_length)
           /\ Elements \in Seq(Values) /\ Len(Elements) = m_length
           /\ DOMAIN Elements = 1 .. m_length
           /\ \A i \in 1 .. m_length : Elements[i] = cells[i - 1]
<1>1. m_length \in Nat /\ \A i \in 0 .. (m_length - 1) : cells[i] \in Values
  BY DEF ArrayIInv, ArrayTypeOK
<1>2. Elements = ListOf(cells, m_length)
  BY DEF Elements, ListOf
<1>3. QED
  BY <1>1, <1>2, ListOfCells

LEMMA InitArray == ArrayInit => ArrayIInv /\ Abstract!ListInit
<1> SUFFICES ASSUME ArrayInit PROVE ArrayIInv /\ Abstract!ListInit
  OBVIOUS
<1>1. PICK n \in Capacities : Construct(n)
  BY DEF ArrayInit
<1>2. n \in Nat
  BY ArrayAssumption
<1>3. ArrayIInv
  BY <1>1, <1>2 DEF Construct, NewBlock, ArrayIInv, ArrayTypeOK
<1>4. Elements = <<>>
  BY <1>1 DEF Construct, Elements
<1>5. QED
  BY <1>1, <1>3, <1>4 DEF Construct, Abstract!ListInit

\* A call that stops the program leaves the block, and the list, as it was.
LEMMA StopKeeps ==
    ASSUME ArrayIInv, NEW reason \in {"exited", "undefined"}, Stop(reason)
    PROVE  ArrayIInv' /\ Abstract!Stops(reason) /\ (m_capacity' > 0) = (m_capacity > 0)
<1>1. ArrayIInv'
  BY DEF ArrayIInv, ArrayTypeOK, Stop
<1>2. Elements' = Elements
  BY DEF Stop, Elements
<1>3. QED
  BY <1>1, <1>2 DEF Stop, Abstract!Stops

\* The block that Push_back and Insert write to: it holds the elements, and has room
\* for one more unless it was constructed without any.
LEMMA RoomyFacts ==
    ASSUME ArrayIInv
    PROVE  /\ RoomyCapacity \in Nat
           /\ RoomyCells \in [0 .. (RoomyCapacity - 1) -> Values \cup {Nothing}]
           /\ \A i \in 0 .. (m_length - 1) : RoomyCells[i] = cells[i]
           /\ m_capacity > 0 <=> m_length < RoomyCapacity
           /\ m_capacity > 0 <=> RoomyCapacity > 0
<1>1. /\ m_capacity \in Nat /\ m_length \in Nat /\ m_length <= m_capacity
      /\ cells \in [0 .. (m_capacity - 1) -> Values \cup {Nothing}]
      /\ \A i \in 0 .. (m_length - 1) : cells[i] \in Values
  BY DEF ArrayIInv, ArrayTypeOK
<1>2. CASE IsFull
  <2>1. m_length = m_capacity /\ RoomyCapacity = m_capacity * 2
        /\ RoomyCells = Grown(cells, m_capacity * 2)
    BY <1>2 DEF IsFull, RoomyCapacity, RoomyCells
  <2>2. PICK n : n = m_capacity * 2 /\ n \in Nat /\ m_length <= n
    BY <1>1, <2>1
  <2>3. /\ Grown(cells, n) \in [0 .. (n - 1) -> Values \cup {Nothing}]
        /\ \A i \in 0 .. (m_length - 1) : Grown(cells, n)[i] = cells[i]
    BY <1>1, <2>2 DEF Grown
  <2>4. m_capacity > 0 <=> m_length < n
    BY <1>1, <2>1, <2>2
  <2>5. QED
    BY <1>1, <2>1, <2>2, <2>3, <2>4
<1>3. CASE ~IsFull
  <2>1. m_length # m_capacity /\ RoomyCapacity = m_capacity /\ RoomyCells = cells
    BY <1>3 DEF IsFull, RoomyCapacity, RoomyCells
  <2>2. QED
    BY <1>1, <2>1
<1>4. QED
  BY <1>2, <1>3

-----------------------------------------------------------------------------
(* Each call is the list's operation *)

LEMMA PushIsAdd ==
    ASSUME ArrayIInv, NEW value \in Values, Push_back(value)
    PROVE  /\ ArrayIInv' /\ (m_capacity' > 0) = (m_capacity > 0)
           /\ m_capacity > 0 => Abstract!Add(value)
<1>1. PICK n, block : n = RoomyCapacity /\ block = RoomyCells
  OBVIOUS
<1>2. /\ n \in Nat /\ block \in [0 .. (n - 1) -> Values \cup {Nothing}]
      /\ \A i \in 0 .. (m_length - 1) : block[i] = cells[i]
      /\ m_capacity > 0 <=> m_length < n
      /\ m_capacity > 0 <=> n > 0
  BY <1>1, RoomyFacts
<1>3. m_length \in Nat /\ \A i \in 0 .. (m_length - 1) : cells[i] \in Values
  BY DEF ArrayIInv, ArrayTypeOK
<1>4. CASE m_length >= n
  <2>1. Stop("undefined") /\ ~(m_capacity > 0)
    BY <1>1, <1>2, <1>3, <1>4 DEF Push_back
  <2>2. QED
    BY <2>1, StopKeeps
<1>5. CASE ~(m_length >= n)
  <2>1. /\ m_capacity' = n /\ cells' = [block EXCEPT ![m_length] = value]
        /\ m_length' = m_length + 1 /\ result' = m_length + 1 /\ program' = program
    BY <1>1, <1>5 DEF Push_back, Return
  <2>2. m_length < n /\ m_capacity > 0 /\ n > 0
    BY <1>2, <1>3, <1>5
  <2>3. /\ \A i \in 0 .. (m_length - 1) : cells'[i] = cells[i]
        /\ cells'[m_length] = value
        /\ cells' \in [0 .. (n - 1) -> Values \cup {Nothing}]
    BY <1>2, <1>3, <2>1, <2>2
  <2>4. ArrayIInv'
    <3>1. ArrayTypeOK'
      BY <1>2, <1>3, <2>1, <2>3 DEF ArrayIInv, ArrayTypeOK
    <3>2. m_length' <= m_capacity'
      BY <1>2, <1>3, <2>1, <2>2
    <3>3. ASSUME NEW i \in 0 .. (m_length' - 1) PROVE cells'[i] \in Values
      BY <1>3, <2>1, <2>3
    <3>4. QED
      BY <3>1, <3>2, <3>3 DEF ArrayIInv
  <2>5. PICK s : s = Append(Elements, value)
    OBVIOUS
  <2>6. /\ s \in Seq(Values) /\ Len(s) = m_length + 1
        /\ \A i \in 1 .. m_length : s[i] = cells[i - 1]
        /\ s[m_length + 1] = value
    BY <2>5, ElementsAre, AppendProperties
  <2>7. PICK c, k : c = cells' /\ k = m_length + 1
    OBVIOUS
  <2>8. k \in Nat /\ Len(s) = k /\ \A i \in 1 .. k : c[i - 1] = s[i]
    BY <1>3, <2>3, <2>6, <2>7
  <2>9. ListOf(c, k) = s
    BY <2>6, <2>8, SameList
  <2>10. Elements' = s
    BY <2>1, <2>7, <2>9 DEF Elements, ListOf
  <2>11. Len(Elements') = m_length + 1
    BY <2>6, <2>10
  <2>12. QED
    BY <2>1, <2>2, <2>4, <2>5, <2>10, <2>11 DEF Abstract!Add, Abstract!Returns
<1>6. QED
  BY <1>4, <1>5

LEMMA PopIsTakeLast ==
    ASSUME ArrayIInv, Pop_back
    PROVE  ArrayIInv' /\ Abstract!TakeLast /\ (m_capacity' > 0) = (m_capacity > 0)
<1>1. m_length \in Nat /\ \A i \in 0 .. (m_length - 1) : cells[i] \in Values
  BY DEF ArrayIInv, ArrayTypeOK
<1>2. CASE m_length = 0
  <2>1. Stop("undefined")
    BY <1>2 DEF Pop_back
  <2>2. Elements = <<>>
    BY <1>2 DEF Elements
  <2>3. QED
    BY <2>1, <2>2, StopKeeps DEF Abstract!TakeLast
<1>3. CASE m_length # 0
  <2>1. /\ m_length' = m_length - 1 /\ cells' = cells /\ m_capacity' = m_capacity
        /\ result' = cells[m_length - 1] /\ program' = program
    BY <1>3 DEF Pop_back, Return
  <2>2. m_length - 1 \in 0 .. (m_length - 1)
    BY <1>1, <1>3
  <2>3. cells[m_length - 1] \in Values
    BY <1>1, <2>2
  <2>4. ArrayIInv'
    BY <1>1, <1>3, <2>1, <2>3 DEF ArrayIInv, ArrayTypeOK
  <2>5. PICK l : l = Elements
    OBVIOUS
  <2>6. /\ l \in Seq(Values) /\ Len(l) = m_length
        /\ \A i \in 1 .. m_length : l[i] = cells[i - 1]
    BY <2>5, ElementsAre
  <2>7. PICK k, s : k = m_length - 1 /\ s = SubSeq(l, 1, k)
    OBVIOUS
  <2>8. /\ k \in Nat /\ 1 <= k + 1 /\ k <= Len(l) /\ k + 1 - 1 = k
        /\ \A i \in 1 .. k : 1 + i - 1 = i /\ i \in 1 .. m_length
    BY <1>1, <1>3, <2>6, <2>7
  <2>9. s \in Seq(Values) /\ Len(s) = k + 1 - 1 /\ \A i \in 1 .. k + 1 - 1 : s[i] = l[1 + i - 1]
    BY <2>6, <2>7, <2>8, SubSeqAt
  <2>10. Len(s) = k /\ \A i \in 1 .. k : cells[i - 1] = s[i]
    BY <2>6, <2>8, <2>9
  <2>11. ListOf(cells, k) = s
    BY <2>8, <2>9, <2>10, SameList
  <2>12. Elements' = s
    BY <2>1, <2>7, <2>11 DEF Elements, ListOf
  <2>13. s = Abstract!Front(Elements)
    BY <2>5, <2>6, <2>7 DEF Abstract!Front
  <2>14. cells[m_length - 1] = Abstract!Last(Elements) /\ Elements # <<>>
    <3>1. m_length \in 1 .. m_length
      BY <1>1, <1>3
    <3>2. l[m_length] = cells[m_length - 1] /\ l # <<>>
      BY <1>3, <2>6, <3>1
    <3>3. QED
      BY <2>5, <2>6, <3>2 DEF Abstract!Last
  <2>15. QED
    BY <2>1, <2>4, <2>12, <2>13, <2>14 DEF Abstract!TakeLast, Abstract!Returns
<1>4. QED
  BY <1>2, <1>3

LEMMA DeleteIsDeleteAt ==
    ASSUME ArrayIInv, NEW index \in Int, Delete(index)
    PROVE  ArrayIInv' /\ Abstract!DeleteAt(index) /\ (m_capacity' > 0) = (m_capacity > 0)
<1>1. /\ m_length \in Nat /\ m_capacity \in Nat /\ m_length <= m_capacity
      /\ cells \in [0 .. (m_capacity - 1) -> Values \cup {Nothing}]
      /\ \A i \in 0 .. (m_length - 1) : cells[i] \in Values
  BY DEF ArrayIInv, ArrayTypeOK
<1>2. Len(Elements) = m_length
  BY ElementsAre
<1>3. CASE index < 0 \/ index >= m_length
  <2>1. Stop("exited") /\ index \notin 0 .. (m_length - 1)
    BY <1>1, <1>3 DEF Delete
  <2>2. QED
    BY <1>2, <2>1, StopKeeps DEF Abstract!DeleteAt
<1>4. CASE ~(index < 0 \/ index >= m_length)
  <2>1. /\ m_length' = m_length - 1 /\ m_capacity' = m_capacity
        /\ cells' = ShiftedDown(cells, index)
        /\ result' = Nothing /\ program' = program
    BY <1>4 DEF Delete, Return
  <2>2. index \in 0 .. (m_length - 1) /\ m_length # 0
    BY <1>1, <1>4
  <2>3. PICK c, k : c = cells' /\ k = m_length - 1
    OBVIOUS
  <2>4. /\ c \in [0 .. (m_capacity - 1) -> Values \cup {Nothing}]
        /\ \A i \in 0 .. (index - 1) : c[i] = cells[i]
        /\ \A i \in index .. (k - 1) : c[i] = cells[i + 1]
    <3>1. c = [i \in 0 .. (m_capacity - 1) |->
                 IF index <= i /\ i < m_length - 1 THEN cells[i + 1] ELSE cells[i]]
      <4>1. index \in Nat /\ index < m_length
        BY <1>1, <2>2
      <4>2. c = Lowered(cells, m_capacity, index, m_length - 1)
        BY <1>1, <2>1, <2>3, <4>1, ShiftedDownIs
      <4>3. QED
        BY <4>2 DEF Lowered
    <3>2. \A i \in 0 .. (m_capacity - 1) :
             i < m_length - 1 => i + 1 \in 0 .. (m_capacity - 1)
      BY <1>1
    <3>3. c \in [0 .. (m_capacity - 1) -> Values \cup {Nothing}]
      BY <1>1, <3>1, <3>2
    <3>4. \A i \in 0 .. (index - 1) : c[i] = cells[i]
      BY <1>1, <2>2, <3>1
    <3>5. \A i \in index .. (k - 1) : c[i] = cells[i + 1]
      BY <1>1, <2>2, <2>3, <3>1
    <3>6. QED
      BY <3>3, <3>4, <3>5
  <2>5. \A i \in 0 .. (k - 1) : c[i] \in Values
    <3>1. ASSUME NEW i \in 0 .. (k - 1) PROVE c[i] \in Values
      <4>1. CASE i < index
        <5>1. i \in 0 .. (index - 1) /\ i \in 0 .. (m_length - 1)
          BY <1>1, <2>2, <2>3, <4>1
        <5>2. QED
          BY <1>1, <2>4, <5>1
      <4>2. CASE ~(i < index)
        <5>1. i \in index .. (k - 1) /\ i + 1 \in 0 .. (m_length - 1)
          BY <1>1, <2>2, <2>3, <4>2
        <5>2. QED
          BY <1>1, <2>4, <5>1
      <4>3. QED
        BY <4>1, <4>2
    <3>2. QED
      BY <3>1
  <2>6. ArrayIInv'
    <3>1. ArrayTypeOK'
      BY <1>1, <2>1, <2>2, <2>3, <2>4 DEF ArrayIInv, ArrayTypeOK
    <3>2. QED
      BY <1>1, <2>1, <2>2, <2>3, <2>5, <3>1 DEF ArrayIInv
  <2>7. PICK l, place : l = Elements /\ place = index + 1
    OBVIOUS
  <2>8. /\ l \in Seq(Values) /\ Len(l) = m_length /\ place \in 1 .. m_length
        /\ \A i \in 1 .. m_length : l[i] = cells[i - 1]
    BY <1>1, <2>2, <2>7, ElementsAre
  <2>9. PICK s : s = Without(l, m_length, place)
    OBVIOUS
  <2>10. /\ s \in Seq(Values) /\ Len(s) = m_length - 1
         /\ \A i \in 1 .. (place - 1) : s[i] = l[i]
         /\ \A i \in place .. (m_length - 1) : s[i] = l[i + 1]
    <3>1. l \in Seq(Values) /\ Len(l) = m_length /\ place \in 1 .. m_length
      BY <2>8
    <3>2. QED
      BY <2>9, <3>1, RemovedAt
  <2>11. ASSUME NEW i \in 1 .. k PROVE c[i - 1] = s[i]
    <3>1. CASE i < place
      <4>1. i - 1 \in 0 .. (index - 1) /\ i \in 1 .. (place - 1) /\ i \in 1 .. m_length
        BY <1>1, <2>2, <2>3, <2>7, <3>1
      <4>2. QED
        BY <2>4, <2>8, <2>10, <4>1
    <3>2. CASE ~(i < place)
      <4>1. /\ i - 1 \in index .. (k - 1) /\ i \in place .. (m_length - 1)
            /\ i + 1 \in 1 .. m_length /\ (i - 1) + 1 = i /\ (i + 1) - 1 = i
        BY <1>1, <2>2, <2>3, <2>7, <3>2
      <4>2. c[i - 1] = cells[i] /\ s[i] = l[i + 1] /\ l[i + 1] = cells[i]
        BY <2>4, <2>8, <2>10, <4>1
      <4>3. QED
        BY <4>2
    <3>3. QED
      BY <3>1, <3>2
  <2>12. k \in Nat /\ Len(s) = k
    BY <1>1, <2>2, <2>3, <2>10
  <2>13. ListOf(c, k) = s
    BY <2>10, <2>11, <2>12, SameList
  <2>14. Elements' = s
    BY <2>1, <2>3, <2>13 DEF Elements, ListOf
  <2>15. s = Abstract!RemoveAt(Elements, index + 1)
    BY <2>7, <2>8, <2>9 DEF Abstract!RemoveAt, Without
  <2>16. QED
    BY <1>2, <2>1, <2>2, <2>6, <2>14, <2>15 DEF Abstract!DeleteAt, Abstract!Returns
<1>5. QED
  BY <1>3, <1>4

LEMMA AtIsElementAt ==
    ASSUME ArrayIInv, NEW index \in Int, At(index)
    PROVE  ArrayIInv' /\ Abstract!ElementAt(index) /\ (m_capacity' > 0) = (m_capacity > 0)
<1>1. m_length \in Nat /\ \A i \in 0 .. (m_length - 1) : cells[i] \in Values
  BY DEF ArrayIInv, ArrayTypeOK
<1>2. /\ Len(Elements) = m_length
      /\ \A i \in 1 .. m_length : Elements[i] = cells[i - 1]
  BY ElementsAre
<1>3. CASE index >= m_length
  BY <1>2, <1>3, StopKeeps DEF At, Abstract!ElementAt
<1>4. CASE ~(index >= m_length) /\ index < 0
  BY <1>2, <1>4, StopKeeps DEF At, Abstract!ElementAt
<1>5. CASE ~(index >= m_length) /\ ~(index < 0)
  <2>1. /\ result' = cells[index] /\ program' = program
        /\ cells' = cells /\ m_capacity' = m_capacity /\ m_length' = m_length
    BY <1>5 DEF At, Return
  <2>2. index \in 0 .. (m_length - 1) /\ index + 1 \in 1 .. m_length /\ (index + 1) - 1 = index
    BY <1>1, <1>5
  <2>3. cells[index] \in Values /\ Elements[index + 1] = cells[index]
    BY <1>1, <1>2, <2>2
  <2>4. ArrayIInv'
    BY <2>1, <2>3 DEF ArrayIInv, ArrayTypeOK
  <2>5. Elements' = Elements
    BY <2>1 DEF Elements
  <2>6. QED
    BY <1>2, <1>5, <2>1, <2>3, <2>4, <2>5 DEF Abstract!ElementAt, Abstract!Returns
<1>6. QED
  BY <1>3, <1>4, <1>5

LEMMA AssignIsWriteAt ==
    ASSUME ArrayIInv, NEW index \in Int, NEW value \in Values, Assign(index, value)
    PROVE  ArrayIInv' /\ Abstract!WriteAt(index, value) /\ (m_capacity' > 0) = (m_capacity > 0)
<1>1. /\ m_length \in Nat /\ m_capacity \in Nat /\ m_length <= m_capacity
      /\ cells \in [0 .. (m_capacity - 1) -> Values \cup {Nothing}]
      /\ \A i \in 0 .. (m_length - 1) : cells[i] \in Values
  BY DEF ArrayIInv, ArrayTypeOK
<1>2. Len(Elements) = m_length
  BY ElementsAre
<1>3. CASE index >= m_length
  BY <1>2, <1>3, StopKeeps DEF Assign, Abstract!WriteAt
<1>4. CASE ~(index >= m_length) /\ index < 0
  BY <1>2, <1>4, StopKeeps DEF Assign, Abstract!WriteAt
<1>5. CASE ~(index >= m_length) /\ ~(index < 0)
  <2>1. /\ cells' = [cells EXCEPT ![index] = value]
        /\ result' = Nothing /\ program' = program
        /\ m_capacity' = m_capacity /\ m_length' = m_length
    BY <1>5 DEF Assign, Return
  <2>2. index \in 0 .. (m_length - 1) /\ index \in 0 .. (m_capacity - 1)
    BY <1>1, <1>5
  <2>3. PICK c : c = cells'
    OBVIOUS
  <2>4. /\ c \in [0 .. (m_capacity - 1) -> Values \cup {Nothing}]
        /\ \A i \in 0 .. (m_length - 1) : c[i] = IF i = index THEN value ELSE cells[i]
    <3>1. \A i \in 0 .. (m_length - 1) : i \in 0 .. (m_capacity - 1)
      BY <1>1
    <3>2. QED
      BY <1>1, <2>1, <2>2, <2>3, <3>1
  <2>5. ArrayIInv'
    <3>1. ArrayTypeOK'
      BY <1>1, <2>1, <2>3, <2>4 DEF ArrayIInv, ArrayTypeOK
    <3>2. \A i \in 0 .. (m_length - 1) : c[i] \in Values
      BY <1>1, <2>4
    <3>3. QED
      BY <1>1, <2>1, <2>3, <3>1, <3>2 DEF ArrayIInv
  <2>6. PICK l, k : l = Elements /\ k = index + 1
    OBVIOUS
  <2>7. /\ l \in Seq(Values) /\ Len(l) = m_length /\ DOMAIN l = 1 .. m_length
        /\ \A i \in 1 .. m_length : l[i] = cells[i - 1] /\ l[i] \in Values
    BY <2>6, ElementsAre, ElementOfSeq
  <2>8. PICK s : s = [l EXCEPT ![k] = value]
    OBVIOUS
  <2>9. k \in 1 .. m_length /\ \A i \in 1 .. m_length : i - 1 \in 0 .. (m_length - 1)
    BY <1>1, <2>2, <2>6
  <2>10. s \in Seq(Values) /\ Len(s) = m_length
    BY <2>7, <2>8, <2>9, ExceptSeq
  <2>11. ASSUME NEW i \in 1 .. m_length PROVE c[i - 1] = s[i]
    <3>1. s[i] = IF i = k THEN value ELSE l[i]
      BY <2>7, <2>8
    <3>2. i = k <=> i - 1 = index
      BY <2>2, <2>6
    <3>3. QED
      BY <2>4, <2>7, <2>9, <3>1, <3>2
  <2>12. ListOf(c, m_length) = s
    BY <1>1, <2>10, <2>11, SameList
  <2>13. Elements' = s
    BY <2>1, <2>3, <2>12 DEF Elements, ListOf
  <2>14. s = Abstract!ReplaceAt(Elements, index + 1, value)
    BY <2>6, <2>8 DEF Abstract!ReplaceAt
  <2>15. QED
    BY <1>2, <1>5, <2>1, <2>5, <2>13, <2>14 DEF Abstract!WriteAt, Abstract!Returns
<1>6. QED
  BY <1>3, <1>4, <1>5

LEMMA ClearIsEmpty ==
    ASSUME ArrayIInv, Clear
    PROVE  ArrayIInv' /\ Abstract!Empty /\ (m_capacity' > 0) = (m_capacity > 0)
<1>1. /\ cells' = NewBlock(m_capacity) /\ m_length' = 0 /\ m_capacity' = m_capacity
      /\ result' = Nothing /\ program' = program
  BY DEF Clear, Return
<1>2. ArrayIInv'
  BY <1>1 DEF ArrayIInv, ArrayTypeOK, NewBlock
<1>3. Elements' = <<>>
  BY <1>1 DEF Elements
<1>4. QED
  BY <1>1, <1>2, <1>3 DEF Abstract!Empty, Abstract!Returns

LEMMA InsertIsInsertBefore ==
    ASSUME ArrayIInv, NEW index \in Int, NEW value \in Values, Insert(index, value)
    PROVE  /\ ArrayIInv' /\ (m_capacity' > 0) = (m_capacity > 0)
           /\ m_capacity > 0 => Abstract!InsertBefore(index, value)
<1>1. PICK n, block : n = RoomyCapacity /\ block = RoomyCells
  OBVIOUS
<1>2. /\ n \in Nat /\ block \in [0 .. (n - 1) -> Values \cup {Nothing}]
      /\ \A i \in 0 .. (m_length - 1) : block[i] = cells[i]
      /\ m_capacity > 0 <=> m_length < n
      /\ m_capacity > 0 <=> n > 0
  BY <1>1, RoomyFacts
<1>3. m_length \in Nat /\ \A i \in 0 .. (m_length - 1) : cells[i] \in Values
  BY DEF ArrayIInv, ArrayTypeOK
<1>4. Len(Elements) = m_length
  BY ElementsAre
<1>5. CASE index < 0 \/ index > m_length
  <2>1. Stop("exited") /\ index \notin 0 .. m_length
    BY <1>3, <1>5 DEF Insert
  <2>2. QED
    BY <1>4, <2>1, StopKeeps DEF Abstract!InsertBefore
<1>6. CASE ~(index < 0 \/ index > m_length) /\ m_length >= n
  <2>1. Stop("undefined") /\ ~(m_capacity > 0)
    BY <1>1, <1>2, <1>3, <1>6 DEF Insert
  <2>2. QED
    BY <2>1, StopKeeps
<1>7. CASE ~(index < 0 \/ index > m_length) /\ ~(m_length >= n)
  <2>1. /\ m_capacity' = n /\ cells' = [ShiftedUp(block, index) EXCEPT ![index] = value]
        /\ m_length' = m_length + 1 /\ result' = Nothing /\ program' = program
    BY <1>1, <1>7 DEF Insert, Return
  <2>2. m_length < n /\ m_capacity > 0 /\ n > 0 /\ index \in 0 .. m_length /\ index \in 0 .. (n - 1)
    BY <1>2, <1>3, <1>7
  <2>3. PICK c, k : c = cells' /\ k = m_length + 1
    OBVIOUS
  <2>4. /\ c \in [0 .. (n - 1) -> Values \cup {Nothing}]
        /\ \A i \in 0 .. (index - 1) : c[i] = cells[i]
        /\ c[index] = value
        /\ \A i \in (index + 1) .. m_length : c[i] = cells[i - 1]
    <3>1. PICK up : up = ShiftedUp(block, index)
      OBVIOUS
    <3>2. up = [i \in 0 .. (n - 1) |->
                  IF index < i /\ i <= m_length THEN block[i - 1] ELSE block[i]]
      <4>1. index \in Nat /\ index <= m_length
        BY <1>3, <2>2
      <4>2. up = Raised(block, n, m_length, index)
        BY <1>2, <1>3, <2>2, <3>1, <4>1, ShiftedUpIs
      <4>3. QED
        BY <4>2 DEF Raised
    <3>3. \A i \in 0 .. (n - 1) : index < i => i - 1 \in 0 .. (n - 1)
      BY <1>2, <2>2
    <3>4. up \in [0 .. (n - 1) -> Values \cup {Nothing}]
      BY <1>2, <3>2, <3>3
    <3>5. c = [up EXCEPT ![index] = value]
      BY <2>1, <2>3, <3>1
    <3>6. /\ c \in [0 .. (n - 1) -> Values \cup {Nothing}]
          /\ c[index] = value
          /\ \A i \in 0 .. (n - 1) : i # index => c[i] = up[i]
      BY <2>2, <3>4, <3>5
    <3>7. ASSUME NEW i \in 0 .. (index - 1) PROVE c[i] = cells[i]
      <4>1. /\ i \in 0 .. (n - 1) /\ i # index /\ i \in 0 .. (m_length - 1)
            /\ ~(i > index)
        BY <1>2, <1>3, <2>2
      <4>2. QED
        BY <1>2, <3>2, <3>6, <4>1
    <3>8. ASSUME NEW i \in (index + 1) .. m_length PROVE c[i] = cells[i - 1]
      <4>1. /\ i \in 0 .. (n - 1) /\ i # index /\ i - 1 \in 0 .. (m_length - 1)
            /\ i > index /\ i <= m_length
        BY <1>2, <1>3, <2>2
      <4>2. QED
        BY <1>2, <3>2, <3>6, <4>1
    <3>9. QED
      BY <3>6, <3>7, <3>8
  <2>5. \A i \in 0 .. m_length : c[i] \in Values
    <3>1. ASSUME NEW i \in 0 .. m_length PROVE c[i] \in Values
      <4>1. CASE i < index
        <5>1. i \in 0 .. (index - 1) /\ i \in 0 .. (m_length - 1)
          BY <1>3, <2>2, <4>1
        <5>2. QED
          BY <1>3, <2>4, <5>1
      <4>2. CASE i = index
        BY <2>4, <4>2
      <4>3. CASE i > index
        <5>1. i \in (index + 1) .. m_length /\ i - 1 \in 0 .. (m_length - 1)
          BY <1>3, <2>2, <4>3
        <5>2. QED
          BY <1>3, <2>4, <5>1
      <4>4. i < index \/ i = index \/ i > index
        BY <2>2
      <4>5. QED
        BY <4>1, <4>2, <4>3, <4>4
    <3>2. QED
      BY <3>1
  <2>6. ArrayIInv'
    <3>1. ArrayTypeOK'
      BY <1>2, <1>3, <2>1, <2>3, <2>4 DEF ArrayIInv, ArrayTypeOK
    <3>2. m_length' <= m_capacity' /\ m_length' - 1 = m_length
      BY <1>2, <1>3, <2>1, <2>2
    <3>3. QED
      BY <2>3, <2>5, <3>1, <3>2 DEF ArrayIInv
  <2>7. PICK l, place : l = Elements /\ place = index + 1
    OBVIOUS
  <2>8. /\ l \in Seq(Values) /\ Len(l) = m_length /\ place \in 1 .. (m_length + 1)
        /\ \A i \in 1 .. m_length : l[i] = cells[i - 1]
    BY <1>3, <2>2, <2>7, ElementsAre
  <2>9. PICK s : s = With(l, m_length, place, value)
    OBVIOUS
  <2>10. /\ s \in Seq(Values) /\ Len(s) = m_length + 1
         /\ \A i \in 1 .. (place - 1) : s[i] = l[i]
         /\ s[place] = value
         /\ \A i \in (place + 1) .. (m_length + 1) : s[i] = l[i - 1]
    <3>1. PICK above : above = m_length + 1
      OBVIOUS
    <3>2. l \in Seq(Values) /\ Len(l) = m_length /\ place \in 1 .. above
      BY <2>8, <3>1
    <3>3. /\ s \in Seq(Values) /\ Len(s) = above
          /\ \A i \in 1 .. (place - 1) : s[i] = l[i]
          /\ s[place] = value
          /\ \A i \in (place + 1) .. above : s[i] = l[i - 1]
      BY <2>9, <3>1, <3>2, InsertedAt
    <3>4. QED
      BY <3>1, <3>3
  <2>11. ASSUME NEW i \in 1 .. k PROVE c[i - 1] = s[i]
    <3>1. CASE i < place
      <4>1. i - 1 \in 0 .. (index - 1) /\ i \in 1 .. (place - 1) /\ i \in 1 .. m_length
        BY <1>3, <2>2, <2>3, <2>7, <3>1
      <4>2. QED
        BY <2>4, <2>8, <2>10, <4>1
    <3>2. CASE i = place
      <4>1. i - 1 = index
        BY <2>2, <2>7, <3>2
      <4>2. QED
        BY <2>4, <2>10, <3>2, <4>1
    <3>3. CASE i > place
      <4>1. /\ i - 1 \in (index + 1) .. m_length /\ i \in (place + 1) .. (m_length + 1)
            /\ i - 1 \in 1 .. m_length
        BY <1>3, <2>2, <2>3, <2>7, <3>3
      <4>2. c[i - 1] = cells[(i - 1) - 1] /\ s[i] = l[i - 1] /\ l[i - 1] = cells[(i - 1) - 1]
        BY <2>4, <2>8, <2>10, <4>1
      <4>3. QED
        BY <4>2
    <3>4. i < place \/ i = place \/ i > place
      BY <2>2, <2>7
    <3>5. QED
      BY <3>1, <3>2, <3>3, <3>4
  <2>12. k \in Nat /\ Len(s) = k
    BY <1>3, <2>3, <2>10
  <2>13. ListOf(c, k) = s
    BY <2>10, <2>11, <2>12, SameList
  <2>14. Elements' = s
    BY <2>1, <2>3, <2>13 DEF Elements, ListOf
  <2>15. s = Abstract!InsertAt(Elements, index + 1, value)
    BY <2>7, <2>8, <2>9 DEF Abstract!InsertAt, With
  <2>16. QED
    BY <1>4, <2>1, <2>2, <2>6, <2>14, <2>15 DEF Abstract!InsertBefore, Abstract!Returns
<1>8. QED
  BY <1>5, <1>6, <1>7

\* Sorting leaves a list in order, in which each value is as often as it was.
LEMMA SortIsSortAll ==
    ASSUME ArrayIInv, Sort
    PROVE  ArrayIInv' /\ Abstract!SortAll /\ (m_capacity' > 0) = (m_capacity > 0)
<1>1. /\ m_length \in Nat /\ m_capacity \in Nat /\ m_length <= m_capacity
      /\ cells \in [0 .. (m_capacity - 1) -> Values \cup {Nothing}]
  BY DEF ArrayIInv, ArrayTypeOK
<1>2. PICK l : l = Elements
  OBVIOUS
<1>3. /\ l \in Seq(Values) /\ Len(l) = m_length /\ DOMAIN l = 1 .. m_length
      /\ \A i \in 1 .. m_length : l[i] \in Values
  BY <1>2, ElementsAre, ElementOfSeq
<1>4. PICK sorted \in Sortings(l) :
         cells' = [i \in DOMAIN cells |-> IF i < m_length THEN sorted[i + 1] ELSE cells[i]]
  BY <1>2 DEF Sort
<1>5. /\ m_length' = m_length /\ m_capacity' = m_capacity
      /\ result' = Nothing /\ program' = program
  BY DEF Sort, Return
<1>6. PICK values : values = {l[i] : i \in 1 .. m_length}
  OBVIOUS
<1>7. /\ sorted \in [1 .. m_length -> values]
      /\ \A i, j \in 1 .. m_length : i < j => sorted[i] <= sorted[j]
      /\ \A value \in values :
            Cardinality({i \in 1 .. m_length : sorted[i] = value})
              = Cardinality({i \in 1 .. m_length : l[i] = value})
  <2>1. sorted \in [1 .. m_length -> values]
    BY <1>3, <1>6 DEF Sortings
  <2>2. DOMAIN sorted = 1 .. m_length
    BY <2>1
  <2>3. InOrder(sorted) /\ \A value \in values : Occurrences(sorted, value) = Occurrences(l, value)
    BY <1>3, <1>6 DEF Sortings
  <2>4. QED
    BY <1>3, <2>1, <2>2, <2>3 DEF InOrder, Occurrences
<1>8. values \subseteq Values
  BY <1>3, <1>6
<1>9. sorted \in Seq(Values) /\ Len(sorted) = m_length /\ DOMAIN sorted = 1 .. m_length
  <2>1. sorted \in [1 .. m_length -> Values]
    BY <1>7, <1>8
  <2>2. sorted \in Seq(Values)
    BY <1>1, <2>1, SeqDef
  <2>3. QED
    BY <1>1, <2>1, <2>2, LenProperties
<1>10. PICK c : c = cells'
  OBVIOUS
<1>11. /\ c \in [0 .. (m_capacity - 1) -> Values \cup {Nothing}]
       /\ \A i \in 0 .. (m_length - 1) : c[i] = sorted[i + 1] /\ i + 1 \in 1 .. m_length
  <2>1. \A i \in 0 .. (m_capacity - 1) : i < m_length => i + 1 \in 1 .. m_length
    BY <1>1
  <2>2. \A i \in 1 .. m_length : sorted[i] \in Values
    BY <1>7, <1>8
  <2>3. c = [i \in 0 .. (m_capacity - 1) |-> IF i < m_length THEN sorted[i + 1] ELSE cells[i]]
    BY <1>1, <1>4, <1>10
  <2>4. c \in [0 .. (m_capacity - 1) -> Values \cup {Nothing}]
    BY <1>1, <2>1, <2>2, <2>3
  <2>5. \A i \in 0 .. (m_length - 1) : i \in 0 .. (m_capacity - 1) /\ i < m_length
    BY <1>1
  <2>6. QED
    BY <2>1, <2>3, <2>4, <2>5
<1>12. ArrayIInv'
  <2>1. ArrayTypeOK'
    BY <1>1, <1>5, <1>10, <1>11 DEF ArrayIInv, ArrayTypeOK
  <2>2. \A i \in 0 .. (m_length - 1) : c[i] \in Values
    BY <1>7, <1>8, <1>11
  <2>3. QED
    BY <1>1, <1>5, <1>10, <2>1, <2>2 DEF ArrayIInv
<1>13. Elements' = sorted
  <2>1. \A i \in 1 .. m_length : i - 1 \in 0 .. (m_length - 1) /\ (i - 1) + 1 = i
    BY <1>1
  <2>2. \A i \in 1 .. m_length : c[i - 1] = sorted[i]
    BY <1>11, <2>1
  <2>3. ListOf(c, m_length) = sorted
    BY <1>1, <1>9, <2>2, SameList
  <2>4. QED
    BY <1>5, <1>10, <2>3 DEF Elements, ListOf
<1>14. Abstract!Tally(sorted) = Abstract!Tally(l)
  <2>1. ASSUME NEW value \in Values
        PROVE  Cardinality({i \in 1 .. m_length : sorted[i] = value})
                 = Cardinality({i \in 1 .. m_length : l[i] = value})
    <3>1. CASE value \in values
      BY <1>7, <3>1
    <3>2. CASE value \notin values
      <4>1. {i \in 1 .. m_length : sorted[i] = value} = {}
        BY <1>7, <3>2
      <4>2. {i \in 1 .. m_length : l[i] = value} = {}
        BY <1>6, <3>2
      <4>3. QED
        BY <4>1, <4>2
    <3>3. QED
      BY <3>1, <3>2
  <2>2. ASSUME NEW S PROVE Abstract!Cardinality(S) = Cardinality(S)
    BY DEF Abstract!Cardinality, Cardinality
  <2>3. ASSUME NEW value \in Values
        PROVE  Abstract!Cardinality({i \in 1 .. m_length : sorted[i] = value})
                 = Abstract!Cardinality({i \in 1 .. m_length : l[i] = value})
    BY <2>1, <2>2
  <2>4. QED
    BY <1>3, <1>9, <2>3 DEF Abstract!Tally
<1>15. \A i, j \in 1 .. m_length : i <= j => sorted[i] <= sorted[j]
  <2>1. \A i \in 1 .. m_length : sorted[i] \in Int
    BY <1>7, <1>8, ArrayAssumption
  <2>2. ASSUME NEW i \in 1 .. m_length, NEW j \in 1 .. m_length, i <= j
        PROVE  sorted[i] <= sorted[j]
    <3>1. CASE i = j
      BY <2>1, <3>1
    <3>2. CASE i < j
      BY <1>7, <3>2
    <3>3. QED
      BY <2>2, <3>1, <3>2
  <2>3. QED
    BY <2>2
<1>16. Abstract!SortAll
  BY <1>2, <1>3, <1>5, <1>9, <1>13, <1>14, <1>15 DEF Abstract!SortAll, Abstract!Returns
<1>17. QED
  BY <1>5, <1>12, <1>16

-----------------------------------------------------------------------------
(* The theorems *)

LEMMA NextKeepsIInv ==
    ASSUME ArrayIInv, [ArrayNext]_arrayVars
    PROVE  ArrayIInv' /\ (m_capacity' > 0) = (m_capacity > 0)
<1>1. CASE UNCHANGED arrayVars
  BY <1>1 DEF arrayVars, ArrayIInv, ArrayTypeOK
<1>2. CASE \E value \in Values : Push_back(value)
  BY <1>2, PushIsAdd
<1>3. CASE Pop_back
  BY <1>3, PopIsTakeLast
<1>4. CASE Sort
  BY <1>4, SortIsSortAll
<1>5. CASE Clear
  BY <1>5, ClearIsEmpty
<1>6. ASSUME NEW index \in -1 .. MaxLength,
             Delete(index) \/ At(index)
               \/ \E value \in Values : Assign(index, value) \/ Insert(index, value)
      PROVE  ArrayIInv' /\ (m_capacity' > 0) = (m_capacity > 0)
  <2>1. index \in Int
    BY ArrayAssumption
  <2>2. CASE Delete(index)
    BY <2>1, <2>2, DeleteIsDeleteAt
  <2>3. CASE At(index)
    BY <2>1, <2>3, AtIsElementAt
  <2>4. CASE \E value \in Values : Assign(index, value)
    BY <2>1, <2>4, AssignIsWriteAt
  <2>5. CASE \E value \in Values : Insert(index, value)
    BY <2>1, <2>5, InsertIsInsertBefore
  <2>6. QED
    BY <1>6, <2>2, <2>3, <2>4, <2>5
<1>7. QED
  BY <1>1, <1>2, <1>3, <1>4, <1>5, <1>6 DEF ArrayNext

\* With room to grow from, each call is the list's.
LEMMA NextIsListNext ==
    ASSUME ArrayIInv, m_capacity > 0, [ArrayNext]_arrayVars
    PROVE  [Abstract!ListNext]_(Abstract!listVars) /\ [CallByCall]_arrayVars
<1>1. CASE UNCHANGED arrayVars
  BY <1>1 DEF arrayVars, Abstract!listVars, Elements
<1>2. CASE ArrayNext
  <2>1. CallByCall
    <3>1. \A value \in Values : Push_back(value) => Abstract!Add(value)
      BY PushIsAdd
    <3>2. /\ Pop_back => Abstract!TakeLast
          /\ Sort => Abstract!SortAll
          /\ Clear => Abstract!Empty
      BY PopIsTakeLast, SortIsSortAll, ClearIsEmpty
    <3>3. ASSUME NEW index \in -1 .. MaxLength
          PROVE  /\ Delete(index) => Abstract!DeleteAt(index)
                 /\ At(index) => Abstract!ElementAt(index)
                 /\ \A value \in Values :
                       /\ Assign(index, value) => Abstract!WriteAt(index, value)
                       /\ Insert(index, value) => Abstract!InsertBefore(index, value)
      <4>1. index \in Int
        BY ArrayAssumption
      <4>2. QED
        BY <4>1, DeleteIsDeleteAt, AtIsElementAt, AssignIsWriteAt, InsertIsInsertBefore
    <3>4. QED
      BY <3>1, <3>2, <3>3 DEF CallByCall
  <2>2. program = "running"
    BY <1>2 DEF ArrayNext
  <2>3. \/ \E value \in Values : Push_back(value)
        \/ Pop_back \/ Sort \/ Clear
        \/ \E index \in -1 .. MaxLength :
              \/ Delete(index) \/ At(index)
              \/ \E value \in Values : Assign(index, value) \/ Insert(index, value)
    BY <1>2 DEF ArrayNext
  <2>4. /\ (\E value \in Values : Push_back(value)) => Abstract!ListNext
        /\ Pop_back \/ Sort \/ Clear => Abstract!ListNext
    BY <2>1, <2>2, Zenon DEF Abstract!ListNext, CallByCall
  <2>5. ASSUME NEW index \in -1 .. MaxLength,
               Delete(index) \/ At(index)
                 \/ \E value \in Values : Assign(index, value) \/ Insert(index, value)
        PROVE  Abstract!ListNext
    <3>1. /\ Delete(index) => Abstract!DeleteAt(index)
          /\ At(index) => Abstract!ElementAt(index)
          /\ \A value \in Values : /\ Assign(index, value) => Abstract!WriteAt(index, value)
                                   /\ Insert(index, value) => Abstract!InsertBefore(index, value)
      BY <2>1, Zenon DEF CallByCall
    <3>2. CASE Delete(index) \/ At(index)
      BY <2>2, <3>1, <3>2, Zenon DEF Abstract!ListNext
    <3>3. ASSUME NEW value \in Values, Assign(index, value) \/ Insert(index, value)
          PROVE  Abstract!ListNext
      BY <2>2, <3>1, <3>3, Zenon DEF Abstract!ListNext
    <3>4. QED
      BY <2>5, <3>2, <3>3, Zenon
  <2>6. Abstract!ListNext
    BY <2>3, <2>4, <2>5
  <2>7. QED
    BY <2>1, <2>6
<1>3. QED
  BY <1>1, <1>2

\* The block has as many cells as the capacity says, and no call writes behind it,
\* whatever is called in whatever order (main.cpp:15-17, 37-85).
THEOREM ArrayTypeCorrect == ArraySpec => []ArrayTypeOK
<1>1. ArrayIInv => ArrayTypeOK
  BY DEF ArrayIInv
<1>2. QED
  BY <1>1, InitArray, NextKeepsIInv, PTL DEF ArraySpec

\* An array constructed with room is a list: growing, shifting and sorting the block
\* in place do to its elements what adding, inserting, deleting and sorting do to a
\* list, for any values, any capacity but 0 and any length, and undefined behaviour
\* comes only from the two calls that have no meaning for the list either
\* (main.cpp:37-102).
THEOREM ArrayIsAList == ArraySpec /\ 0 \notin Capacities => ImplementsList
<1> DEFINE Room == m_capacity > 0
<1>1. ArrayInit /\ 0 \notin Capacities => Room
  BY ArrayAssumption DEF ArrayInit, Construct
<1>2. ArrayIInv /\ Room /\ [ArrayNext]_arrayVars => ArrayIInv' /\ Room'
  BY NextKeepsIInv
<1>3. ArrayIInv /\ Room /\ [ArrayNext]_arrayVars =>
         [Abstract!ListNext]_(Abstract!listVars) /\ [CallByCall]_arrayVars
  BY NextIsListNext
<1> HIDE DEF Room
<1>4. QED
  BY <1>1, <1>2, <1>3, InitArray, PTL DEF ArraySpec, ImplementsList, Abstract!ListSpec

=============================================================================
