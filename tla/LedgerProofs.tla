---------------------------- MODULE LedgerProofs ----------------------------
(***************************************************************************)
(* Theorems about the money and the volumes of Core.  Where a request that *)
(* carries the uid of no account would make them false (the early return   *)
(* settles half a trade), they assume that there is none: ForeignUids = {}.*)
(*                                                                         *)
(* The properties are sums over histories and accounts.  The first part    *)
(* shows what the recursion behind SumFunctionOnSet comes to: a sum does   *)
(* not depend on the order of its terms, and follows its terms when one    *)
(* is added or changed.                                                    *)
(*                                                                         *)
(* The rest follows from one fact about the loops (CoreProofs): each       *)
(* iteration is a trade between two open orders and a record of it in the  *)
(* history of each owner (Settles).  The turnover needs less: whatever a   *)
(* loop does, it moves money for two open orders that agree, and these get *)
(* smaller by as much or are gone (Turns), also when it is left early.     *)
(***************************************************************************)
EXTENDS CoreProofs

-----------------------------------------------------------------------------
(* Induction *)

\* Induction over the natural numbers and over the subsets of a finite set, for the
\* set G of those that have the property.
LEMMA NatSetInduction ==
    ASSUME NEW G, 0 \in G, \A n \in Nat : n \in G => n + 1 \in G
    PROVE  Nat \subseteq G
<1> DEFINE K == Nat \ G
<1> SUFFICES ASSUME K # {} PROVE FALSE
  OBVIOUS
<1>1. PICK k \in K : \A l \in K : k <= l
  <2>1. K \subseteq Nat
    OBVIOUS
  <2> HIDE DEF K
  <2>2. QED
    BY <2>1, LeastElement
<1>2. k \in Nat /\ k # 0
  OBVIOUS
<1>3. PICK j \in Nat : j + 1 = k
  <2>1. k - 1 \in Nat /\ k - 1 + 1 = k
    BY <1>2
  <2>2. QED
    BY <2>1
<1>4. j \in G
  BY <1>1, <1>3
<1>5. QED
  BY <1>3, <1>4

LEMMA SetInduction ==
    ASSUME NEW U, IsFiniteSet(U), NEW G, {} \in G,
           \A s \in SUBSET U : s # {} /\ (\A x \in s : s \ {x} \in G) => s \in G
    PROVE  SUBSET U \subseteq G
<1> DEFINE H == {n \in Nat : \A s \in SUBSET U : Cardinality(s) = n => s \in G}
<1>1. ASSUME NEW s \in SUBSET U
      PROVE  /\ IsFiniteSet(s) /\ Cardinality(s) \in Nat /\ (Cardinality(s) = 0 <=> s = {})
             /\ \A x \in s : Cardinality(s \ {x}) = Cardinality(s) - 1
  BY FS_Subset, FS_CardinalityType, FS_EmptySet, FS_RemoveElement
<1>2. 0 \in H
  BY <1>1
<1>3. ASSUME NEW n \in Nat, n \in H PROVE n + 1 \in H
  <2>1. ASSUME NEW s \in SUBSET U, Cardinality(s) = n + 1 PROVE s \in G
    <3>1. s # {}
      BY <1>1, <2>1
    <3>2. ASSUME NEW x \in s PROVE s \ {x} \in G
      <4>1. Cardinality(s \ {x}) = n /\ s \ {x} \in SUBSET U
        BY <1>1, <2>1
      <4>2. QED
        BY <1>3, <4>1
    <3>3. QED
      BY <3>1, <3>2
  <2>2. QED
    BY <2>1
<1>4. Nat \subseteq H
  <2> HIDE DEF H
  <2>1. QED
    BY <1>2, <1>3, NatSetInduction
<1>5. QED
  BY <1>1, <1>4

-----------------------------------------------------------------------------
(* Sums *)

\* The element a sum takes first.
First(S) == CHOOSE x \in S : TRUE

\* g holds the sums of f over the sets of D, by the recursion that defines them.
SumsUpTo(g, f, D) ==
    g = [s \in D |-> IF s = {} THEN 0 ELSE f[First(s)] + g[s \ {First(s)}]]

SmallSets(U, n) == {s \in SUBSET U : Cardinality(s) <= n}

LEMMA FirstIn ==
    ASSUME NEW S, S # {}
    PROVE  First(S) \in S
BY DEF First

LEMMA FirstOut ==
    ASSUME NEW S, S # {}, IsFiniteSet(S)
    PROVE  /\ Cardinality(S) \in Nat \ {0} /\ IsFiniteSet(S \ {First(S)})
           /\ Cardinality(S \ {First(S)}) = Cardinality(S) - 1
<1>1. First(S) \in S
  BY FirstIn
<1>2. Cardinality(S) \in Nat /\ Cardinality(S) # 0
  BY FS_CardinalityType, FS_EmptySet
<1>3. QED
  BY <1>1, <1>2, FS_RemoveElement

\* The recursion has a solution over the subsets of a finite set.
LEMMA SumsExist ==
    ASSUME NEW f, NEW U, IsFiniteSet(U)
    PROVE  \E g : SumsUpTo(g, f, SUBSET U)
<1> DEFINE Solved(n) == \E g : SumsUpTo(g, f, SmallSets(U, n))
           K == {n \in Nat : ~Solved(n)}
<1>1. ASSUME NEW s \in SUBSET U
      PROVE  IsFiniteSet(s) /\ Cardinality(s) \in Nat /\ (Cardinality(s) = 0 <=> s = {})
             /\ Cardinality(s) <= Cardinality(U)
  BY FS_Subset, FS_CardinalityType, FS_EmptySet
<1>2. Solved(0)
  <2>1. PICK g : g = [s \in SmallSets(U, 0) |-> 0]
    OBVIOUS
  <2>2. \A s \in SmallSets(U, 0) : s = {}
    BY <1>1 DEF SmallSets
  <2>3. SumsUpTo(g, f, SmallSets(U, 0))
    BY <2>1, <2>2 DEF SumsUpTo
  <2>4. QED
    BY <2>3
<1>3. ASSUME NEW n \in Nat, Solved(n) PROVE Solved(n + 1)
  <2>1. PICK g : SumsUpTo(g, f, SmallSets(U, n))
    BY <1>3
  <2>2. PICK h : h = [s \in SmallSets(U, n + 1) |->
                        IF s = {} THEN 0 ELSE f[First(s)] + g[s \ {First(s)}]]
    OBVIOUS
  <2>3. ASSUME NEW s \in SmallSets(U, n + 1), s # {}
        PROVE  s \ {First(s)} \in SmallSets(U, n) /\ s \ {First(s)} \in SmallSets(U, n + 1)
    <3>1. s \in SUBSET U /\ Cardinality(s) <= n + 1
      BY DEF SmallSets
    <3>2. Cardinality(s \ {First(s)}) = Cardinality(s) - 1 /\ Cardinality(s) \in Nat
      BY <1>1, <2>3, <3>1, FirstOut
    <3>3. QED
      BY <3>1, <3>2 DEF SmallSets
  <2>4. ASSUME NEW s \in SmallSets(U, n) PROVE h[s] = g[s]
    <3>1. s \in SmallSets(U, n + 1)
      BY <1>1 DEF SmallSets
    <3>2. QED
      BY <2>1, <2>2, <3>1 DEF SumsUpTo
  <2>5. ASSUME NEW s \in SmallSets(U, n + 1)
        PROVE  h[s] = IF s = {} THEN 0 ELSE f[First(s)] + h[s \ {First(s)}]
    BY <2>2, <2>3, <2>4
  <2>6. SumsUpTo(h, f, SmallSets(U, n + 1))
    BY <2>2, <2>5 DEF SumsUpTo
  <2>7. QED
    BY <2>6
<1>4. K = {}
  <2> SUFFICES ASSUME K # {} PROVE FALSE
    OBVIOUS
  <2>1. PICK k \in K : \A l \in K : k <= l
    <3>1. K \subseteq Nat
      OBVIOUS
    <3> HIDE DEF K
    <3>2. QED
      BY <3>1, LeastElement
  <2>2. k \in Nat /\ k # 0
    BY <1>2
  <2>3. k - 1 \in Nat /\ k - 1 + 1 = k
    BY <2>2
  <2>4. k - 1 \notin K
    BY <2>1, <2>2
  <2>5. Solved(k - 1)
    BY <2>3, <2>4
  <2> HIDE DEF Solved
  <2>6. PICK j \in Nat : j = k - 1 /\ j + 1 = k
    BY <2>3
  <2>7. Solved(j + 1)
    BY <1>3, <2>5, <2>6
  <2>8. QED
    BY <2>6, <2>7
<1>5. Cardinality(U) \in Nat
  BY FS_CardinalityType
<1>6. Solved(Cardinality(U))
  BY <1>4, <1>5
<1>7. SmallSets(U, Cardinality(U)) = SUBSET U
  BY <1>1 DEF SmallSets
<1>8. QED
  BY <1>1, <1>5, <1>6, <1>7

LEMMA SumRecursion ==
    ASSUME NEW f, NEW U, IsFiniteSet(U)
    PROVE  \E g : SumsUpTo(g, f, SUBSET U) /\ SumFunctionOnSet(f, U) = g[U]
<1> DEFINE g == CHOOSE g : SumsUpTo(g, f, SUBSET U)
<1>1. SumsUpTo(g, f, SUBSET U)
  BY SumsExist
<1>2. SumFunctionOnSet(f, U) = g[U]
  BY DEF SumFunctionOnSet, FoldFunctionOnSet, MapThenFoldSet, SumsUpTo, First
<1>3. QED
  BY <1>1, <1>2

\* Two solutions agree where both are defined.
LEMMA SumsAgree ==
    ASSUME NEW f, NEW U, NEW V, IsFiniteSet(U), V \subseteq U, NEW g, NEW h,
           SumsUpTo(g, f, SUBSET U), SumsUpTo(h, f, SUBSET V)
    PROVE  \A s \in SUBSET V : g[s] = h[s]
<1> DEFINE G == {s \in SUBSET V : g[s] = h[s]}
<1>1. IsFiniteSet(V)
  BY FS_Subset
<1>2. {} \in G
  BY DEF SumsUpTo
<1>3. ASSUME NEW s \in SUBSET V, s # {}, \A x \in s : s \ {x} \in G PROVE s \in G
  <2>1. First(s) \in s
    BY <1>3, FirstIn
  <2>2. g[s \ {First(s)}] = h[s \ {First(s)}]
    BY <1>3, <2>1
  <2>3. s \in SUBSET U
    OBVIOUS
  <2>4. QED
    BY <1>3, <2>2, <2>3 DEF SumsUpTo
<1> HIDE DEF G
<1>4. SUBSET V \subseteq G
  BY <1>1, <1>2, <1>3, SetInduction
<1>5. QED
  BY <1>4 DEF G

\* Over the subsets of a finite set the sums are one solution.
LEMMA SumsAre ==
    ASSUME NEW f, NEW U, IsFiniteSet(U)
    PROVE  \E g : SumsUpTo(g, f, SUBSET U) /\ \A s \in SUBSET U : SumFunctionOnSet(f, s) = g[s]
<1>1. PICK g : SumsUpTo(g, f, SUBSET U)
  BY SumsExist
<1>2. ASSUME NEW s \in SUBSET U PROVE SumFunctionOnSet(f, s) = g[s]
  <2>1. IsFiniteSet(s)
    BY FS_Subset
  <2>2. PICK h : SumsUpTo(h, f, SUBSET s) /\ SumFunctionOnSet(f, s) = h[s]
    BY <2>1, SumRecursion
  <2>3. g[s] = h[s]
    BY <1>1, <2>2, SumsAgree
  <2>4. QED
    BY <2>2, <2>3
<1>3. QED
  BY <1>1, <1>2

LEMMA SumEmpty == ASSUME NEW f PROVE SumFunctionOnSet(f, {}) = 0
<1>1. PICK g : SumsUpTo(g, f, SUBSET {}) /\ SumFunctionOnSet(f, {}) = g[{}]
  BY FS_EmptySet, SumRecursion
<1>2. QED
  BY <1>1 DEF SumsUpTo

LEMMA SumFirst ==
    ASSUME NEW f, NEW S, IsFiniteSet(S), S # {}
    PROVE  SumFunctionOnSet(f, S) = f[First(S)] + SumFunctionOnSet(f, S \ {First(S)})
<1>1. PICK g : SumsUpTo(g, f, SUBSET S) /\ \A s \in SUBSET S : SumFunctionOnSet(f, s) = g[s]
  BY SumsAre
<1>2. g[S] = f[First(S)] + g[S \ {First(S)}]
  BY <1>1 DEF SumsUpTo
<1>3. QED
  BY <1>1, <1>2

LEMMA SumType ==
    ASSUME NEW f, NEW S, IsFiniteSet(S), \A x \in S : f[x] \in Int
    PROVE  SumFunctionOnSet(f, S) \in Int
<1> DEFINE G == {s \in SUBSET S : SumFunctionOnSet(f, s) \in Int}
<1>1. {} \in G
  BY SumEmpty
<1>2. ASSUME NEW s \in SUBSET S, s # {}, \A x \in s : s \ {x} \in G PROVE s \in G
  <2>1. First(s) \in s /\ IsFiniteSet(s)
    BY <1>2, FirstIn, FS_Subset
  <2>2. SumFunctionOnSet(f, s) = f[First(s)] + SumFunctionOnSet(f, s \ {First(s)})
    BY <1>2, <2>1, SumFirst
  <2>3. f[First(s)] \in Int /\ SumFunctionOnSet(f, s \ {First(s)}) \in Int
    BY <1>2, <2>1
  <2>4. QED
    BY <2>2, <2>3
<1> HIDE DEF G
<1>3. SUBSET S \subseteq G
  BY <1>1, <1>2, SetInduction
<1>4. QED
  BY <1>3 DEF G

LEMMA SumZero ==
    ASSUME NEW f, NEW S, IsFiniteSet(S), \A x \in S : f[x] = 0
    PROVE  SumFunctionOnSet(f, S) = 0
<1> DEFINE G == {s \in SUBSET S : SumFunctionOnSet(f, s) = 0}
<1>1. {} \in G
  BY SumEmpty
<1>2. ASSUME NEW s \in SUBSET S, s # {}, \A x \in s : s \ {x} \in G PROVE s \in G
  <2>1. First(s) \in s /\ IsFiniteSet(s)
    BY <1>2, FirstIn, FS_Subset
  <2>2. PICK m, n : m = f[First(s)] /\ n = SumFunctionOnSet(f, s \ {First(s)})
    OBVIOUS
  <2>3. SumFunctionOnSet(f, s) = m + n
    BY <1>2, <2>1, <2>2, SumFirst
  <2>4. m = 0 /\ n = 0
    BY <1>2, <2>1, <2>2
  <2>5. QED
    BY <2>3, <2>4
<1> HIDE DEF G
<1>3. SUBSET S \subseteq G
  BY <1>1, <1>2, SetInduction
<1>4. QED
  BY <1>3 DEF G

LEMMA SumAtMost ==
    ASSUME NEW f, NEW g, NEW S, IsFiniteSet(S), \A x \in S : f[x] \in Int /\ g[x] \in Int,
           \A x \in S : f[x] <= g[x]
    PROVE  SumFunctionOnSet(f, S) <= SumFunctionOnSet(g, S)
<1> DEFINE G == {s \in SUBSET S : SumFunctionOnSet(f, s) <= SumFunctionOnSet(g, s)}
<1>1. {} \in G
  BY SumEmpty
<1>2. ASSUME NEW s \in SUBSET S, s # {}, \A x \in s : s \ {x} \in G PROVE s \in G
  <2>1. PICK x \in s : x = First(s)
    BY <1>2, FirstIn
  <2>2. PICK r : r = s \ {x}
    OBVIOUS
  <2>3. IsFiniteSet(s) /\ IsFiniteSet(r) /\ r \in G
    BY <1>2, <2>2, FS_Subset
  <2>4. /\ SumFunctionOnSet(f, s) = f[x] + SumFunctionOnSet(f, r)
        /\ SumFunctionOnSet(g, s) = g[x] + SumFunctionOnSet(g, r)
    BY <1>2, <2>1, <2>2, <2>3, SumFirst
  <2>5. \A y \in r : f[y] \in Int /\ g[y] \in Int
    BY <2>2
  <2>6. SumFunctionOnSet(f, r) \in Int /\ SumFunctionOnSet(g, r) \in Int
    BY <2>3, <2>5, SumType
  <2>7. PICK a, b, m, n : /\ a = f[x] /\ b = g[x]
                          /\ m = SumFunctionOnSet(f, r) /\ n = SumFunctionOnSet(g, r)
    OBVIOUS
  <2>8. a \in Int /\ b \in Int /\ m \in Int /\ n \in Int /\ a <= b /\ m <= n
    BY <2>3, <2>6, <2>7
  <2>9. SumFunctionOnSet(f, s) = a + m /\ SumFunctionOnSet(g, s) = b + n
    BY <2>4, <2>7
  <2>10. QED
    BY <2>8, <2>9
<1> HIDE DEF G
<1>3. SUBSET S \subseteq G
  BY <1>1, <1>2, SetInduction
<1>4. QED
  BY <1>3 DEF G

\* Any element may be taken out of a sum first.
LEMMA SumRemove ==
    ASSUME NEW f, NEW S, IsFiniteSet(S), \A x \in S : f[x] \in Int, NEW a \in S
    PROVE  SumFunctionOnSet(f, S) = f[a] + SumFunctionOnSet(f, S \ {a})
<1> DEFINE G == {s \in SUBSET S : \A x \in s :
                   SumFunctionOnSet(f, s) = f[x] + SumFunctionOnSet(f, s \ {x})}
<1>1. {} \in G
  OBVIOUS
<1>2. ASSUME NEW s \in SUBSET S, s # {}, \A x \in s : s \ {x} \in G PROVE s \in G
  <2> SUFFICES ASSUME NEW x \in s
               PROVE  SumFunctionOnSet(f, s) = f[x] + SumFunctionOnSet(f, s \ {x})
    OBVIOUS
  <2>1. PICK c \in s : c = First(s)
    BY <1>2, FirstIn
  <2>2. IsFiniteSet(s) /\ SumFunctionOnSet(f, s) = f[c] + SumFunctionOnSet(f, s \ {c})
    BY <1>2, <2>1, SumFirst, FS_Subset
  <2>3. CASE x = c
    BY <2>2, <2>3
  <2>4. CASE x # c
    <3>1. SumFunctionOnSet(f, s \ {c}) = f[x] + SumFunctionOnSet(f, (s \ {c}) \ {x})
      BY <1>2, <2>4
    <3>2. SumFunctionOnSet(f, s \ {x}) = f[c] + SumFunctionOnSet(f, (s \ {x}) \ {c})
      BY <1>2, <2>4
    <3>3. (s \ {c}) \ {x} = (s \ {x}) \ {c}
      OBVIOUS
    <3>4. PICK r : r = (s \ {x}) \ {c}
      OBVIOUS
    <3>5. IsFiniteSet(r) /\ \A y \in r : f[y] \in Int
      BY <2>2, <3>4, FS_Subset
    <3>6. SumFunctionOnSet(f, r) \in Int /\ f[x] \in Int /\ f[c] \in Int
      BY <3>5, SumType
    <3>7. /\ SumFunctionOnSet(f, s \ {c}) = f[x] + SumFunctionOnSet(f, r)
          /\ SumFunctionOnSet(f, s \ {x}) = f[c] + SumFunctionOnSet(f, r)
      BY <3>1, <3>2, <3>3, <3>4
    <3> HIDE DEF G
    <3>8. PICK m, n, p : m = SumFunctionOnSet(f, r) /\ n = f[x] /\ p = f[c]
      OBVIOUS
    <3>9. /\ m \in Int /\ n \in Int /\ p \in Int
          /\ SumFunctionOnSet(f, s) = p + (n + m) /\ SumFunctionOnSet(f, s \ {x}) = p + m
      BY <2>2, <3>6, <3>7, <3>8
    <3>10. QED
      BY <3>8, <3>9
  <2>5. QED
    BY <2>3, <2>4
<1> HIDE DEF G
<1>3. SUBSET S \subseteq G
  BY <1>1, <1>2, SetInduction
<1>4. QED
  BY <1>3 DEF G

LEMMA SumSame ==
    ASSUME NEW f, NEW g, NEW S, IsFiniteSet(S), \A x \in S : f[x] = g[x]
    PROVE  SumFunctionOnSet(f, S) = SumFunctionOnSet(g, S)
<1> DEFINE G == {s \in SUBSET S : SumFunctionOnSet(f, s) = SumFunctionOnSet(g, s)}
<1>1. {} \in G
  BY SumEmpty
<1>2. ASSUME NEW s \in SUBSET S, s # {}, \A x \in s : s \ {x} \in G PROVE s \in G
  <2>1. First(s) \in s /\ IsFiniteSet(s)
    BY <1>2, FirstIn, FS_Subset
  <2>2. /\ SumFunctionOnSet(f, s) = f[First(s)] + SumFunctionOnSet(f, s \ {First(s)})
        /\ SumFunctionOnSet(g, s) = g[First(s)] + SumFunctionOnSet(g, s \ {First(s)})
    BY <1>2, <2>1, SumFirst
  <2>3. SumFunctionOnSet(f, s \ {First(s)}) = SumFunctionOnSet(g, s \ {First(s)})
    BY <1>2, <2>1
  <2>4. QED
    BY <2>1, <2>2, <2>3
<1> HIDE DEF G
<1>3. SUBSET S \subseteq G
  BY <1>1, <1>2, SetInduction
<1>4. QED
  BY <1>3 DEF G

\* A sum with one more element, and one in which one element changed.
LEMMA SumAdded ==
    ASSUME NEW f, NEW g, NEW S, NEW a, IsFiniteSet(S), a \notin S,
           \A x \in S : f[x] \in Int /\ g[x] = f[x], g[a] \in Int
    PROVE  SumFunctionOnSet(g, S \cup {a}) = g[a] + SumFunctionOnSet(f, S)
<1>1. PICK T : T = S \cup {a}
  OBVIOUS
<1>2. IsFiniteSet(T) /\ a \in T /\ T \ {a} = S /\ \A x \in T : g[x] \in Int
  BY <1>1, FS_AddElement
<1>3. SumFunctionOnSet(g, T) = g[a] + SumFunctionOnSet(g, T \ {a})
  BY <1>2, SumRemove
<1>4. SumFunctionOnSet(g, S) = SumFunctionOnSet(f, S)
  BY SumSame
<1>5. QED
  BY <1>1, <1>2, <1>3, <1>4

LEMMA SumChanged ==
    ASSUME NEW f, NEW g, NEW S, NEW a \in S, IsFiniteSet(S), NEW d \in Int,
           \A x \in S : f[x] \in Int, \A x \in S \ {a} : g[x] = f[x], g[a] = f[a] + d
    PROVE  SumFunctionOnSet(g, S) = SumFunctionOnSet(f, S) + d
<1>1. SumFunctionOnSet(f, S) = f[a] + SumFunctionOnSet(f, S \ {a})
  BY SumRemove
<1>2. \A x \in S : g[x] \in Int
  OBVIOUS
<1>3. SumFunctionOnSet(g, S) = g[a] + SumFunctionOnSet(g, S \ {a})
  BY <1>2, SumRemove
<1>4. PICK R : R = S \ {a}
  OBVIOUS
<1>5. IsFiniteSet(R) /\ \A x \in R : f[x] \in Int /\ g[x] = f[x]
  BY <1>4, FS_Subset
<1>6. SumFunctionOnSet(f, R) = SumFunctionOnSet(g, R) /\ SumFunctionOnSet(f, R) \in Int
  BY <1>5, SumSame, SumType
<1>7. QED
  BY <1>1, <1>3, <1>4, <1>6

-----------------------------------------------------------------------------
(* Sums over a history *)

DollarsOf(history) == SumWhere(history, Dollars, AnyFill)
RoublesOf(history) == SumWhere(history, Roubles, AnyFill)
VolumeOf(history, id) ==
    LET OfOrder(deal) == deal.id = id
        Volume(deal) == deal.volume
    IN  SumWhere(history, Volume, OfOrder)

\* The sum when a history gets longer by the entry at k, which counts or does not.
LEMMA SumLonger ==
    ASSUME NEW A, IsFiniteSet(A), NEW k, k \notin A, NEW B, B \in {A, A \cup {k}},
           NEW f, NEW g, \A i \in A : f[i] \in Int, \A i \in A : f[i] = g[i],
           g[k] \in Int
    PROVE  /\ SumFunctionOnSet(f, A) \in Int
           /\ SumFunctionOnSet(g, B) = SumFunctionOnSet(f, A) + (IF k \in B THEN g[k] ELSE 0)
<1>1. SumFunctionOnSet(f, A) \in Int
  BY SumType
<1>2. CASE B = A \cup {k}
  <2>1. \A i \in A : f[i] \in Int /\ g[i] = f[i]
    OBVIOUS
  <2>2. SumFunctionOnSet(g, A \cup {k}) = g[k] + SumFunctionOnSet(f, A)
    BY <2>1, SumAdded
  <2>3. QED
    BY <1>1, <1>2, <2>2
<1>3. CASE B = A
  <2>1. SumFunctionOnSet(f, A) = SumFunctionOnSet(g, A)
    BY SumSame
  <2>2. QED
    BY <1>1, <1>3, <2>1
<1>4. QED
  BY <1>2, <1>3

LEMMA AmountTypes ==
    ASSUME NEW fill \in DealType
    PROVE  Dollars(fill) \in Int /\ Roubles(fill) \in Int
<1>1. Dollars(fill) \in Int /\ fill.price \in Int
  BY DEF Dollars, DealType
<1>2. QED
  BY <1>1 DEF Roubles

LEMMA HistorySums ==
    ASSUME NEW history \in Seq(DealType), NEW fill \in DealType
    PROVE  LET new == Append(history, fill)
           IN  /\ DollarsOf(history) \in Int
               /\ DollarsOf(new) = DollarsOf(history) + Dollars(fill)
               /\ RoublesOf(history) \in Int
               /\ RoublesOf(new) = RoublesOf(history) + Roubles(fill)
               /\ \A id : /\ VolumeOf(history, id) \in Int
                          /\ VolumeOf(new, id) = VolumeOf(history, id)
                                 + (IF fill.id = id THEN fill.volume ELSE 0)
<1>1. PICK n, new : n = Len(history) /\ new = Append(history, fill)
  OBVIOUS
<1>2. /\ n \in Nat /\ DOMAIN history = 1 .. n /\ DOMAIN new = 1 .. n + 1
      /\ \A i \in 1 .. n : history[i] \in DealType /\ new[i] = history[i]
      /\ new[n + 1] = fill
  BY <1>1, LenProperties, AppendProperties, ElementOfSeq
<1>3. PICK k : k = n + 1
  OBVIOUS
<1>4. k \notin 1 .. n /\ 1 .. n + 1 = (1 .. n) \cup {k} /\ new[k] = fill
  BY <1>2, <1>3
<1>0. IsFiniteSet(1 .. n)
  BY <1>2, FS_Interval
<1> DEFINE A == 1 .. n
           B == A \cup {k}
<1>5. /\ IsFiniteSet(A) /\ DOMAIN history = A /\ DOMAIN new = B
      /\ k \notin A /\ B \in {A, A \cup {k}} /\ k \in B /\ new[k] = fill
      /\ \A i \in A : history[i] \in DealType /\ new[i] = history[i]
  BY <1>0, <1>2, <1>4
<1> HIDE DEF A, B
<1>6. /\ DollarsOf(history) \in Int
      /\ DollarsOf(new) = DollarsOf(history) + Dollars(fill)
  <2>1. PICK f, g : /\ f = [i \in DOMAIN history |-> Dollars(history[i])]
                    /\ g = [i \in DOMAIN new |-> Dollars(new[i])]
    OBVIOUS
  <2>2. DollarsOf(history) = SumFunctionOnSet(f, A) /\ DollarsOf(new) = SumFunctionOnSet(g, B)
    BY <1>5, <2>1 DEF DollarsOf, SumWhere, AnyFill
  <2>3. /\ \A i \in A : f[i] \in Int
        /\ \A i \in A : f[i] = g[i]
        /\ g[k] = Dollars(fill) /\ Dollars(fill) \in Int
    BY <1>5, <2>1, AmountTypes
  <2>4. /\ SumFunctionOnSet(f, A) \in Int
        /\ SumFunctionOnSet(g, B) = SumFunctionOnSet(f, A) + (IF k \in B THEN g[k] ELSE 0)
    BY <1>5, <2>3, SumLonger
  <2>5. QED
    BY <1>5, <2>2, <2>3, <2>4
<1>7. /\ RoublesOf(history) \in Int
      /\ RoublesOf(new) = RoublesOf(history) + Roubles(fill)
  <2>1. PICK f, g : /\ f = [i \in DOMAIN history |-> Roubles(history[i])]
                    /\ g = [i \in DOMAIN new |-> Roubles(new[i])]
    OBVIOUS
  <2>2. RoublesOf(history) = SumFunctionOnSet(f, A) /\ RoublesOf(new) = SumFunctionOnSet(g, B)
    BY <1>5, <2>1 DEF RoublesOf, SumWhere, AnyFill
  <2>3. /\ \A i \in A : f[i] \in Int
        /\ \A i \in A : f[i] = g[i]
        /\ g[k] = Roubles(fill) /\ Roubles(fill) \in Int
    BY <1>5, <2>1, AmountTypes
  <2>4. /\ SumFunctionOnSet(f, A) \in Int
        /\ SumFunctionOnSet(g, B) = SumFunctionOnSet(f, A) + (IF k \in B THEN g[k] ELSE 0)
    BY <1>5, <2>3, SumLonger
  <2>5. QED
    BY <1>5, <2>2, <2>3, <2>4
<1>8. ASSUME NEW id
      PROVE  /\ VolumeOf(history, id) \in Int
             /\ VolumeOf(new, id) = VolumeOf(history, id)
                    + (IF fill.id = id THEN fill.volume ELSE 0)
  <2>1. PICK f, g, C, D :
            /\ f = [i \in DOMAIN history |-> history[i].volume]
            /\ g = [i \in DOMAIN new |-> new[i].volume]
            /\ C = {i \in DOMAIN history : history[i].id = id}
            /\ D = {i \in DOMAIN new : new[i].id = id}
    OBVIOUS
  <2>2. VolumeOf(history, id) = SumFunctionOnSet(f, C) /\ VolumeOf(new, id) = SumFunctionOnSet(g, D)
    BY <2>1 DEF VolumeOf, SumWhere
  <2>3. /\ \A i \in C : f[i] \in Int
        /\ \A i \in C : f[i] = g[i]
        /\ g[k] = fill.volume /\ g[k] \in Int
    BY <1>5, <2>1 DEF B, DealType
  <2>4. /\ C \in SUBSET A /\ k \notin C
        /\ D = IF fill.id = id THEN C \cup {k} ELSE C
    BY <1>5, <2>1 DEF B
  <2>5. IsFiniteSet(C) /\ k \notin C /\ D \in {C, C \cup {k}}
    BY <1>5, <2>4, FS_Subset
  <2>6. /\ SumFunctionOnSet(f, C) \in Int
        /\ SumFunctionOnSet(g, D) = SumFunctionOnSet(f, C) + (IF k \in D THEN g[k] ELSE 0)
    BY <2>3, <2>5, SumLonger
  <2>7. QED
    BY <2>2, <2>3, <2>4, <2>6
<1>9. QED
  BY <1>1, <1>6, <1>7, <1>8

LEMMA EmptyHistory ==
    DollarsOf(<<>>) = 0 /\ RoublesOf(<<>>) = 0 /\ \A id : VolumeOf(<<>>, id) = 0
<1>1. DOMAIN <<>> = {}
  OBVIOUS
<1>2. DollarsOf(<<>>) = 0
  <2>1. {i \in DOMAIN <<>> : AnyFill(<<>>[i])} = {}
    BY <1>1
  <2>2. QED
    BY <2>1, SumEmpty DEF DollarsOf, SumWhere
<1>3. RoublesOf(<<>>) = 0
  <2>1. {i \in DOMAIN <<>> : AnyFill(<<>>[i])} = {}
    BY <1>1
  <2>2. QED
    BY <2>1, SumEmpty DEF RoublesOf, SumWhere
<1>4. ASSUME NEW id PROVE VolumeOf(<<>>, id) = 0
  <2>1. {i \in DOMAIN <<>> : <<>>[i].id = id} = {}
    BY <1>1
  <2>2. QED
    BY <2>1, SumEmpty DEF VolumeOf, SumWhere
<1>5. QED
  BY <1>2, <1>3, <1>4

-----------------------------------------------------------------------------
(* What one trade records *)

\* The amounts of a fill's record, which is a copy of the fill.
LEMMA FillAmounts ==
    ASSUME NEW order, NEW fill, NEW volume, NEW price, IsFill(fill, order, volume, price)
    PROVE  /\ CopyOf(fill) \in DealType /\ fill.uid = order.uid
           /\ CopyOf(fill).id = order.id /\ CopyOf(fill).volume = volume
           /\ volume \in Int /\ price \in Int /\ price * volume \in Int
           /\ order.type = "buy" => /\ Dollars(CopyOf(fill)) = volume
                                    /\ Roubles(CopyOf(fill)) = -(price * volume)
           /\ order.type = "sell" => /\ Dollars(CopyOf(fill)) = -volume
                                     /\ Roubles(CopyOf(fill)) = price * volume
<1> DEFINE copy == CopyOf(fill)
<1>1. /\ fill \in DealType /\ fill.uid = order.uid /\ fill.id = order.id
      /\ fill.type = order.type /\ fill.volume = volume /\ fill.price = price
  BY DEF IsFill
<1>2. /\ copy \in DealType /\ copy.id = fill.id /\ copy.type = fill.type
      /\ copy.price = fill.price
  BY <1>1, CopyTypes
<1>3. copy.volume = fill.volume
  BY <1>1 DEF CopyOf, DealType
<1>4. volume \in Int /\ price \in Int
  BY <1>1 DEF DealType
<1> HIDE DEF copy
<1>5. ASSUME NEW a \in Int, NEW b \in Int
      PROVE  (-a) * b = -(b * a) /\ (-(-a)) * b = b * a /\ b * a \in Int
  BY <1>5
<1>6. ASSUME order.type = "buy"
      PROVE  Dollars(copy) = volume /\ Roubles(copy) = -(price * volume)
  <2>1. Dollars(copy) = volume
    BY <1>1, <1>2, <1>3, <1>6 DEF Dollars
  <2>2. Roubles(copy) = -volume * price
    BY <1>1, <1>2, <2>1 DEF Roubles
  <2>3. QED
    BY <1>4, <1>5, <2>1, <2>2
<1>7. ASSUME order.type = "sell"
      PROVE  Dollars(copy) = -volume /\ Roubles(copy) = price * volume
  <2>1. Dollars(copy) = -volume
    BY <1>1, <1>2, <1>3, <1>7 DEF Dollars
  <2>2. Roubles(copy) = -(-volume) * price
    BY <1>1, <1>2, <2>1 DEF Roubles
  <2>3. QED
    BY <1>4, <1>5, <2>1, <2>2
<1>8. QED
  BY <1>1, <1>2, <1>3, <1>4, <1>5, <1>6, <1>7 DEF copy

\* One record, and the sums over everybody's history.
LEMMA RecordSums ==
    ASSUME NEW U, NEW closed, Histories(closed, U), NEW fill \in DealType, NEW uid
    PROVE  LET old == ClosedOf(closed, uid)
               new == ClosedOf(Record(closed, fill), uid)
               copy == CopyOf(fill)
           IN  /\ DollarsOf(old) \in Int /\ RoublesOf(old) \in Int
               /\ DollarsOf(new) = DollarsOf(old) + (IF uid = fill.uid THEN Dollars(copy) ELSE 0)
               /\ RoublesOf(new) = RoublesOf(old) + (IF uid = fill.uid THEN Roubles(copy) ELSE 0)
               /\ \A id : /\ VolumeOf(old, id) \in Int
                          /\ VolumeOf(new, id) = VolumeOf(old, id)
                               + (IF uid = fill.uid /\ id = copy.id THEN copy.volume ELSE 0)
<1> DEFINE old == ClosedOf(closed, uid)
           new == ClosedOf(Record(closed, fill), uid)
           copy == CopyOf(fill)
<1>1. /\ old \in Seq(DealType)
      /\ new = IF uid = fill.uid THEN Append(old, copy) ELSE old
  BY RecordGrows
<1>2. copy \in DealType
  BY CopyTypes
<1> HIDE DEF old, new, copy
<1>3. /\ DollarsOf(old) \in Int /\ RoublesOf(old) \in Int
      /\ DollarsOf(Append(old, copy)) = DollarsOf(old) + Dollars(copy)
      /\ RoublesOf(Append(old, copy)) = RoublesOf(old) + Roubles(copy)
      /\ \A id : /\ VolumeOf(old, id) \in Int
                 /\ VolumeOf(Append(old, copy), id) = VolumeOf(old, id)
                        + (IF copy.id = id THEN copy.volume ELSE 0)
  BY <1>1, <1>2, HistorySums
<1>4. CASE uid = fill.uid
  <2>1. new = Append(old, copy)
    BY <1>1, <1>4
  <2>2. QED
    BY <1>3, <1>4, <2>1 DEF old, new, copy
<1>5. CASE uid # fill.uid
  <2>1. new = old
    BY <1>1, <1>5
  <2>2. QED
    BY <1>3, <1>5, <2>1 DEF old, new, copy
<1>6. QED
  BY <1>4, <1>5

LEMMA TradeSums ==
    ASSUME NEW U, Histories(closedDeals, U), NEW buy, NEW sell, buy.type = "buy",
           sell.type = "sell", buy.uid \in U, sell.uid \in U, NEW volume, NEW price,
           NEW first, IsFill(first, buy, volume, price),
           NEW second, IsFill(second, sell, volume, price),
           closedDeals' = Record(Record(closedDeals, first), second), NEW uid
    PROVE  LET old == ClosedOf(closedDeals, uid)
               new == ClosedOf(closedDeals', uid)
               worth == price * volume
           IN  /\ volume \in Int /\ worth \in Int
               /\ DollarsOf(old) \in Int /\ RoublesOf(old) \in Int
               /\ DollarsOf(new) = DollarsOf(old) + (IF uid = buy.uid THEN volume ELSE 0)
                                                  - (IF uid = sell.uid THEN volume ELSE 0)
               /\ RoublesOf(new) = RoublesOf(old) - (IF uid = buy.uid THEN worth ELSE 0)
                                                  + (IF uid = sell.uid THEN worth ELSE 0)
               /\ \A id : /\ VolumeOf(old, id) \in Int
                          /\ VolumeOf(new, id) = VolumeOf(old, id)
                               + (IF uid = buy.uid /\ id = buy.id THEN volume ELSE 0)
                               + (IF uid = sell.uid /\ id = sell.id THEN volume ELSE 0)
<1> DEFINE middle == Record(closedDeals, first)
           old == ClosedOf(closedDeals, uid)
           mid == ClosedOf(middle, uid)
           new == ClosedOf(closedDeals', uid)
           worth == price * volume
           a == CopyOf(first)
           b == CopyOf(second)
<1>1. /\ a.id = buy.id /\ a.volume = volume /\ first.uid = buy.uid
      /\ b.id = sell.id /\ b.volume = volume /\ second.uid = sell.uid
      /\ volume \in Int /\ worth \in Int
      /\ Dollars(a) = volume /\ Roubles(a) = -worth
      /\ Dollars(b) = -volume /\ Roubles(b) = worth
      /\ first \in DealType /\ second \in DealType
  BY FillAmounts DEF IsFill
<1>2. Histories(middle, U)
  BY <1>1, RecordType
<1>3. /\ DollarsOf(old) \in Int /\ RoublesOf(old) \in Int
      /\ DollarsOf(mid) = DollarsOf(old) + (IF uid = first.uid THEN Dollars(a) ELSE 0)
      /\ RoublesOf(mid) = RoublesOf(old) + (IF uid = first.uid THEN Roubles(a) ELSE 0)
      /\ \A id : /\ VolumeOf(old, id) \in Int
                 /\ VolumeOf(mid, id) = VolumeOf(old, id)
                        + (IF uid = first.uid /\ id = a.id THEN a.volume ELSE 0)
  BY <1>1, RecordSums
<1>4. /\ DollarsOf(new) = DollarsOf(mid) + (IF uid = second.uid THEN Dollars(b) ELSE 0)
      /\ RoublesOf(new) = RoublesOf(mid) + (IF uid = second.uid THEN Roubles(b) ELSE 0)
      /\ \A id : VolumeOf(new, id) = VolumeOf(mid, id)
                     + (IF uid = second.uid /\ id = b.id THEN b.volume ELSE 0)
  BY <1>1, <1>2, RecordSums
<1> HIDE DEF old, mid, new, worth, a, b
<1>5. /\ DollarsOf(new) = DollarsOf(old) + (IF uid = buy.uid THEN volume ELSE 0)
                                         - (IF uid = sell.uid THEN volume ELSE 0)
      /\ RoublesOf(new) = RoublesOf(old) - (IF uid = buy.uid THEN worth ELSE 0)
                                         + (IF uid = sell.uid THEN worth ELSE 0)
  BY <1>1, <1>3, <1>4
<1>6. ASSUME NEW id
      PROVE  /\ VolumeOf(old, id) \in Int
             /\ VolumeOf(new, id) = VolumeOf(old, id)
                      + (IF uid = buy.uid /\ id = buy.id THEN volume ELSE 0)
                      + (IF uid = sell.uid /\ id = sell.id THEN volume ELSE 0)
  BY <1>1, <1>3, <1>4
<1>7. QED
  BY <1>1, <1>3, <1>5, <1>6 DEF old, new, worth

-----------------------------------------------------------------------------
(* Open orders are known by their ids *)

LEMMA OpenAreFollowed ==
    ASSUME IInv, OrdersFollowed
    PROVE  /\ \A order \in OpenOrders :
                 /\ order.id \in DOMAIN orders /\ order.uid = orders[order.id].uid
                 /\ order.type = orders[order.id].type /\ order.price = orders[order.id].price
                 /\ order.volume \in Int /\ order.price \in Int
           /\ \A a, b \in OpenOrders : a.id = b.id => a = b
<1> DEFINE Live == ToSet(activeBuys) \cup ToSet(activeSells) \cup InFlight
<1>1. OpenOrders = Views(Live)
  BY OpenOrdersSplit DEF Views
<1>2. \A deal \in Live : deal \in DealType /\ Follows(deal)
  <2>1. \A deal \in ToSet(activeBuys) \cup ToSet(activeSells) : deal \in DealType
    BY BookElements DEF IInv, TypeOK
  <2>2. \A deal \in InFlight : deal \in DealType
    BY DEF IInv, TypeOK, InFlight
  <2>3. QED
    BY <2>1, <2>2 DEF OrdersFollowed, InFlight
<1>3. \A a, b \in Live : a.id = b.id => a = b
  <2>1. \A a, b \in ToSet(activeBuys) : a.id = b.id => a = b
    BY DEF OrdersFollowed, Distinct, ToSet
  <2>2. \A a, b \in ToSet(activeSells) : a.id = b.id => a = b
    BY DEF OrdersFollowed, Distinct, ToSet
  <2>3. \A a \in ToSet(activeBuys), b \in ToSet(activeSells) : a.id # b.id
    <3>1. \A a \in ToSet(activeBuys), b \in ToSet(activeSells) : a.type = "buy" /\ b.type = "sell"
      BY BookElements DEF IInv, TypeOK
    <3>2. QED
      BY <1>2, <3>1 DEF Follows
  <2>4. \A a \in InFlight, b \in ToSet(activeBuys) \cup ToSet(activeSells) : a.id # b.id
    BY DEF OrdersFollowed, InFlight
  <2>5. \A a, b \in InFlight : a = b
    BY DEF InFlight
  <2>6. QED
    BY <2>1, <2>2, <2>3, <2>4, <2>5
<1> HIDE DEF Live
<1>4. ASSUME NEW order \in OpenOrders
      PROVE  \E deal \in Live : order = View(deal)
  BY <1>1 DEF Views
<1>5. ASSUME NEW order \in OpenOrders
      PROVE  /\ order.id \in DOMAIN orders /\ order.uid = orders[order.id].uid
             /\ order.type = orders[order.id].type /\ order.price = orders[order.id].price
             /\ order.volume \in Int /\ order.price \in Int
  <2>1. PICK deal \in Live : order = View(deal)
    BY <1>4
  <2>2. QED
    BY <1>2, <2>1 DEF View, Follows, DealType
<1>6. ASSUME NEW a \in OpenOrders, NEW b \in OpenOrders, a.id = b.id
      PROVE  a = b
  <2>1. PICK d \in Live : a = View(d)
    BY <1>4
  <2>2. PICK e \in Live : b = View(e)
    BY <1>4
  <2>3. d.id = e.id
    BY <1>6, <2>1, <2>2 DEF View
  <2>4. QED
    BY <1>3, <2>1, <2>2, <2>3
<1>7. QED
  BY <1>5, <1>6

-----------------------------------------------------------------------------
(* Balances *)

LEMMA BalancesType ==
    ASSUME IInv
    PROVE  /\ Balances \in [DOMAIN users -> Balance]
           /\ \A uid \in DOMAIN users : /\ Balances[uid].usd = users[uid].usd
                                        /\ Balances[uid].rub = users[uid].rub
<1>1. users \in [DOMAIN users -> UserType]
  BY DEF IInv, TypeOK
<1>2. QED
  BY <1>1 DEF Balances, GetUserBalance, Balance, UserType

\* The parties of a trade, its volume and its worth.
LEMMA TradeParties ==
    ASSUME IInv, OrdersFollowed, NEW buy, NEW sell, NEW price, Settles(buy, sell, price),
           NEW volume, volume = getDealVolume(buy, sell)
    PROVE  /\ buy.type = "buy" /\ sell.type = "sell"
           /\ buy.uid \in DOMAIN users /\ sell.uid \in DOMAIN users
           /\ volume \in Int /\ price \in Int /\ price * volume \in Int
           /\ DOMAIN users' = DOMAIN users /\ orders' = orders
           /\ Balances' = Abstract!Receive(
                  Abstract!Receive(Balances, buy.uid, volume, -(price * volume)),
                  sell.uid, -volume, price * volume)
<1>1. Abstract!TradeBetween(buy, sell, price)
  BY DEF Settles
<1>2. /\ buy.volume \in Int /\ sell.volume \in Int /\ buy.price \in Int /\ sell.price \in Int
  BY OpenAreFollowed DEF Settles
<1>3. volume \in Int /\ price \in Int
  BY <1>2 DEF Settles, getDealVolume
<1>4. price * volume \in Int /\ -price * volume = -(price * volume)
  BY <1>3
<1>5. DOMAIN Balances = DOMAIN users
  BY DEF Balances
<1>6. Balances' = Abstract!Receive(
          Abstract!Receive(Balances, buy.uid, volume, -price * volume),
          sell.uid, -volume, price * volume)
  BY <1>1 DEF Abstract!TradeBetween, getDealVolume
<1>7. QED
  BY <1>1, <1>3, <1>4, <1>5, <1>6 DEF Abstract!TradeBetween, Settles

LEMMA TradeBalances ==
    ASSUME IInv, OrdersFollowed, NEW buy, NEW sell, NEW price, Settles(buy, sell, price),
           NEW volume, volume = getDealVolume(buy, sell), NEW uid \in DOMAIN users
    PROVE  LET worth == price * volume
           IN  /\ Balances'[uid].usd = Balances[uid].usd + (IF uid = buy.uid THEN volume ELSE 0)
                                                         - (IF uid = sell.uid THEN volume ELSE 0)
               /\ Balances'[uid].rub = Balances[uid].rub - (IF uid = buy.uid THEN worth ELSE 0)
                                                         + (IF uid = sell.uid THEN worth ELSE 0)
<1> DEFINE worth == price * volume
           U == DOMAIN users
           middle == Abstract!Receive(Balances, buy.uid, volume, -worth)
<1>1. /\ buy.uid \in U /\ sell.uid \in U /\ volume \in Int /\ worth \in Int
      /\ Balances' = Abstract!Receive(middle, sell.uid, -volume, worth)
      /\ Balances \in [U -> Balance]
  BY TradeParties, BalancesType
<1>2. -volume \in Int /\ -worth \in Int
  BY <1>1
<1> HIDE DEF worth, U
<1>3. /\ middle \in [U -> Balance]
      /\ middle = [u \in U |-> IF u = buy.uid THEN [usd |-> Balances[u].usd + volume,
                                                    rub |-> Balances[u].rub + -worth]
                               ELSE Balances[u]]
  BY <1>1, <1>2, Received
<1> HIDE DEF middle
<1>4. Balances' = [u \in U |-> IF u = sell.uid THEN [usd |-> middle[u].usd + -volume,
                                                     rub |-> middle[u].rub + worth]
                               ELSE middle[u]]
  BY <1>1, <1>2, <1>3, Received
<1>5. Balances[uid].usd \in Int /\ Balances[uid].rub \in Int /\ uid \in U
  BY <1>1 DEF Balance, U
<1>6. /\ middle[uid].usd = Balances[uid].usd + (IF uid = buy.uid THEN volume ELSE 0)
      /\ middle[uid].rub = Balances[uid].rub - (IF uid = buy.uid THEN worth ELSE 0)
  BY <1>1, <1>3, <1>5
<1>7. /\ Balances'[uid].usd = middle[uid].usd - (IF uid = sell.uid THEN volume ELSE 0)
      /\ Balances'[uid].rub = middle[uid].rub + (IF uid = sell.uid THEN worth ELSE 0)
  <2>1. middle[uid].usd \in Int /\ middle[uid].rub \in Int
    BY <1>3, <1>5 DEF Balance
  <2>2. QED
    BY <1>1, <1>4, <1>5, <2>1
<1>8. /\ Balances'[uid].usd = Balances[uid].usd + (IF uid = buy.uid THEN volume ELSE 0)
                                             - (IF uid = sell.uid THEN volume ELSE 0)
      /\ Balances'[uid].rub = Balances[uid].rub - (IF uid = buy.uid THEN worth ELSE 0)
                                             + (IF uid = sell.uid THEN worth ELSE 0)
  BY <1>1, <1>5, <1>6, <1>7
<1>9. QED
  BY <1>8 DEF worth

\* Every balance is what the owner's history comes to.
Explained ==
    \A uid \in DOMAIN users :
        /\ Balances[uid].usd = DollarsOf(ClosedOf(closedDeals, uid))
        /\ Balances[uid].rub = RoublesOf(ClosedOf(closedDeals, uid))

LEMMA NextExplained ==
    ASSUME ForeignUids = {}, IInv, OrdersFollowed, OrdersOwned, Explained, [Next]_vars
    PROVE  Explained'
<1>1. DOMAIN Balances = DOMAIN users /\ DOMAIN Balances' = DOMAIN users'
  BY DEF Balances
<1>2. Histories(closedDeals, DOMAIN users)
  BY DEF IInv, TypeOK, Histories
<1>3. CASE Rests \/ \E order : Submits(order)
  BY <1>1, <1>3 DEF Rests, Submits, Explained
<1>4. CASE Opens
  <2>1. PICK new : new = 1 + Cardinality(DOMAIN Balances)
    OBVIOUS
  <2>2. /\ new \notin DOMAIN users /\ DOMAIN users' = DOMAIN users \cup {new}
        /\ \A uid \in DOMAIN users : Balances'[uid] = Balances[uid]
        /\ Balances'[new].usd = 0 /\ Balances'[new].rub = 0 /\ closedDeals' = closedDeals
    BY <1>1, <1>4, <2>1 DEF Opens, Abstract!OpenAccount
  <2>3. ClosedOf(closedDeals, new) = <<>>
    BY <1>2, <2>2 DEF Histories, ClosedOf
  <2>4. QED
    BY <2>2, <2>3, EmptyHistory DEF Explained
<1>5. ASSUME NEW buy, NEW sell, NEW price, Settles(buy, sell, price)
      PROVE  Explained'
  <2>1. PICK volume : volume = getDealVolume(buy, sell)
    OBVIOUS
  <2>2. /\ buy.type = "buy" /\ sell.type = "sell"
        /\ buy.uid \in DOMAIN users /\ sell.uid \in DOMAIN users
        /\ DOMAIN users' = DOMAIN users
    BY <1>5, <2>1, TradeParties
  <2>3. PICK first, second :
            /\ IsFill(first, buy, volume, price) /\ IsFill(second, sell, volume, price)
            /\ closedDeals' = Record(Record(closedDeals, first), second)
    BY <1>5, <2>1 DEF Settles
  <2>4. ASSUME NEW uid \in DOMAIN users
        PROVE  /\ Balances'[uid].usd = DollarsOf(ClosedOf(closedDeals', uid))
               /\ Balances'[uid].rub = RoublesOf(ClosedOf(closedDeals', uid))
    <3> DEFINE old == ClosedOf(closedDeals, uid)
               new == ClosedOf(closedDeals', uid)
               worth == price * volume
    <3>1. /\ DollarsOf(new) = DollarsOf(old) + (IF uid = buy.uid THEN volume ELSE 0)
                                             - (IF uid = sell.uid THEN volume ELSE 0)
          /\ RoublesOf(new) = RoublesOf(old) - (IF uid = buy.uid THEN worth ELSE 0)
                                             + (IF uid = sell.uid THEN worth ELSE 0)
      BY <1>2, <2>2, <2>3, TradeSums
    <3>2. /\ Balances'[uid].usd = Balances[uid].usd + (IF uid = buy.uid THEN volume ELSE 0)
                                                    - (IF uid = sell.uid THEN volume ELSE 0)
          /\ Balances'[uid].rub = Balances[uid].rub - (IF uid = buy.uid THEN worth ELSE 0)
                                                    + (IF uid = sell.uid THEN worth ELSE 0)
      BY <1>5, <2>1, TradeBalances
    <3>3. Balances[uid].usd = DollarsOf(old) /\ Balances[uid].rub = RoublesOf(old)
      BY DEF Explained
    <3> HIDE DEF old, new, worth
    <3>4. QED
      BY <3>1, <3>2, <3>3 DEF new
  <2>5. QED
    BY <2>2, <2>4 DEF Explained
<1>6. QED
  BY <1>3, <1>4, <1>5, OwnedSteps

LEMMA LedgerInvariant ==
    ASSUME ForeignUids = {}
    PROVE  Spec => [](IInv /\ OrdersFollowed /\ OrdersOwned /\ Explained)
<1>1. Init => Explained
  BY DEF Init, TableInit, Explained
<1>2. Init => OrdersOwned
  BY DEF Init, OrdersOwned
<1>3. IInv /\ OrdersFollowed /\ OrdersOwned /\ Explained /\ [Next]_vars => Explained'
  BY NextExplained
<1>4. IInv /\ OrdersOwned /\ [Next]_vars => OrdersOwned'
  BY NextOwned
<1>5. QED
  BY <1>1, <1>2, <1>3, <1>4, InitIInv, NextIInv, InitFollowed, NextFollowed, PTL DEF Spec

\* A user's balance is explained by the closed deals shown to that user and
\* nothing else, after any number of trades between any users, with oneself
\* too (core.cpp:46-54, 79-87).
THEOREM BalancesExplained ==
    ASSUME ForeignUids = {}
    PROVE  Spec => []LedgerMatchesDeals
<1>1. Explained => LedgerMatchesDeals
  BY DEF Explained, LedgerMatchesDeals, Balances, GetUserClosedDeals, DollarsOf, RoublesOf
<1>2. QED
  BY <1>1, LedgerInvariant, PTL

-----------------------------------------------------------------------------
(* Volumes *)

\* What has been filled of an order by the history of a user.
FilledOf(uid, id) == VolumeOf(ClosedOf(closedDeals, uid), id)

\* What is left of an order and what the owner's history says was filled of it are
\* the volume submitted; nobody's history names an order not yet submitted.
VolumesKept ==
    /\ \A order \in OpenOrders :
          order.volume + FilledOf(order.uid, order.id) = orders[order.id].volume
    /\ \A id \in DOMAIN orders :
          (\A order \in OpenOrders : order.id # id)
            => FilledOf(orders[id].uid, id) = orders[id].volume
    /\ \A uid, id : id \notin DOMAIN orders => FilledOf(uid, id) = 0

\* What is left of an open order that traded.
LEMMA RestLeft ==
    ASSUME IInv, NEW order \in OpenOrders, NEW volume
    PROVE  /\ order.volume = volume <=> Abstract!Rest(order, volume) = {}
           /\ \A left \in Abstract!Rest(order, volume) :
                 /\ left.id = order.id /\ left.uid = order.uid
                 /\ left.volume = order.volume - volume
<1>1. PICK deal : order = View(deal)
  BY OpenOrdersSplit DEF Views
<1>2. QED
  BY <1>1 DEF View, Abstract!Rest

LEMMA SubmitKeepsVolumes ==
    ASSUME IInv, OrdersFollowed, VolumesKept, NEW order, Submits(order)
    PROVE  VolumesKept'
<1> DEFINE n == Len(orders) + 1
           new == Abstract!OpenOrder(Len(orders'), order.type, order.uid, order.volume, order.price)
<1>1. /\ orders \in Seq(DealType) /\ order \in DealType
      /\ orders' = Append(orders, order) /\ OpenOrders' = OpenOrders \cup {new}
      /\ closedDeals' = closedDeals
  BY DEF IInv, TypeOK, Submits, Abstract!Submit
<1>2. /\ DOMAIN orders = 1 .. Len(orders) /\ Len(orders) \in Nat /\ Len(orders') = n
      /\ DOMAIN orders' = 1 .. n /\ orders'[n] = order
      /\ \A i \in DOMAIN orders : orders'[i] = orders[i]
  BY <1>1, LenProperties, AppendProperties
<1>3. new.id = n /\ new.uid = order.uid /\ new.volume = order.volume /\ order.volume \in Int
  BY <1>1, <1>2 DEF Abstract!OpenOrder, DealType
<1>4. n \notin DOMAIN orders /\ DOMAIN orders' = DOMAIN orders \cup {n}
  BY <1>2
<1> HIDE DEF n, new
<1>5. \A uid, id : FilledOf(uid, id)' = FilledOf(uid, id)
  BY <1>1 DEF FilledOf
<1>6. FilledOf(order.uid, n) = 0
  BY <1>4 DEF VolumesKept
<1>7. ASSUME NEW other \in OpenOrders'
      PROVE  other.volume + FilledOf(other.uid, other.id)' = orders'[other.id].volume
  <2>1. CASE other = new
    BY <1>2, <1>3, <1>5, <1>6, <2>1
  <2>2. CASE other \in OpenOrders
    <3>1. other.id \in DOMAIN orders
      BY <2>2, OpenAreFollowed
    <3>2. other.volume + FilledOf(other.uid, other.id) = orders[other.id].volume
      BY <2>2 DEF VolumesKept
    <3>3. QED
      BY <1>2, <1>5, <3>1, <3>2
  <2>3. QED
    BY <1>1, <2>1, <2>2
<1>8. ASSUME NEW id \in DOMAIN orders', \A other \in OpenOrders' : other.id # id
      PROVE  FilledOf(orders[id].uid, id)' = orders'[id].volume
  <2>1. id \in DOMAIN orders /\ \A other \in OpenOrders : other.id # id
    BY <1>1, <1>3, <1>4, <1>8
  <2>2. FilledOf(orders[id].uid, id) = orders[id].volume
    BY <2>1 DEF VolumesKept
  <2>3. QED
    BY <1>2, <1>5, <2>1, <2>2
<1>9. ASSUME NEW uid, NEW id, id \notin DOMAIN orders' PROVE FilledOf(uid, id)' = 0
  BY <1>4, <1>5, <1>9 DEF VolumesKept
<1>10. QED
  BY <1>7, <1>8, <1>9 DEF VolumesKept

LEMMA TradeKeepsVolumes ==
    ASSUME IInv, OrdersFollowed, VolumesKept, NEW buy, NEW sell, NEW price,
           Settles(buy, sell, price)
    PROVE  VolumesKept'
<1>1. PICK volume : volume = getDealVolume(buy, sell)
  OBVIOUS
<1>2. /\ buy \in OpenOrders /\ sell \in OpenOrders
      /\ buy.type = "buy" /\ sell.type = "sell"
      /\ buy.uid \in DOMAIN users /\ sell.uid \in DOMAIN users
      /\ volume \in Int /\ orders' = orders
  BY <1>1, TradeParties DEF Settles
<1>3. PICK first, second :
          /\ IsFill(first, buy, volume, price) /\ IsFill(second, sell, volume, price)
          /\ closedDeals' = Record(Record(closedDeals, first), second)
  BY <1>1 DEF Settles
<1>4. Histories(closedDeals, DOMAIN users)
  BY DEF IInv, TypeOK, Histories
<1>5. ASSUME NEW uid, NEW id
      PROVE  /\ FilledOf(uid, id) \in Int
             /\ FilledOf(uid, id)' = FilledOf(uid, id)
                  + (IF uid = buy.uid /\ id = buy.id THEN volume ELSE 0)
                  + (IF uid = sell.uid /\ id = sell.id THEN volume ELSE 0)
  BY <1>2, <1>3, <1>4, TradeSums DEF FilledOf
<1>6. OpenOrders' = (OpenOrders \ {buy, sell}) \cup Abstract!Rest(buy, volume)
                       \cup Abstract!Rest(sell, volume)
  BY <1>1 DEF Settles, Abstract!TradeBetween, getDealVolume
<1>7. /\ \A order \in OpenOrders :
            /\ order.id \in DOMAIN orders /\ order.uid = orders[order.id].uid
            /\ order.volume \in Int
      /\ \A a, b \in OpenOrders : a.id = b.id => a = b
  BY OpenAreFollowed
<1>8. buy.id # sell.id
  BY <1>2, <1>7
<1>9. /\ buy.volume + FilledOf(buy.uid, buy.id) = orders[buy.id].volume
      /\ sell.volume + FilledOf(sell.uid, sell.id) = orders[sell.id].volume
  BY <1>2 DEF VolumesKept
<1>10. ASSUME NEW order \in {buy, sell}
       PROVE  /\ order \in OpenOrders /\ order.volume \in Int
              /\ FilledOf(order.uid, order.id) \in Int
              /\ order.volume + FilledOf(order.uid, order.id) = orders[order.id].volume
              /\ FilledOf(order.uid, order.id)' = FilledOf(order.uid, order.id) + volume
  BY <1>2, <1>5, <1>7, <1>8, <1>9
<1>11. ASSUME NEW order \in OpenOrders'
       PROVE  order.volume + FilledOf(order.uid, order.id)' = orders'[order.id].volume
  <2>1. ASSUME NEW old \in {buy, sell}, order \in Abstract!Rest(old, volume)
        PROVE  order.volume + FilledOf(order.uid, order.id)' = orders'[order.id].volume
    <3>1. order.id = old.id /\ order.uid = old.uid /\ order.volume = old.volume - volume
      BY <1>10, <2>1, RestLeft
    <3>2. QED
      BY <1>2, <1>10, <3>1
  <2>2. CASE order \in OpenOrders \ {buy, sell}
    <3>1. order.id # buy.id /\ order.id # sell.id
      BY <1>2, <1>7, <2>2
    <3>2. FilledOf(order.uid, order.id)' = FilledOf(order.uid, order.id)
      BY <1>5, <3>1
    <3>3. QED
      BY <1>2, <2>2, <3>2 DEF VolumesKept
  <2>3. QED
    BY <1>6, <2>1, <2>2
<1>12. ASSUME NEW id \in DOMAIN orders, \A order \in OpenOrders' : order.id # id
       PROVE  FilledOf(orders[id].uid, id)' = orders[id].volume
  <2>1. ASSUME NEW old \in {buy, sell}, old.id = id
        PROVE  FilledOf(orders[id].uid, id)' = orders[id].volume
    <3>1. Abstract!Rest(old, volume) = {}
      BY <1>6, <1>10, <1>12, <2>1, RestLeft
    <3>2. old.volume = volume
      BY <1>10, <3>1, RestLeft
    <3>3. old.uid = orders[id].uid
      BY <1>7, <1>10, <2>1
    <3>4. QED
      BY <1>2, <1>10, <2>1, <3>2, <3>3
  <2>2. CASE id # buy.id /\ id # sell.id
    <3>1. \A order \in OpenOrders : order.id # id
      BY <1>6, <1>12, <2>2
    <3>2. FilledOf(orders[id].uid, id) = orders[id].volume
      BY <3>1 DEF VolumesKept
    <3>3. FilledOf(orders[id].uid, id)' = FilledOf(orders[id].uid, id)
      BY <1>2, <1>5, <2>2
    <3>4. QED
      BY <3>2, <3>3
  <2>3. QED
    BY <2>1, <2>2
<1>13. ASSUME NEW uid, NEW id, id \notin DOMAIN orders PROVE FilledOf(uid, id)' = 0
  <2>1. id # buy.id /\ id # sell.id
    BY <1>2, <1>7, <1>13
  <2>2. FilledOf(uid, id) = 0
    BY <1>13 DEF VolumesKept
  <2>3. QED
    BY <1>5, <2>1, <2>2
<1>14. QED
  BY <1>2, <1>11, <1>12, <1>13 DEF VolumesKept

LEMMA NextKeepsVolumes ==
    ASSUME ForeignUids = {}, IInv, OrdersFollowed, OrdersOwned, VolumesKept, [Next]_vars
    PROVE  VolumesKept'
<1>1. CASE Rests \/ Opens
  <2>1. UNCHANGED <<OpenOrders, orders, closedDeals>>
    BY <1>1 DEF Rests, Opens
  <2>2. QED
    BY <2>1 DEF VolumesKept, FilledOf
<1>2. QED
  BY <1>1, OwnedSteps, SubmitKeepsVolumes, TradeKeepsVolumes

-----------------------------------------------------------------------------
(* What the queries answer *)

\* o holds the user's deals among the first n of the book, for every n.
OwnedUpTo(o, book, uid) ==
    o = [n \in 0 .. Len(book) |->
            IF n = 0 THEN <<>>
            ELSE IF book[n].uid = uid THEN Append(o[n - 1], book[n]) ELSE o[n - 1]]

LEMMA OwnedExists ==
    ASSUME NEW S, NEW book \in Seq(S), NEW uid
    PROVE  \E o : OwnedUpTo(o, book, uid)
<1> DEFINE Step(o, n) == IF n = 0 THEN <<>>
                         ELSE IF book[n].uid = uid THEN Append(o[n - 1], book[n]) ELSE o[n - 1]
           Solved(n) == \E o : o = [m \in 0 .. n |-> Step(o, m)]
           G == {n \in Nat : Solved(n)}
<1>1. 0 \in G
  <2>1. PICK o : o = [m \in 0 .. 0 |-> <<>>]
    OBVIOUS
  <2>2. o = [m \in 0 .. 0 |-> Step(o, m)]
    BY <2>1
  <2>3. QED
    BY <2>2
<1>2. ASSUME NEW n \in Nat, n \in G PROVE n + 1 \in G
  <2>1. PICK o : o = [m \in 0 .. n |-> Step(o, m)]
    BY <1>2
  <2>2. PICK p : p = [m \in 0 .. n + 1 |-> Step(o, m)]
    OBVIOUS
  <2>3. ASSUME NEW m \in 0 .. n PROVE p[m] = o[m]
    <3> HIDE DEF Step
    <3>1. m \in 0 .. n + 1
      OBVIOUS
    <3>2. p[m] = Step(o, m) /\ o[m] = Step(o, m)
      BY <2>1, <2>2, <3>1
    <3>3. QED
      BY <3>2
  <2>4. ASSUME NEW m \in 0 .. n + 1 PROVE Step(p, m) = Step(o, m)
    <3>1. m # 0 => m - 1 \in 0 .. n
      OBVIOUS
    <3>2. m # 0 => p[m - 1] = o[m - 1]
      BY <2>3, <3>1
    <3>3. QED
      BY <3>2
  <2>5. p = [m \in 0 .. n + 1 |-> Step(p, m)]
    BY <2>2, <2>4
  <2>6. Solved(n + 1)
    BY <2>5
  <2> HIDE DEF Solved
  <2>7. QED
    BY <2>6
<1> HIDE DEF G
<1>3. Nat \subseteq G
  BY <1>1, <1>2, NatSetInduction
<1>4. Len(book) \in Nat
  BY LenProperties
<1>5. PICK o : o = [m \in 0 .. Len(book) |-> Step(o, m)]
  BY <1>3, <1>4 DEF G
<1>6. OwnedUpTo(o, book, uid)
  BY <1>5 DEF OwnedUpTo
<1>7. QED
  BY <1>6

\* The user's deals are deals of the book, and an order's volume is in them once
\* when the order rests in that book and is the user's, and else not at all.
LEMMA OwnedSums ==
    ASSUME NEW book \in Seq(DealType), Distinct(book), NEW uid
    PROVE  /\ Owned(book, uid) \in Seq(DealType)
           /\ \A i \in DOMAIN Owned(book, uid) : Owned(book, uid)[i] \in ToSet(book)
           /\ \A history \in Seq(DealType) : \A id :
                 /\ (\A deal \in ToSet(book) : ~(deal.uid = uid /\ deal.id = id))
                      => VolumeOf(history \o Owned(book, uid), id) = VolumeOf(history, id)
                 /\ \A deal \in ToSet(book) :
                      deal.uid = uid /\ deal.id = id
                        => VolumeOf(history \o Owned(book, uid), id)
                             = VolumeOf(history, id) + deal.volume
<1>1. /\ Len(book) \in Nat /\ DOMAIN book = 1 .. Len(book)
      /\ \A i \in 1 .. Len(book) : book[i] \in DealType
  BY LenProperties, ElementOfSeq
<1>2. PICK o : OwnedUpTo(o, book, uid) /\ Owned(book, uid) = o[Len(book)]
  <2>1. Owned(book, uid) = (CHOOSE o : OwnedUpTo(o, book, uid))[Len(book)]
    BY DEF Owned, OwnedUpTo
  <2>2. QED
    BY <2>1, OwnedExists
<1>3. /\ o[0] = <<>>
      /\ \A n \in Nat : n + 1 <= Len(book)
           => o[n + 1] = IF book[n + 1].uid = uid THEN Append(o[n], book[n + 1]) ELSE o[n]
  <2>1. ASSUME NEW n \in Nat, n + 1 <= Len(book)
        PROVE  o[n + 1] = IF book[n + 1].uid = uid THEN Append(o[n], book[n + 1]) ELSE o[n]
    <3>1. n + 1 \in 0 .. Len(book) /\ n + 1 # 0 /\ (n + 1) - 1 = n
      BY <1>1, <2>1
    <3>2. o[n + 1] = IF book[n + 1].uid = uid THEN Append(o[(n + 1) - 1], book[n + 1])
                                              ELSE o[(n + 1) - 1]
      BY <1>2, <3>1 DEF OwnedUpTo
    <3>3. QED
      BY <3>1, <3>2
  <2>2. o[0] = <<>>
    BY <1>1, <1>2 DEF OwnedUpTo
  <2>3. QED
    BY <2>1, <2>2
<1> DEFINE Mine(k, id) == book[k].uid = uid /\ book[k].id = id
           Counts(n, h, id) ==
               /\ (\A k \in 1 .. n : ~Mine(k, id))
                    => VolumeOf(h \o o[n], id) = VolumeOf(h, id)
               /\ \A k \in 1 .. n : Mine(k, id)
                    => VolumeOf(h \o o[n], id) = VolumeOf(h, id) + book[k].volume
           G == {n \in Nat : n <= Len(book) =>
                    /\ o[n] \in Seq(DealType)
                    /\ \A i \in DOMAIN o[n] : o[n][i] \in ToSet(book)
                    /\ \A h \in Seq(DealType) : \A id : Counts(n, h, id)}
<1>4. 0 \in G
  <2>1. o[0] \in Seq(DealType) /\ DOMAIN o[0] = {}
    BY <1>3, EmptySeq
  <2>2. \A h \in Seq(DealType) : h \o o[0] = h
    BY <1>3, ConcatEmptySeq
  <2>3. ASSUME NEW h \in Seq(DealType), NEW id PROVE Counts(0, h, id)
    <3>1. \A k \in 1 .. 0 : FALSE
      OBVIOUS
    <3>2. QED
      BY <2>2, <3>1
  <2> HIDE DEF Counts
  <2>4. QED
    BY <2>1, <2>3
<1>5. ASSUME NEW n \in Nat, n \in G PROVE n + 1 \in G
  <2> SUFFICES ASSUME n + 1 <= Len(book)
               PROVE  /\ o[n + 1] \in Seq(DealType)
                      /\ \A i \in DOMAIN o[n + 1] : o[n + 1][i] \in ToSet(book)
                      /\ \A h \in Seq(DealType) : \A id : Counts(n + 1, h, id)
    OBVIOUS
  <2>1. PICK m, deal, old, new : m = n + 1 /\ deal = book[m] /\ old = o[n] /\ new = o[m]
    OBVIOUS
  <2>2. /\ m \in 1 .. Len(book) /\ 1 .. m = (1 .. n) \cup {m} /\ m \notin 1 .. n
        /\ deal \in DealType /\ deal \in ToSet(book) /\ deal.volume \in Int
        /\ \A k \in 1 .. n : k \in DOMAIN book /\ book[k].id # deal.id
    <3>1. m \in 1 .. Len(book) /\ 1 .. m = (1 .. n) \cup {m} /\ m \notin 1 .. n
          /\ 1 .. n \subseteq 1 .. Len(book)
      BY <1>1, <2>1
    <3>2. QED
      BY <1>1, <2>1, <3>1 DEF ToSet, Distinct, DealType
  <2>3. /\ old \in Seq(DealType) /\ \A i \in DOMAIN old : old[i] \in ToSet(book)
        /\ \A h \in Seq(DealType) : \A id : Counts(n, h, id)
    <3>1. n <= Len(book)
      BY <1>1
    <3>2. QED
      BY <1>5, <2>1, <3>1
  <2>4. new = IF deal.uid = uid THEN Append(old, deal) ELSE old
    BY <1>3, <2>1
  <2>5. new \in Seq(DealType) /\ \A i \in DOMAIN new : new[i] \in ToSet(book)
    <3>1. CASE deal.uid = uid
      <4>1. /\ Append(old, deal) \in Seq(DealType)
            /\ DOMAIN Append(old, deal) = 1 .. Len(old) + 1 /\ DOMAIN old = 1 .. Len(old)
            /\ \A i \in 1 .. Len(old) : Append(old, deal)[i] = old[i]
            /\ Append(old, deal)[Len(old) + 1] = deal /\ Len(old) \in Nat
        BY <2>2, <2>3, LenProperties, AppendProperties
      <4>2. QED
        BY <2>2, <2>3, <2>4, <3>1, <4>1
    <3>2. QED
      BY <2>3, <2>4, <3>1
  <2>6. ASSUME NEW h \in Seq(DealType), NEW id
        PROVE  /\ VolumeOf(h \o old, id) \in Int
               /\ VolumeOf(h \o new, id) = VolumeOf(h \o old, id)
                      + (IF Mine(m, id) THEN deal.volume ELSE 0)
    <3>1. h \o old \in Seq(DealType)
      BY <2>3, ConcatProperties
    <3>2. PICK both : both = h \o old
      OBVIOUS
    <3>3. /\ VolumeOf(both, id) \in Int
          /\ VolumeOf(Append(both, deal), id) = VolumeOf(both, id)
                 + (IF deal.id = id THEN deal.volume ELSE 0)
      BY <2>2, <3>1, <3>2, HistorySums
    <3>4. h \o Append(old, deal) = Append(both, deal)
      BY <2>2, <2>3, <3>2
    <3>5. CASE deal.uid = uid
      <4>1. new = Append(old, deal) /\ (Mine(m, id) <=> deal.id = id)
        BY <2>1, <2>4, <3>5
      <4>2. QED
        BY <3>2, <3>3, <3>4, <4>1
    <3>6. CASE deal.uid # uid
      <4>1. new = old /\ ~Mine(m, id)
        BY <2>1, <2>4, <3>6
      <4>2. QED
        BY <3>2, <3>3, <4>1
    <3>7. QED
      BY <3>5, <3>6
  <2> HIDE DEF G
  <2>7. ASSUME NEW h \in Seq(DealType), NEW id PROVE Counts(n + 1, h, id)
    <3>1. /\ VolumeOf(h \o old, id) \in Int
          /\ VolumeOf(h \o new, id) = VolumeOf(h \o old, id)
                 + (IF Mine(m, id) THEN deal.volume ELSE 0)
      BY <2>6
    <3>2. Counts(n, h, id)
      BY <2>3
    <3>3. ASSUME \A k \in 1 .. m : ~Mine(k, id)
          PROVE  VolumeOf(h \o new, id) = VolumeOf(h, id)
      <4>1. VolumeOf(h \o old, id) = VolumeOf(h, id)
        BY <2>1, <2>2, <3>2, <3>3
      <4>2. ~Mine(m, id)
        BY <2>2, <3>3
      <4>3. QED
        BY <3>1, <4>1, <4>2
    <3>4. ASSUME NEW k \in 1 .. m, Mine(k, id)
          PROVE  VolumeOf(h \o new, id) = VolumeOf(h, id) + book[k].volume
      <4>1. CASE k = m
        <5>1. \A l \in 1 .. n : ~Mine(l, id)
          BY <2>1, <2>2, <3>4, <4>1
        <5>2. VolumeOf(h \o old, id) = VolumeOf(h, id)
          BY <2>1, <3>2, <5>1
        <5>3. QED
          BY <2>1, <3>1, <3>4, <4>1, <5>2
      <4>2. CASE k \in 1 .. n
        <5>1. ~Mine(m, id)
          BY <2>1, <2>2, <3>4, <4>2
        <5>2. VolumeOf(h \o old, id) = VolumeOf(h, id) + book[k].volume
          BY <2>1, <3>2, <3>4, <4>2
        <5>3. QED
          BY <3>1, <5>1, <5>2
      <4>3. QED
        BY <2>2, <4>1, <4>2
    <3>5. QED
      BY <2>1, <3>3, <3>4
  <2>8. QED
    BY <2>1, <2>5, <2>7
<1> HIDE DEF G
<1>6. Nat \subseteq G
  BY <1>4, <1>5, NatSetInduction
<1>7. /\ o[Len(book)] \in Seq(DealType)
      /\ \A i \in DOMAIN o[Len(book)] : o[Len(book)][i] \in ToSet(book)
      /\ \A h \in Seq(DealType) : \A id : Counts(Len(book), h, id)
  BY <1>1, <1>6 DEF G
<1>8. QED
  BY <1>1, <1>2, <1>7 DEF ToSet

\* Between calls an order's owner is shown what is left of it, and nobody else is.
LEMMA ShownVolume ==
    ASSUME IInv, OrdersFollowed, Quiescent, NEW id \in DOMAIN orders
    PROVE  LET shown == VolumeOf(GetUserActiveDeals(orders[id].uid), id)
           IN  /\ \A order \in OpenOrders : order.id = id => shown = order.volume
               /\ (\A order \in OpenOrders : order.id # id) => shown = 0
<1> DEFINE uid == orders[id].uid
           buys == Owned(activeBuys, uid)
           sells == Owned(activeSells, uid)
           mine(deal) == deal.uid = uid /\ deal.id = id
<1>1. /\ activeBuys \in Seq(Resting("buy")) /\ activeSells \in Seq(Resting("sell"))
      /\ Distinct(activeBuys) /\ Distinct(activeSells)
  BY DEF IInv, TypeOK, OrdersFollowed
<1>2. activeBuys \in Seq(DealType) /\ activeSells \in Seq(DealType)
  <2>1. ASSUME NEW side, NEW book \in Seq(Resting(side)) PROVE book \in Seq(DealType)
    BY LenProperties, ElementOfSeq, IsASeq DEF Resting
  <2>2. QED
    BY <1>1, <2>1
<1>3. /\ <<>> \in Seq(DealType) /\ buys \in Seq(DealType) /\ sells \in Seq(DealType)
      /\ <<>> \o buys = buys /\ VolumeOf(<<>>, id) = 0
  BY <1>1, <1>2, OwnedSums, EmptySeq, ConcatEmptySeq, EmptyHistory
<1>4. /\ \A deal \in ToSet(activeBuys) : mine(deal) => VolumeOf(buys, id) = deal.volume
      /\ (\A deal \in ToSet(activeBuys) : ~mine(deal)) => VolumeOf(buys, id) = 0
  <2>1. PICK none \in Seq(DealType) : none = <<>>
    BY <1>3
  <2>2. /\ (\A deal \in ToSet(activeBuys) : ~mine(deal))
             => VolumeOf(none \o buys, id) = VolumeOf(none, id)
        /\ \A deal \in ToSet(activeBuys) :
             mine(deal) => VolumeOf(none \o buys, id) = VolumeOf(none, id) + deal.volume
    BY <1>1, <1>2, OwnedSums
  <2>3. \A deal \in ToSet(activeBuys) : deal.volume \in Int
    BY <1>1, BookElements DEF DealType
  <2> HIDE DEF buys, mine
  <2>4. QED
    BY <1>3, <2>1, <2>2, <2>3
<1>5. /\ \A deal \in ToSet(activeSells) :
            mine(deal) => VolumeOf(buys \o sells, id) = VolumeOf(buys, id) + deal.volume
      /\ (\A deal \in ToSet(activeSells) : ~mine(deal))
            => VolumeOf(buys \o sells, id) = VolumeOf(buys, id)
  BY <1>1, <1>2, <1>3, OwnedSums
<1>6. GetUserActiveDeals(uid) = buys \o sells
  BY DEF GetUserActiveDeals
<1>7. /\ \A deal \in ToSet(activeBuys) : deal.type = "buy" /\ Follows(deal) /\ deal.volume \in Int
      /\ \A deal \in ToSet(activeSells) : deal.type = "sell" /\ Follows(deal) /\ deal.volume \in Int
  BY <1>1, BookElements DEF OrdersFollowed, DealType
<1>8. \A deal \in ToSet(activeBuys) \cup ToSet(activeSells) : mine(deal) <=> deal.id = id
  BY <1>7 DEF Follows
<1>9. OpenOrders = Views(ToSet(activeBuys)) \cup Views(ToSet(activeSells))
  <2>1. Views(InFlight) = {}
    BY DEF InFlight, Views, Quiescent
  <2>2. QED
    BY <2>1, OpenOrdersSplit
<1> HIDE DEF buys, sells, uid, mine
<1>10. ASSUME NEW order \in OpenOrders, order.id = id
       PROVE  VolumeOf(buys \o sells, id) = order.volume
  <2>1. PICK deal \in ToSet(activeBuys) \cup ToSet(activeSells) : order = View(deal)
    BY <1>9 DEF Views
  <2>2. deal.id = id /\ deal.volume = order.volume
    BY <1>10, <2>1 DEF View
  <2>3. CASE deal \in ToSet(activeBuys)
    <3>1. \A other \in ToSet(activeSells) : ~mine(other)
      BY <1>7, <1>8, <2>2, <2>3 DEF Follows
    <3>2. QED
      BY <1>4, <1>5, <1>8, <2>2, <2>3, <3>1
  <2>4. CASE deal \in ToSet(activeSells)
    <3>1. \A other \in ToSet(activeBuys) : ~mine(other)
      BY <1>7, <1>8, <2>2, <2>4 DEF Follows
    <3>2. VolumeOf(buys, id) = 0 /\ VolumeOf(buys \o sells, id) = VolumeOf(buys, id) + deal.volume
      BY <1>4, <1>5, <1>8, <2>2, <2>4, <3>1
    <3>3. QED
      BY <1>7, <2>2, <2>4, <3>2
  <2>5. QED
    BY <2>3, <2>4
<1>11. ASSUME \A order \in OpenOrders : order.id # id
       PROVE  VolumeOf(buys \o sells, id) = 0
  <2>1. ASSUME NEW deal \in ToSet(activeBuys) \cup ToSet(activeSells) PROVE deal.id # id
    <3>1. View(deal) \in OpenOrders
      BY <1>9 DEF Views
    <3>2. View(deal).id = deal.id
      BY DEF View
    <3>3. QED
      BY <1>11, <3>1, <3>2
  <2>2. QED
    BY <1>4, <1>5, <1>8, <2>1
<1>12. QED
  BY <1>6, <1>10, <1>11 DEF uid

-----------------------------------------------------------------------------
(* Conservation *)

\* A sum stays when a term 0 is added, and when one term loses what another gains,
\* also when that is the same term.
LEMMA SumOpened ==
    ASSUME NEW f, NEW g, NEW S, NEW a, NEW T, T = S \cup {a}, IsFiniteSet(S), a \notin S,
           \A x \in S : f[x] \in Int, \A x \in S : g[x] = f[x], g[a] = 0
    PROVE  SumFunctionOnSet(g, T) = SumFunctionOnSet(f, S)
<1>1. IsFiniteSet(T) /\ a \in T /\ T \ {a} = S /\ \A x \in T : g[x] \in Int
  BY FS_AddElement
<1>2. SumFunctionOnSet(g, T) = g[a] + SumFunctionOnSet(g, T \ {a})
  BY <1>1, SumRemove
<1>3. SumFunctionOnSet(g, S) = SumFunctionOnSet(f, S) /\ SumFunctionOnSet(f, S) \in Int
  BY SumSame, SumType
<1>4. PICK m : m = SumFunctionOnSet(f, S)
  OBVIOUS
<1>5. m \in Int /\ SumFunctionOnSet(g, T) = 0 + m
  BY <1>1, <1>2, <1>3, <1>4
<1>6. QED
  BY <1>4, <1>5

LEMMA SumTransferred ==
    ASSUME NEW f, NEW g, NEW S, NEW a \in S, NEW b \in S, IsFiniteSet(S), NEW d \in Int,
           \A x \in S : f[x] \in Int,
           \A x \in S : x # a /\ x # b => g[x] = f[x],
           a = b => g[a] = f[a],
           a # b => g[a] = f[a] + d /\ g[b] = f[b] - d
    PROVE  SumFunctionOnSet(g, S) = SumFunctionOnSet(f, S)
<1>1. PICK h, e : h = [x \in S |-> f[x] + (IF x = a THEN d ELSE 0)] /\ e = -d
  OBVIOUS
<1>2. /\ e \in Int /\ \A x \in S : h[x] \in Int
      /\ \A x \in S \ {a} : h[x] = f[x]
      /\ h[a] = f[a] + d
  BY <1>1
<1>3. SumFunctionOnSet(h, S) = SumFunctionOnSet(f, S) + d
  BY <1>2, SumChanged
<1>4. /\ \A x \in S \ {b} : g[x] = h[x]
      /\ g[b] = h[b] + e
  <2>1. f[a] \in Int /\ f[b] \in Int
    OBVIOUS
  <2>2. QED
    BY <1>1, <1>2, <2>1
<1>5. SumFunctionOnSet(g, S) = SumFunctionOnSet(h, S) + e
  BY <1>2, <1>4, SumChanged
<1>6. SumFunctionOnSet(f, S) \in Int
  BY SumType
<1>7. QED
  BY <1>1, <1>3, <1>5, <1>6

DollarBalances == [uid \in DOMAIN Balances |-> Balances[uid].usd]
RoubleBalances == [uid \in DOMAIN Balances |-> Balances[uid].rub]

Conserved ==
    /\ SumFunctionOnSet(DollarBalances, DOMAIN Balances) = 0
    /\ SumFunctionOnSet(RoubleBalances, DOMAIN Balances) = 0

LEMMA AccountsFinite == IInv => IsFiniteSet(DOMAIN Balances)
<1>1. ASSUME IInv PROVE DOMAIN Balances = 1 .. (maxUid - 1) /\ maxUid - 1 \in Int
  BY <1>1 DEF IInv, TypeOK, Balances
<1>2. QED
  BY <1>1, FS_Interval

LEMMA OpenConserves ==
    ASSUME IInv, Conserved, Opens
    PROVE  Conserved'
<1>1. PICK U, T, new : /\ U = DOMAIN Balances /\ T = DOMAIN Balances'
                       /\ new = 1 + Cardinality(DOMAIN Balances)
  OBVIOUS
<1>2. /\ new \notin U /\ T = U \cup {new}
      /\ \A uid \in U : Balances'[uid] = Balances[uid]
      /\ Balances'[new].usd = 0 /\ Balances'[new].rub = 0
  BY <1>1 DEF Opens, Abstract!OpenAccount
<1>3. IsFiniteSet(U) /\ Balances \in [U -> Balance]
  BY <1>1, AccountsFinite, BalancesType DEF Balances
<1>4. PICK f, g : f = DollarBalances /\ g = DollarBalances'
  OBVIOUS
<1>5. /\ \A x \in U : f[x] \in Int
      /\ \A x \in U : g[x] = f[x]
      /\ g[new] = 0
  BY <1>1, <1>2, <1>3, <1>4 DEF DollarBalances, Balance
<1>6. SumFunctionOnSet(g, T) = SumFunctionOnSet(f, U)
  BY <1>2, <1>3, <1>5, SumOpened
<1>7. PICK p, q : p = RoubleBalances /\ q = RoubleBalances'
  OBVIOUS
<1>8. /\ \A x \in U : p[x] \in Int
      /\ \A x \in U : q[x] = p[x]
      /\ q[new] = 0
  BY <1>1, <1>2, <1>3, <1>7 DEF RoubleBalances, Balance
<1>9. SumFunctionOnSet(q, T) = SumFunctionOnSet(p, U)
  BY <1>2, <1>3, <1>8, SumOpened
<1>10. QED
  BY <1>1, <1>4, <1>6, <1>7, <1>9 DEF Conserved

LEMMA TradeConserves ==
    ASSUME IInv, OrdersFollowed, Conserved, NEW buy, NEW sell, NEW price,
           Settles(buy, sell, price)
    PROVE  Conserved'
<1>1. PICK U, volume, worth :
          /\ U = DOMAIN users /\ volume = getDealVolume(buy, sell) /\ worth = price * volume
  OBVIOUS
<1>2. /\ buy.uid \in U /\ sell.uid \in U /\ volume \in Int /\ worth \in Int
      /\ DOMAIN Balances = U /\ DOMAIN Balances' = U
  BY <1>1, TradeParties DEF Balances
<1>3. IsFiniteSet(U) /\ Balances \in [U -> Balance]
  BY <1>1, <1>2, AccountsFinite, BalancesType
<1>4. ASSUME NEW uid \in U
      PROVE  /\ Balances[uid].usd \in Int /\ Balances[uid].rub \in Int
             /\ Balances'[uid].usd = Balances[uid].usd
                    + (IF uid = buy.uid THEN volume ELSE 0)
                    - (IF uid = sell.uid THEN volume ELSE 0)
             /\ Balances'[uid].rub = Balances[uid].rub
                    - (IF uid = buy.uid THEN worth ELSE 0)
                    + (IF uid = sell.uid THEN worth ELSE 0)
  BY <1>1, <1>3, TradeBalances DEF Balance
<1>5. PICK f, g : f = DollarBalances /\ g = DollarBalances'
  OBVIOUS
<1>6. /\ \A uid \in U : f[uid] \in Int
      /\ \A uid \in U : g[uid] = f[uid] + (IF uid = buy.uid THEN volume ELSE 0)
                                        - (IF uid = sell.uid THEN volume ELSE 0)
  BY <1>2, <1>4, <1>5 DEF DollarBalances
<1>7. SumFunctionOnSet(g, U) = SumFunctionOnSet(f, U)
  <2>1. PICK a, b : a = buy.uid /\ b = sell.uid
    OBVIOUS
  <2>2. /\ a \in U /\ b \in U /\ IsFiniteSet(U) /\ volume \in Int
        /\ \A x \in U : f[x] \in Int
    BY <1>2, <1>3, <1>6, <2>1
  <2>3. \A x \in U : g[x] = f[x] + (IF x = a THEN volume ELSE 0)
                                     - (IF x = b THEN volume ELSE 0)
    BY <2>1, <1>6, <1>2
  <2>4. /\ \A x \in U : x # a /\ x # b => g[x] = f[x]
        /\ a = b => g[a] = f[a]
        /\ a # b => g[a] = f[a] + volume /\ g[b] = f[b] - volume
    BY <2>2, <2>3
  <2>5. QED
    BY <2>2, <2>4, SumTransferred
<1>8. PICK p, q : p = RoubleBalances /\ q = RoubleBalances'
  OBVIOUS
<1>9. /\ \A uid \in U : p[uid] \in Int
      /\ \A uid \in U : q[uid] = p[uid] - (IF uid = buy.uid THEN worth ELSE 0)
                                        + (IF uid = sell.uid THEN worth ELSE 0)
  BY <1>2, <1>4, <1>8 DEF RoubleBalances
<1>10. SumFunctionOnSet(q, U) = SumFunctionOnSet(p, U)
  <2>1. PICK a, b : a = sell.uid /\ b = buy.uid
    OBVIOUS
  <2>2. /\ a \in U /\ b \in U /\ IsFiniteSet(U) /\ worth \in Int
        /\ \A x \in U : p[x] \in Int
    BY <1>2, <1>3, <1>9, <2>1
  <2>3. \A x \in U : q[x] = p[x] + (IF x = a THEN worth ELSE 0)
                                     - (IF x = b THEN worth ELSE 0)
    BY <2>1, <1>9, <1>2
  <2>4. /\ \A x \in U : x # a /\ x # b => q[x] = p[x]
        /\ a = b => q[a] = p[a]
        /\ a # b => q[a] = p[a] + worth /\ q[b] = p[b] - worth
    BY <2>2, <2>3
  <2>5. QED
    BY <2>2, <2>4, SumTransferred
<1>11. QED
  BY <1>2, <1>5, <1>7, <1>8, <1>10 DEF Conserved

\* What one account gains another loses.
LEMMA ConservedInvariant ==
    ASSUME ForeignUids = {}
    PROVE  Spec => [](IInv /\ Conserved)
<1>1. Init => Conserved
  <2> SUFFICES ASSUME Init PROVE Conserved
    OBVIOUS
  <2>1. DOMAIN Balances = {}
    BY DEF Init, TableInit, Balances
  <2>2. QED
    BY <2>1, SumEmpty DEF Conserved
<1>2. IInv /\ OrdersFollowed /\ OrdersOwned /\ Conserved /\ [Next]_vars => Conserved'
  <2> SUFFICES ASSUME IInv, OrdersFollowed, OrdersOwned, Conserved, [Next]_vars
               PROVE  Conserved'
    OBVIOUS
  <2>1. CASE Rests \/ \E order : Submits(order)
    <3>1. UNCHANGED Balances
      BY <2>1 DEF Rests, Submits
    <3>2. QED
      BY <3>1 DEF Conserved, DollarBalances, RoubleBalances
  <2>2. QED
    BY <2>1, OwnedSteps, OpenConserves, TradeConserves
<1>3. QED
  BY <1>1, <1>2, OwnedInvariant, PTL DEF Spec

-----------------------------------------------------------------------------
(* The theorems on volumes and quotes *)

\* No part of an order is lost or filled twice: between calls what its owner sees
\* active and what the owner sees closed make up the volume submitted, over any
\* number of partial fills (core.cpp:37-66, 70-99, 112-131).
THEOREM OrdersAreAccounted ==
    ASSUME ForeignUids = {}
    PROVE  Spec => []VolumeAccounted
<1>1. Init => VolumesKept
  <2> SUFFICES ASSUME Init PROVE VolumesKept
    OBVIOUS
  <2>1. OpenOrders = {} /\ DOMAIN orders = {} /\ \A uid : ClosedOf(closedDeals, uid) = <<>>
    BY DEF Init, OpenOrders, Quiescent, ToSet, ClosedOf
  <2>2. QED
    BY <2>1, EmptyHistory DEF VolumesKept, FilledOf
<1>2. IInv /\ OrdersFollowed /\ OrdersOwned /\ VolumesKept /\ [Next]_vars => VolumesKept'
  BY NextKeepsVolumes
<1>3. IInv /\ OrdersFollowed /\ VolumesKept => VolumeAccounted
  <2> SUFFICES ASSUME IInv, OrdersFollowed, VolumesKept, Quiescent, NEW id \in DOMAIN orders
               PROVE  VolumeOf(GetUserActiveDeals(orders[id].uid), id)
                        + VolumeOf(GetUserClosedDeals(orders[id].uid), id) = orders[id].volume
    BY DEF VolumeAccounted, VolumeOf
  <2>1. PICK uid, shown : uid = orders[id].uid /\ shown = VolumeOf(GetUserActiveDeals(uid), id)
    OBVIOUS
  <2>2. VolumeOf(GetUserClosedDeals(uid), id) = FilledOf(uid, id)
    BY DEF GetUserClosedDeals, FilledOf
  <2>3. orders[id].volume \in Int
    <3>1. orders \in Seq(DealType)
      BY DEF IInv, TypeOK
    <3>2. orders[id] \in DealType
      BY <3>1, LenProperties, ElementOfSeq
    <3>3. QED
      BY <3>2 DEF DealType
  <2>4. CASE \E order \in OpenOrders : order.id = id
    <3>1. PICK order \in OpenOrders : order.id = id
      BY <2>4
    <3>2. shown = order.volume
      BY <2>1, <3>1, ShownVolume
    <3>3. order.uid = uid
      BY <2>1, <3>1, OpenAreFollowed
    <3>4. order.volume + FilledOf(uid, id) = orders[id].volume
      BY <3>1, <3>3 DEF VolumesKept
    <3>5. QED
      BY <2>1, <2>2, <3>2, <3>4
  <2>5. CASE \A order \in OpenOrders : order.id # id
    <3>1. shown = 0
      BY <2>1, <2>5, ShownVolume
    <3>2. FilledOf(uid, id) = orders[id].volume
      BY <2>1, <2>5 DEF VolumesKept
    <3>3. QED
      BY <2>1, <2>2, <2>3, <3>1, <3>2
  <2>6. QED
    BY <2>4, <2>5
<1>4. QED
  BY <1>1, <1>2, <1>3, OwnedInvariant, PTL DEF Spec

\* The prices shown are the best of all orders shown to anybody, although only the
\* first element of each book is read (core.cpp:112-123, 133-141).
THEOREM QuotesAreBest == Spec => []BestQuotes
<1>1. IInv /\ OrdersFollowed => BestQuotes
  <2> SUFFICES ASSUME IInv, OrdersFollowed, NEW uid \in DOMAIN users,
                      NEW i \in DOMAIN GetUserActiveDeals(uid),
                      NEW deal, deal = GetUserActiveDeals(uid)[i]
               PROVE  IF deal.type = "buy" THEN deal.price <= GetBestPrices.buy[1]
                                           ELSE deal.price >= GetBestPrices.sell[1]
    BY DEF BestQuotes
  <2>1. /\ activeBuys \in Seq(Resting("buy")) /\ activeSells \in Seq(Resting("sell"))
        /\ Distinct(activeBuys) /\ Distinct(activeSells)
        /\ Sorted(activeBuys) /\ Sorted(activeSells)
    BY DEF IInv, TypeOK, BooksSorted, OrdersFollowed
  <2>2. ASSUME NEW side, NEW book \in Seq(Resting(side)), Distinct(book)
        PROVE  /\ book \in Seq(DealType) /\ Owned(book, uid) \in Seq(DealType)
               /\ \A j \in DOMAIN Owned(book, uid) : Owned(book, uid)[j] \in ToSet(book)
    <3>1. book \in Seq(DealType)
      BY LenProperties, ElementOfSeq, IsASeq DEF Resting
    <3>2. QED
      BY <2>2, <3>1, OwnedSums
  <2>3. deal \in ToSet(activeBuys) \cup ToSet(activeSells)
    <3>1. PICK buys, sells : buys = Owned(activeBuys, uid) /\ sells = Owned(activeSells, uid)
      OBVIOUS
    <3>2. /\ buys \in Seq(DealType) /\ sells \in Seq(DealType)
          /\ \A j \in DOMAIN buys : buys[j] \in ToSet(activeBuys)
          /\ \A j \in DOMAIN sells : sells[j] \in ToSet(activeSells)
      BY <2>1, <2>2, <3>1
    <3>3. /\ Len(buys) \in Nat /\ DOMAIN buys = 1 .. Len(buys)
          /\ Len(sells) \in Nat /\ DOMAIN sells = 1 .. Len(sells)
          /\ DOMAIN (buys \o sells) = 1 .. Len(buys) + Len(sells)
          /\ \A j \in 1 .. Len(buys) + Len(sells) : (buys \o sells)[j] =
               IF j <= Len(buys) THEN buys[j] ELSE sells[j - Len(buys)]
      BY <3>2, LenProperties, ConcatProperties
    <3>4. i \in 1 .. Len(buys) + Len(sells) /\ deal = (buys \o sells)[i]
      BY <3>1, <3>3 DEF GetUserActiveDeals
    <3>5. deal = IF i <= Len(buys) THEN buys[i] ELSE sells[i - Len(buys)]
      BY <3>3, <3>4
    <3>6. i <= Len(buys) => i \in DOMAIN buys
      BY <3>3, <3>4
    <3>7. ~(i <= Len(buys)) => i - Len(buys) \in DOMAIN sells
      BY <3>3, <3>4
    <3>8. QED
      BY <3>2, <3>5, <3>6, <3>7
  <2>4. ASSUME NEW side, NEW book \in Seq(Resting(side)), Sorted(book), deal \in ToSet(book)
        PROVE  /\ book # <<>> /\ deal.type = side
               /\ IF side = "buy" THEN deal.price <= Head(book).price
                                  ELSE deal.price >= Head(book).price
    <3>1. PICK j \in DOMAIN book : deal = book[j]
      BY <2>4 DEF ToSet
    <3>2. /\ DOMAIN book = 1 .. Len(book) /\ Len(book) \in Nat
          /\ \A k \in 1 .. Len(book) : book[k] \in Resting(side)
      BY LenProperties, ElementOfSeq
    <3>3. 1 \in DOMAIN book /\ Head(book) = book[1] /\ book # <<>>
      BY <3>1, <3>2
    <3>4. /\ book[1].type = side /\ book[1].price \in Int /\ book[1] \in DealType
          /\ deal.type = side /\ deal.price \in Int
      BY <3>1, <3>2, <3>3 DEF Resting, DealType
    <3>5. j = 1 \/ ~Less(deal, book[1])
      BY <2>4, <3>1, <3>2, <3>3 DEF Sorted
    <3>6. QED
      BY <3>1, <3>3, <3>4, <3>5 DEF Less
  <2>5. CASE deal \in ToSet(activeBuys)
    BY <2>1, <2>4, <2>5 DEF GetBestPrices
  <2>6. CASE deal \in ToSet(activeSells)
    BY <2>1, <2>4, <2>6 DEF GetBestPrices
  <2>7. QED
    BY <2>3, <2>5, <2>6
<1>2. QED
  BY <1>1, InitIInv, NextIInv, InitFollowed, NextFollowed, PTL DEF Spec

-----------------------------------------------------------------------------
(* Turnover *)

\* The orders of a side, and those of one owner.
OnSide(side) == {i \in DOMAIN orders : orders[i].type = side}
OnSideOf(side, uid) == {i \in OnSide(side) : orders[i].uid = uid}

\* What amounts of the orders are worth at the orders' limits.
AtLimit(done) == [i \in DOMAIN orders |-> done[i] * orders[i].price]

\* "done" says of each order how much of it may have been filled: at most what is
\* not open any more.  An order that an early return takes off the book counts
\* as filled as far as it would have been.
MayBeDone(done) ==
    /\ done \in [DOMAIN orders -> Nat]
    /\ \A i \in DOMAIN orders : done[i] <= orders[i].volume
    /\ \A order \in OpenOrders :
          order.volume \in Nat /\ done[order.id] + order.volume <= orders[order.id].volume

CoveredFor(uid, done) ==
    /\ Balances[uid].usd <= SumFunctionOnSet(done, OnSideOf("buy", uid))
    /\ Balances[uid].usd >= -SumFunctionOnSet(done, OnSideOf("sell", uid))
    /\ Balances[uid].rub >= -SumFunctionOnSet(AtLimit(done), OnSideOf("buy", uid))
    /\ Balances[uid].rub <= SumFunctionOnSet(AtLimit(done), OnSide("buy"))

\* The balances are covered by what may have been filled.
Covered ==
    /\ \A i \in DOMAIN orders : orders[i].volume \in Nat /\ orders[i].price \in Nat
    /\ \E done : MayBeDone(done) /\ \A uid \in DOMAIN Balances : CoveredFor(uid, done)

\* What a trade of two orders does to one balance.  An early return does the half
\* that concerns the taker, or nothing.
Moved(uid, buy, sell, volume, worth) ==
    \E bought, sold \in BOOLEAN :
        /\ bought => uid = buy.uid
        /\ sold => uid = sell.uid
        /\ Balances'[uid].usd = Balances[uid].usd + (IF bought THEN volume ELSE 0)
                                                  - (IF sold THEN volume ELSE 0)
        /\ Balances'[uid].rub = Balances[uid].rub - (IF bought THEN worth ELSE 0)
                                                  + (IF sold THEN worth ELSE 0)

\* One turn of a loop, whether it ends the loop or not: money moves for two open
\* orders that agree, which get smaller by the volume or are gone.
Turns(buy, sell, price) ==
    LET volume == getDealVolume(buy, sell)
    IN  /\ buy \in OpenOrders /\ sell \in OpenOrders
        /\ buy.type = "buy" /\ sell.type = "sell"
        /\ sell.price <= price /\ price <= buy.price
        /\ UNCHANGED orders /\ DOMAIN Balances' = DOMAIN Balances
        /\ \A uid \in DOMAIN Balances : Moved(uid, buy, sell, volume, price * volume)
        /\ \A order \in OpenOrders' :
              \/ order \in OpenOrders \ {buy, sell}
              \/ \E old \in {buy, sell} :
                    order.id = old.id /\ order.volume = old.volume - volume

\* The finite sets and numbers of the sums.
LEMMA CoverTypes ==
    ASSUME IInv, NEW done \in [DOMAIN orders -> Nat],
           \A i \in DOMAIN orders : orders[i].price \in Nat,
           NEW S \in SUBSET DOMAIN orders
    PROVE  /\ IsFiniteSet(S)
           /\ \A i \in S : done[i] \in Nat /\ AtLimit(done)[i] \in Nat
           /\ SumFunctionOnSet(done, S) \in Nat /\ SumFunctionOnSet(AtLimit(done), S) \in Nat
<1>1. IsFiniteSet(S)
  <2>1. DOMAIN orders = 1 .. Len(orders) /\ Len(orders) \in Nat
    BY LenProperties DEF IInv, TypeOK
  <2>2. IsFiniteSet(DOMAIN orders)
    BY <2>1, FS_Interval
  <2>3. QED
    BY <2>2, FS_Subset
<1>2. ASSUME NEW i \in S PROVE done[i] \in Nat /\ AtLimit(done)[i] \in Nat
  <2>1. \A m, n \in Nat : m * n \in Nat
    OBVIOUS
  <2>2. QED
    BY <2>1 DEF AtLimit
<1>3. ASSUME NEW f, \A i \in S : f[i] \in Nat PROVE SumFunctionOnSet(f, S) \in Nat
  <2>1. PICK zero : zero = [i \in S |-> 0]
    OBVIOUS
  <2>2. SumFunctionOnSet(zero, S) = 0
    BY <1>1, <2>1, SumZero
  <2>3. /\ \A i \in S : zero[i] \in Int /\ f[i] \in Int
        /\ \A i \in S : zero[i] <= f[i]
    BY <1>3, <2>1
  <2>4. SumFunctionOnSet(zero, S) <= SumFunctionOnSet(f, S) /\ SumFunctionOnSet(f, S) \in Int
    BY <1>1, <2>3, SumAtMost, SumType
  <2>5. QED
    BY <2>2, <2>4
<1>4. QED
  BY <1>1, <1>2, <1>3

\* The arithmetic of a turn.
LEMMA WorthAtLimit ==
    ASSUME NEW price \in Nat, NEW limit \in Nat, NEW volume \in Nat, price <= limit
    PROVE  /\ price * volume \in Nat /\ limit * volume \in Nat
           /\ price * volume <= limit * volume
<1>1. limit - price \in Nat /\ limit * volume = (limit - price) * volume + price * volume
  OBVIOUS
<1>2. \A m, n \in Nat : m * n \in Nat
  OBVIOUS
<1>3. PICK a, b, c : a = price * volume /\ b = limit * volume /\ c = (limit - price) * volume
  OBVIOUS
<1>4. a \in Nat /\ b \in Nat /\ c \in Nat /\ b = c + a
  BY <1>1, <1>2, <1>3
<1>5. a <= b
  BY <1>4
<1>6. QED
  BY <1>3, <1>4, <1>5

\* A sum over orders follows the one order that a turn fills on its side.
LEMMA SumFilled ==
    ASSUME NEW f, NEW g, NEW S, IsFiniteSet(S), NEW a, NEW d \in Nat,
           \A i \in S : f[i] \in Nat, \A i \in S : i # a => g[i] = f[i],
           a \in S => g[a] = f[a] + d, SumFunctionOnSet(f, S) \in Nat
    PROVE  /\ a \in S => SumFunctionOnSet(g, S) = SumFunctionOnSet(f, S) + d
           /\ SumFunctionOnSet(g, S) \in Nat
           /\ SumFunctionOnSet(g, S) >= SumFunctionOnSet(f, S)
<1>1. \A i \in S : f[i] \in Int
  OBVIOUS
<1>2. CASE a \in S
  <2>1. \A i \in S \ {a} : g[i] = f[i]
    OBVIOUS
  <2>2. SumFunctionOnSet(g, S) = SumFunctionOnSet(f, S) + d
    BY <1>1, <1>2, <2>1, SumChanged
  <2>3. QED
    BY <1>2, <2>2
<1>3. CASE a \notin S
  <2>1. \A i \in S : f[i] = g[i]
    BY <1>3
  <2>2. SumFunctionOnSet(f, S) = SumFunctionOnSet(g, S)
    BY <2>1, SumSame
  <2>3. QED
    BY <1>3, <2>2
<1>4. QED
  BY <1>2, <1>3

LEMMA TurnCovers ==
    ASSUME IInv, OrdersFollowed, Covered, NEW buy, NEW sell, NEW price, Turns(buy, sell, price),
           price \in {buy.price, sell.price}
    PROVE  Covered'
<1>1. PICK done : MayBeDone(done) /\ \A uid \in DOMAIN Balances : CoveredFor(uid, done)
  BY DEF Covered
<1>2. PICK a, b, volume : a = buy.id /\ b = sell.id /\ volume = getDealVolume(buy, sell)
  OBVIOUS
<1>3. /\ buy \in OpenOrders /\ sell \in OpenOrders /\ sell.price <= price /\ price <= buy.price
      /\ UNCHANGED orders /\ DOMAIN Balances' = DOMAIN Balances
      /\ \A uid \in DOMAIN Balances : Moved(uid, buy, sell, volume, price * volume)
      /\ \A order \in OpenOrders' :
            \/ order \in OpenOrders \ {buy, sell}
            \/ \E old \in {buy, sell} :
                  order.id = old.id /\ order.volume = old.volume - volume
  BY <1>2 DEF Turns
<1>4. /\ a \in DOMAIN orders /\ b \in DOMAIN orders /\ a # b
      /\ orders[a].type = "buy" /\ orders[a].uid = buy.uid /\ orders[a].price = buy.price
      /\ orders[b].type = "sell" /\ orders[b].uid = sell.uid /\ orders[b].price = sell.price
  BY <1>2, OpenAreFollowed DEF Turns
<1>5. /\ buy.price \in Nat /\ sell.price \in Nat /\ price \in Nat
      /\ \A i \in DOMAIN orders : orders[i].volume \in Nat /\ orders[i].price \in Nat
  BY <1>4 DEF Covered
<1>6. /\ done \in [DOMAIN orders -> Nat]
      /\ buy.volume \in Nat /\ done[a] + buy.volume <= orders[a].volume
      /\ sell.volume \in Nat /\ done[b] + sell.volume <= orders[b].volume
  BY <1>1, <1>2, <1>3 DEF MayBeDone
<1>7. volume \in Nat /\ volume <= buy.volume /\ volume <= sell.volume
  BY <1>2, <1>6 DEF getDealVolume
<1>8. PICK new : new = [done EXCEPT ![a] = done[a] + volume, ![b] = done[b] + volume]
  OBVIOUS
<1>9. /\ new \in [DOMAIN orders -> Nat]
      /\ new[a] = done[a] + volume /\ new[b] = done[b] + volume
      /\ \A i \in DOMAIN orders : i # a /\ i # b => new[i] = done[i]
  BY <1>4, <1>6, <1>7, <1>8
<1>10. MayBeDone(new)'
  <2>1. ASSUME NEW i \in DOMAIN orders PROVE new[i] <= orders[i].volume
    <3>1. done[i] <= orders[i].volume /\ done[i] \in Nat /\ orders[i].volume \in Nat
      BY <1>1, <1>5, <1>6 DEF MayBeDone
    <3>2. CASE i # a /\ i # b
      BY <1>9, <3>1, <3>2
    <3>3. CASE i = a
      BY <1>6, <1>7, <1>9, <3>1, <3>3
    <3>4. CASE i = b
      BY <1>6, <1>7, <1>9, <3>1, <3>4
    <3>5. QED
      BY <3>2, <3>3, <3>4
  <2>2. ASSUME NEW order \in OpenOrders'
        PROVE  order.volume \in Nat /\ new[order.id] + order.volume <= orders[order.id].volume
    <3>1. CASE order \in OpenOrders \ {buy, sell}
      <4>1. order.id # a /\ order.id # b /\ order.id \in DOMAIN orders
        BY <1>2, <1>3, <3>1, OpenAreFollowed
      <4>2. order.volume \in Nat /\ done[order.id] + order.volume <= orders[order.id].volume
        BY <1>1, <3>1 DEF MayBeDone
      <4>3. QED
        BY <1>9, <4>1, <4>2
    <3>2. CASE order.id = a /\ order.volume = buy.volume - volume
      BY <1>4, <1>5, <1>6, <1>7, <1>9, <3>2
    <3>3. CASE order.id = b /\ order.volume = sell.volume - volume
      BY <1>4, <1>5, <1>6, <1>7, <1>9, <3>3
    <3>4. QED
      BY <1>2, <1>3, <3>1, <3>2, <3>3
  <2>3. QED
    BY <1>3, <1>9, <2>1, <2>2 DEF MayBeDone
<1>11. PICK worth, most : worth = price * volume /\ most = buy.price * volume
  OBVIOUS
<1>12. worth \in Nat /\ most \in Nat /\ worth <= most
  BY <1>3, <1>5, <1>7, <1>11, WorthAtLimit
<1>13. PICK f, g : f = AtLimit(done) /\ g = AtLimit(new)
  OBVIOUS
<1>14. /\ g[a] = f[a] + most
       /\ \A i \in DOMAIN orders : i # a /\ i # b => g[i] = f[i]
  <2>1. g[a] = (done[a] + volume) * buy.price /\ f[a] = done[a] * buy.price
    BY <1>4, <1>9, <1>13 DEF AtLimit
  <2>2. \A x, y, z \in Nat : (x + y) * z = x * z + z * y
    OBVIOUS
  <2>3. done[a] \in Nat /\ volume \in Nat /\ buy.price \in Nat
    BY <1>4, <1>5, <1>6, <1>7
  <2>4. (done[a] + volume) * buy.price = done[a] * buy.price + buy.price * volume
    BY <2>2, <2>3
  <2>5. g[a] = f[a] + most
    BY <1>11, <2>1, <2>4
  <2>6. QED
    BY <1>9, <1>13, <2>5 DEF AtLimit
<1>15. ASSUME NEW uid \in DOMAIN Balances PROVE CoveredFor(uid, new)'
  <2>1. PICK B, S, A : B = OnSideOf("buy", uid) /\ S = OnSideOf("sell", uid) /\ A = OnSide("buy")
    OBVIOUS
  <2>2. /\ B \in SUBSET DOMAIN orders /\ S \in SUBSET DOMAIN orders /\ A \in SUBSET DOMAIN orders
        /\ B = OnSideOf("buy", uid)' /\ S = OnSideOf("sell", uid)' /\ A = OnSide("buy")'
        /\ a \in A /\ b \notin A /\ b \notin B /\ a \notin S
        /\ (uid = buy.uid => a \in B) /\ (uid = sell.uid => b \in S)
    BY <1>3, <1>4, <2>1 DEF OnSideOf, OnSide
  <2>3. AtLimit(new)' = g
    BY <1>3, <1>13 DEF AtLimit
  <2>4. /\ IsFiniteSet(B) /\ IsFiniteSet(S) /\ IsFiniteSet(A)
        /\ \A i \in DOMAIN orders : done[i] \in Nat /\ f[i] \in Nat
        /\ SumFunctionOnSet(done, B) \in Nat /\ SumFunctionOnSet(done, S) \in Nat
        /\ SumFunctionOnSet(f, B) \in Nat /\ SumFunctionOnSet(f, A) \in Nat
    BY <1>5, <1>6, <1>13, <2>2, CoverTypes
  <2>5. /\ a \in B => SumFunctionOnSet(new, B) = SumFunctionOnSet(done, B) + volume
        /\ SumFunctionOnSet(new, B) \in Nat
        /\ SumFunctionOnSet(new, B) >= SumFunctionOnSet(done, B)
    <3>1. /\ \A i \in B : done[i] \in Nat
          /\ \A i \in B : i # a => new[i] = done[i]
          /\ a \in B => new[a] = done[a] + volume
      BY <1>9, <2>2, <2>4
    <3>2. IsFiniteSet(B) /\ volume \in Nat /\ SumFunctionOnSet(done, B) \in Nat
      BY <1>7, <2>4
    <3>3. QED
      BY <3>1, <3>2, SumFilled
  <2>6. /\ b \in S => SumFunctionOnSet(new, S) = SumFunctionOnSet(done, S) + volume
        /\ SumFunctionOnSet(new, S) \in Nat
        /\ SumFunctionOnSet(new, S) >= SumFunctionOnSet(done, S)
    <3>1. /\ \A i \in S : done[i] \in Nat
          /\ \A i \in S : i # b => new[i] = done[i]
          /\ b \in S => new[b] = done[b] + volume
      BY <1>9, <2>2, <2>4
    <3>2. QED
      BY <1>7, <2>4, <3>1, SumFilled
  <2>7. /\ a \in B => SumFunctionOnSet(g, B) = SumFunctionOnSet(f, B) + most
        /\ SumFunctionOnSet(g, B) \in Nat
        /\ SumFunctionOnSet(g, B) >= SumFunctionOnSet(f, B)
    <3>1. /\ \A i \in B : f[i] \in Nat
          /\ \A i \in B : i # a => g[i] = f[i]
          /\ a \in B => g[a] = f[a] + most
      BY <1>14, <2>2, <2>4
    <3>2. QED
      BY <1>12, <2>4, <3>1, SumFilled
  <2>8. /\ SumFunctionOnSet(g, A) = SumFunctionOnSet(f, A) + most
        /\ SumFunctionOnSet(g, A) \in Nat
    <3>1. /\ \A i \in A : f[i] \in Nat
          /\ \A i \in A : i # a => g[i] = f[i]
          /\ a \in A => g[a] = f[a] + most
      BY <1>14, <2>2, <2>4
    <3>2. QED
      BY <1>12, <2>2, <2>4, <3>1, SumFilled
  <2>9. /\ Balances[uid].usd <= SumFunctionOnSet(done, B)
        /\ Balances[uid].usd >= -SumFunctionOnSet(done, S)
        /\ Balances[uid].rub >= -SumFunctionOnSet(f, B)
        /\ Balances[uid].rub <= SumFunctionOnSet(f, A)
    BY <1>1, <1>13, <2>1 DEF CoveredFor
  <2>10. PICK bought \in BOOLEAN, sold \in BOOLEAN :
            /\ bought => uid = buy.uid
            /\ sold => uid = sell.uid
            /\ Balances'[uid].usd = Balances[uid].usd + (IF bought THEN volume ELSE 0)
                                                      - (IF sold THEN volume ELSE 0)
            /\ Balances'[uid].rub = Balances[uid].rub - (IF bought THEN worth ELSE 0)
                                                      + (IF sold THEN worth ELSE 0)
    BY <1>3, <1>11 DEF Moved
  <2>11. Balances[uid].usd \in Int /\ Balances[uid].rub \in Int
    BY BalancesType DEF Balance, Balances
  <2>12. PICK usd, rub, usd2, rub2 : /\ usd = Balances[uid].usd /\ rub = Balances[uid].rub
                                     /\ usd2 = Balances'[uid].usd /\ rub2 = Balances'[uid].rub
    OBVIOUS
  <2>13. PICK x1, x2, y1, y2, z1, z2, w1, w2 :
            /\ x1 = SumFunctionOnSet(done, B) /\ x2 = SumFunctionOnSet(new, B)
            /\ y1 = SumFunctionOnSet(done, S) /\ y2 = SumFunctionOnSet(new, S)
            /\ z1 = SumFunctionOnSet(f, B) /\ z2 = SumFunctionOnSet(g, B)
            /\ w1 = SumFunctionOnSet(f, A) /\ w2 = SumFunctionOnSet(g, A)
    OBVIOUS
  <2>14. /\ x1 \in Nat /\ x2 \in Nat /\ x2 >= x1 /\ (bought => x2 = x1 + volume)
         /\ y1 \in Nat /\ y2 \in Nat /\ y2 >= y1 /\ (sold => y2 = y1 + volume)
         /\ z1 \in Nat /\ z2 \in Nat /\ z2 >= z1 /\ (bought => z2 = z1 + most)
         /\ w1 \in Nat /\ w2 \in Nat /\ w2 = w1 + most
    BY <2>2, <2>4, <2>5, <2>6, <2>7, <2>8, <2>10, <2>13
  <2>15. /\ usd \in Int /\ rub \in Int
         /\ usd <= x1 /\ usd >= -y1 /\ rub >= -z1 /\ rub <= w1
         /\ usd2 = usd + (IF bought THEN volume ELSE 0) - (IF sold THEN volume ELSE 0)
         /\ rub2 = rub - (IF bought THEN worth ELSE 0) + (IF sold THEN worth ELSE 0)
    BY <2>9, <2>10, <2>11, <2>12, <2>13
  <2>16. usd2 <= x2 /\ usd2 >= -y2 /\ rub2 >= -z2 /\ rub2 <= w2
    BY <1>7, <1>12, <2>14, <2>15
  <2>17. QED
    BY <2>1, <2>2, <2>3, <2>12, <2>13, <2>16 DEF CoveredFor
<1>16. QED
  BY <1>3, <1>5, <1>10, <1>15 DEF Covered

LEMMA SettlesTurns ==
    ASSUME IInv, OrdersFollowed, NEW buy, NEW sell, NEW price, Settles(buy, sell, price)
    PROVE  Turns(buy, sell, price)
<1>1. PICK volume : volume = getDealVolume(buy, sell)
  OBVIOUS
<1>2. /\ buy \in OpenOrders /\ sell \in OpenOrders /\ price \in {buy.price, sell.price}
      /\ Abstract!TradeBetween(buy, sell, price)
  BY DEF Settles
<1>3. DOMAIN Balances = DOMAIN users /\ DOMAIN Balances' = DOMAIN users' /\ UNCHANGED orders
      /\ DOMAIN users' = DOMAIN users
  BY <1>1, TradeParties DEF Balances
<1>4. ASSUME NEW uid \in DOMAIN Balances
      PROVE  Moved(uid, buy, sell, volume, price * volume)
  <2>1. PICK bought \in BOOLEAN, sold \in BOOLEAN :
            (bought <=> uid = buy.uid) /\ (sold <=> uid = sell.uid)
    OBVIOUS
  <2>2. PICK worth : worth = price * volume
    OBVIOUS
  <2>3. /\ Balances'[uid].usd = Balances[uid].usd + (IF uid = buy.uid THEN volume ELSE 0)
                                                  - (IF uid = sell.uid THEN volume ELSE 0)
        /\ Balances'[uid].rub = Balances[uid].rub - (IF uid = buy.uid THEN worth ELSE 0)
                                                  + (IF uid = sell.uid THEN worth ELSE 0)
    BY <1>1, <1>3, <2>2, TradeBalances
  <2>4. Moved(uid, buy, sell, volume, worth)
    BY <2>1, <2>3 DEF Moved
  <2>5. QED
    BY <2>2, <2>4
<1>5. OpenOrders' = (OpenOrders \ {buy, sell}) \cup Abstract!Rest(buy, volume)
                       \cup Abstract!Rest(sell, volume)
  BY <1>1, <1>2 DEF Abstract!TradeBetween, getDealVolume
<1>6. ASSUME NEW old \in {buy, sell}, NEW order \in Abstract!Rest(old, volume)
      PROVE  order.id = old.id /\ order.volume = old.volume - volume
  BY <1>2, <1>6, RestLeft
<1>7. \A order \in OpenOrders' :
            \/ order \in OpenOrders \ {buy, sell}
            \/ \E old \in {buy, sell} :
                  order.id = old.id /\ order.volume = old.volume - volume
  BY <1>5, <1>6
<1>8. /\ buy.type = "buy" /\ sell.type = "sell" /\ sell.price <= price /\ price <= buy.price
  BY <1>2 DEF Abstract!TradeBetween
<1>9. QED
  BY <1>1, <1>2, <1>3, <1>4, <1>7, <1>8 DEF Turns

\* What AddUsdToUser and AddRubToUser do to the accounts, the owner's and others.
LEMMA CreditEffect ==
    ASSUME NEW U, NEW table \in [U -> UserType], NEW owner, NEW x \in Int, NEW y \in Int,
           NEW uid \in U, NEW new, new = Credit(table, owner, x, y)
    PROVE  /\ new \in [U -> UserType]
           /\ uid = owner => /\ new[uid].usd = table[uid].usd + x
                             /\ new[uid].rub = table[uid].rub + y
           /\ uid # owner => new[uid] = table[uid]
<1>1. new \in [U -> UserType]
  BY CreditType
<1>2. ASSUME uid = owner
      PROVE  new[uid].usd = table[uid].usd + x /\ new[uid].rub = table[uid].rub + y
  <2>1. new[uid] = AddRub(AddUsd(table[uid], x), y) /\ table[uid] \in UserType
    BY <1>2 DEF Credit
  <2>2. QED
    BY <2>1 DEF AddRub, AddUsd, UserType
<1>3. ASSUME uid # owner PROVE new[uid] = table[uid]
  BY <1>3 DEF Credit
<1>4. QED
  BY <1>1, <1>2, <1>3

\* The taker's half and the maker's half of a trade, each done or not, on the account
\* of uid: x dollars and -y roubles to the taker.
Halves(old, new, uid, taker, maker, x, y) ==
    \E took, made \in BOOLEAN :
        /\ took => uid = taker
        /\ made => uid = maker
        /\ new.usd = old.usd + (IF took THEN x ELSE 0) - (IF made THEN x ELSE 0)
        /\ new.rub = old.rub - (IF took THEN y ELSE 0) + (IF made THEN y ELSE 0)

\* What the four calls of an iteration do to an account, whoever is known.
LEMMA SettledEffect ==
    ASSUME NEW U, users \in [U -> UserType], NEW taker, NEW maker, NEW x \in Int, NEW y \in Int,
           NEW uid \in U, NEW new, new = Settled(taker, maker, x, y)
    PROVE  Halves(users[uid], new[uid], uid, taker, maker, x, y)
<1>1. users[uid].usd \in Int /\ users[uid].rub \in Int
  BY DEF UserType
<1>2. PICK no : no \in BOOLEAN /\ ~no
  OBVIOUS
<1>3. ASSUME taker \notin DOMAIN users PROVE new = users
  BY <1>3 DEF Settled
<1>4. ASSUME taker \in DOMAIN users
      PROVE  Halves(users[uid], new[uid], uid, taker, maker, x, y)
  <2>1. PICK minusX, minusY : minusX = -x /\ minusY = -y /\ minusX \in Int /\ minusY \in Int
    OBVIOUS
  <2>2. PICK middle : middle = Credit(users, taker, x, minusY)
    OBVIOUS
  <2>3. new = Credit(middle, maker, minusX, y)
    BY <1>4, <2>1, <2>2 DEF Settled
  <2>4. /\ middle \in [U -> UserType]
        /\ uid = taker => /\ middle[uid].usd = users[uid].usd + x
                          /\ middle[uid].rub = users[uid].rub + minusY
        /\ uid # taker => middle[uid] = users[uid]
    BY <2>1, <2>2, CreditEffect
  <2>5. /\ uid = maker => /\ new[uid].usd = middle[uid].usd + minusX
                          /\ new[uid].rub = middle[uid].rub + y
        /\ uid # maker => new[uid] = middle[uid]
    <3>1. middle \in [U -> UserType] /\ minusX \in Int
      BY <2>1, <2>4
    <3>2. PICK last : last = Credit(middle, maker, minusX, y)
      OBVIOUS
    <3>3. /\ uid = maker => /\ last[uid].usd = middle[uid].usd + minusX
                            /\ last[uid].rub = middle[uid].rub + y
          /\ uid # maker => last[uid] = middle[uid]
      BY <3>1, <3>2, CreditEffect
    <3>4. QED
      BY <2>3, <3>2, <3>3
  <2>6. PICK took \in BOOLEAN, made \in BOOLEAN :
            (took <=> uid = taker) /\ (made <=> uid = maker)
    OBVIOUS
  <2>7. /\ middle[uid].usd = users[uid].usd + (IF took THEN x ELSE 0)
        /\ middle[uid].rub = users[uid].rub - (IF took THEN y ELSE 0)
    BY <1>1, <2>1, <2>4, <2>6
  <2>8. /\ new[uid].usd = middle[uid].usd - (IF made THEN x ELSE 0)
        /\ new[uid].rub = middle[uid].rub + (IF made THEN y ELSE 0)
    <3>1. middle[uid].usd \in Int /\ middle[uid].rub \in Int
      BY <2>4 DEF UserType
    <3>2. QED
      BY <2>1, <2>5, <2>6, <3>1
  <2>9. /\ new[uid].usd = users[uid].usd + (IF took THEN x ELSE 0) - (IF made THEN x ELSE 0)
        /\ new[uid].rub = users[uid].rub - (IF took THEN y ELSE 0) + (IF made THEN y ELSE 0)
    <3>1. PICK usd, rub, usd1, rub1 : /\ usd = users[uid].usd /\ usd1 = middle[uid].usd
                                      /\ rub = users[uid].rub /\ rub1 = middle[uid].rub
      OBVIOUS
    <3>2. /\ new[uid].usd = usd1 - (IF made THEN x ELSE 0)
          /\ new[uid].rub = rub1 + (IF made THEN y ELSE 0)
          /\ usd1 = usd + (IF took THEN x ELSE 0)
          /\ rub1 = rub - (IF took THEN y ELSE 0)
      BY <2>7, <2>8, <3>1
    <3>3. usd \in Int /\ rub \in Int
      BY <1>1, <3>1
    <3>4. QED
      BY <2>6, <3>1, <3>2, <3>3
  <2>10. QED
    BY <2>6, <2>9 DEF Halves
<1>5. CASE taker \notin DOMAIN users
  <2>1. /\ new[uid].usd = users[uid].usd + (IF no THEN x ELSE 0) - (IF no THEN x ELSE 0)
        /\ new[uid].rub = users[uid].rub - (IF no THEN y ELSE 0) + (IF no THEN y ELSE 0)
    BY <1>1, <1>2, <1>3, <1>5
  <2>2. QED
    BY <1>2, <2>1 DEF Halves
<1>6. QED
  BY <1>4, <1>5

\* A loop left early: the resting order is gone and so is the call, and the
\* taker's half of the trade may be done.
LEMMA LeftTurns ==
    ASSUME IInv, IInv', OrdersFollowed, NEW side \in Sides, NEW book \in Seq(Resting(side)),
           NEW others, NEW maker, maker = Head(book), Sorted(book), book # <<>>, Distinct(book),
           ToSet(activeBuys) \cup ToSet(activeSells) = ToSet(book) \cup others,
           \A d \in others : d.type # side,
           ToSet(activeBuys') \cup ToSet(activeSells') = ToSet(Tail(book)) \cup others,
           incoming # NoOrder, ~incoming.isClosed, incoming' = NoOrder
    PROVE  /\ View(maker) \in OpenOrders /\ View(incoming) \in OpenOrders
           /\ \A order \in OpenOrders' : order \in OpenOrders \ {View(maker), View(incoming)}
<1>1. /\ maker \in ToSet(book) /\ ToSet(Tail(book)) = ToSet(book) \ {maker}
      /\ \A d \in ToSet(Tail(book)) : d.id # maker.id
  BY TailElements
<1>2. /\ OpenOrders = Views(ToSet(book) \cup others \cup InFlight)
      /\ OpenOrders' = Views(ToSet(Tail(book)) \cup others \cup InFlight')
  <2>1. \A A, B, C : Views(A) \cup Views(B) \cup Views(C) = Views(A \cup B \cup C)
    BY DEF Views
  <2>2. /\ OpenOrders = Views(ToSet(activeBuys) \cup ToSet(activeSells) \cup InFlight)
        /\ OpenOrders' = Views(ToSet(activeBuys') \cup ToSet(activeSells') \cup InFlight')
    <3>1. PICK A, B, C, D, E, F : /\ A = ToSet(activeBuys) /\ B = ToSet(activeSells)
                                  /\ C = InFlight /\ D = ToSet(activeBuys')
                                  /\ E = ToSet(activeSells') /\ F = InFlight'
      OBVIOUS
    <3>2. OpenOrders = Views(A) \cup Views(B) \cup Views(C)
      BY <3>1, OpenOrdersSplit
    <3>3. OpenOrders' = Views(D) \cup Views(E) \cup Views(F)
      BY <3>1, OpenOrdersSplitNext
    <3>4. OpenOrders = Views(A \cup B \cup C) /\ OpenOrders' = Views(D \cup E \cup F)
      BY <2>1, <3>2, <3>3
    <3>5. QED
      BY <3>1, <3>4
  <2>3. QED
    BY <2>2
<1>3. InFlight = {incoming} /\ InFlight' = {}
  BY DEF InFlight
<1>4. incoming.id = Len(orders) /\ \A d \in ToSet(book) \cup others : d.id # incoming.id /\ Follows(d)
  BY DEF OrdersFollowed
<1>5. maker.type = side
  BY <1>1, BookElements
<1>6. ASSUME NEW d \in ToSet(Tail(book)) \cup others
      PROVE  d.id # maker.id /\ d.id # incoming.id
  <2>1. d.id # incoming.id
    BY <1>1, <1>4
  <2>2. ASSUME d \in others PROVE d.id # maker.id
    BY <1>1, <1>4, <1>5, <2>2 DEF Follows
  <2>3. QED
    BY <1>1, <2>1, <2>2
<1>7. ASSUME NEW order \in OpenOrders'
      PROVE  order \in OpenOrders \ {View(maker), View(incoming)}
  <2>1. PICK d \in ToSet(Tail(book)) \cup others : order = View(d)
    BY <1>2, <1>3 DEF Views
  <2>2. order \in OpenOrders
    BY <1>1, <1>2, <2>1 DEF Views
  <2>3. order.id # View(maker).id /\ order.id # View(incoming).id
    BY <1>6, <2>1 DEF View
  <2>4. QED
    BY <2>2, <2>3
<1>8. View(maker) \in OpenOrders /\ View(incoming) \in OpenOrders
  BY <1>1, <1>2, <1>3 DEF Views
<1>9. QED
  BY <1>7, <1>8

LEMMA RejectBuyTurns ==
    ASSUME IInv, OrdersFollowed, RejectBuy
    PROVE  \E buy, sell, price : price \in {buy.price, sell.price} /\ Turns(buy, sell, price)
<1>1. PICK maker, volume, price : /\ maker = Head(activeSells)
                                  /\ volume = getDealVolume(incoming, maker)
                                  /\ price = getDealPrice(incoming, maker)
  OBVIOUS
<1>2. PICK worth : worth = price * volume
  OBVIOUS
<1>3. /\ activeSells \in Seq(Resting("sell")) /\ Sorted(activeSells) /\ activeSells # <<>>
      /\ Distinct(activeSells) /\ "sell" \in Sides /\ activeBuys \in Seq(Resting("buy"))
      /\ incoming \in DealType /\ incoming.type = "buy" /\ ~incoming.isClosed
      /\ incoming # NoOrder /\ incoming' = NoOrder
      /\ maker.price <= incoming.price
      /\ activeSells' = Tail(activeSells) /\ UNCHANGED <<activeBuys, orders>>
      /\ users' = Settled(incoming.uid, maker.uid, volume, worth)
  BY <1>1, <1>2 DEF IInv, TypeOK, BooksSorted, OrdersFollowed, RejectBuy, BuyMatches, NoOrder,
     Sides, IsCompatible
<1>4. IInv'
  BY RejectBuyIInv
<1>5. maker \in DealType /\ maker.type = "sell"
  <2>1. maker \in ToSet(activeSells)
    BY <1>1, <1>3, TailElements
  <2>2. QED
    BY <1>3, <2>1, BookElements
<1>6. PICK buy, sell : buy = View(incoming) /\ sell = View(maker)
  OBVIOUS
<1>7. /\ buy \in OpenOrders /\ sell \in OpenOrders
      /\ \A order \in OpenOrders' : order \in OpenOrders \ {buy, sell}
  <2>1. /\ \A d \in ToSet(activeBuys) : d.type # "sell"
        /\ ToSet(activeBuys) \cup ToSet(activeSells) = ToSet(activeSells) \cup ToSet(activeBuys)
        /\ ToSet(activeBuys') \cup ToSet(activeSells')
             = ToSet(Tail(activeSells)) \cup ToSet(activeBuys)
    BY <1>3, BookElements
  <2>2. QED
    BY <1>1, <1>3, <1>4, <1>6, <2>1, LeftTurns
<1>8. /\ buy.type = "buy" /\ buy.uid = incoming.uid /\ buy.price = incoming.price
      /\ sell.type = "sell" /\ sell.uid = maker.uid /\ sell.price = maker.price
      /\ volume = getDealVolume(buy, sell)
  BY <1>1, <1>3, <1>5, <1>6 DEF View, getDealVolume
<1>9. /\ price \in {buy.price, sell.price} /\ sell.price <= price /\ price <= buy.price
      /\ price \in Int /\ volume \in Int /\ worth \in Int
  <2>1. /\ incoming.price \in Int /\ maker.price \in Int
        /\ incoming.volume \in Int /\ maker.volume \in Int
    BY <1>3, <1>5 DEF DealType
  <2>2. price \in {buy.price, sell.price} /\ sell.price <= price /\ price <= buy.price
    BY <1>1, <1>3, <1>8, <2>1 DEF getDealPrice
  <2>3. price \in Int /\ volume \in Int
    BY <1>1, <1>8, <2>1, <2>2 DEF getDealVolume
  <2>4. QED
    BY <1>2, <2>2, <2>3
<1>10. /\ users \in [DOMAIN users -> UserType] /\ users' \in [DOMAIN users -> UserType]
  BY <1>3, <1>9, SettledType DEF IInv, TypeOK
<1>11. DOMAIN Balances = DOMAIN users /\ DOMAIN Balances' = DOMAIN Balances
  BY <1>10 DEF Balances
<1>12. ASSUME NEW uid \in DOMAIN Balances PROVE Moved(uid, buy, sell, volume, worth)
  <2>1. Halves(users[uid], users'[uid], uid, incoming.uid, maker.uid, volume, worth)
    <3>1. PICK U, new : U = DOMAIN users /\ new = Settled(incoming.uid, maker.uid, volume, worth)
      OBVIOUS
    <3>2. users \in [U -> UserType] /\ uid \in U /\ volume \in Int /\ worth \in Int
      BY <1>9, <1>10, <1>11, <3>1
    <3>3. Halves(users[uid], new[uid], uid, incoming.uid, maker.uid, volume, worth)
      BY <3>1, <3>2, SettledEffect
    <3>4. QED
      BY <1>3, <3>1, <3>3
  <2>2. /\ Balances[uid].usd = users[uid].usd /\ Balances[uid].rub = users[uid].rub
        /\ Balances'[uid].usd = users'[uid].usd /\ Balances'[uid].rub = users'[uid].rub
    BY <1>10, <1>11 DEF Balances, GetUserBalance
  <2>3. QED
    BY <1>8, <2>1, <2>2 DEF Moved, Halves
<1>13. Turns(buy, sell, price)
  BY <1>2, <1>3, <1>7, <1>8, <1>9, <1>11, <1>12 DEF Turns
<1>14. QED
  BY <1>9, <1>13

LEMMA RejectSellTurns ==
    ASSUME IInv, OrdersFollowed, RejectSell
    PROVE  \E buy, sell, price : price \in {buy.price, sell.price} /\ Turns(buy, sell, price)
<1>1. PICK maker, volume, price : /\ maker = Head(activeBuys)
                                  /\ volume = getDealVolume(maker, incoming)
                                  /\ price = getDealPrice(maker, incoming)
  OBVIOUS
<1>2. PICK worth, lessVolume, lessWorth :
          worth = price * volume /\ lessVolume = -volume /\ lessWorth = -price * volume
  OBVIOUS
<1>3. /\ activeBuys \in Seq(Resting("buy")) /\ Sorted(activeBuys) /\ activeBuys # <<>>
      /\ Distinct(activeBuys) /\ "buy" \in Sides /\ activeSells \in Seq(Resting("sell"))
      /\ incoming \in DealType /\ incoming.type = "sell" /\ ~incoming.isClosed
      /\ incoming # NoOrder /\ incoming' = NoOrder
      /\ incoming.price <= maker.price
      /\ activeBuys' = Tail(activeBuys) /\ UNCHANGED <<activeSells, orders>>
      /\ users' = Settled(incoming.uid, maker.uid, lessVolume, lessWorth)
  BY <1>1, <1>2 DEF IInv, TypeOK, BooksSorted, OrdersFollowed, RejectSell, SellMatches, NoOrder,
     Sides, IsCompatible
<1>4. IInv'
  BY RejectSellIInv
<1>5. maker \in DealType /\ maker.type = "buy"
  <2>1. maker \in ToSet(activeBuys)
    BY <1>1, <1>3, TailElements
  <2>2. QED
    BY <1>3, <2>1, BookElements
<1>6. PICK buy, sell : buy = View(maker) /\ sell = View(incoming)
  OBVIOUS
<1>7. /\ buy \in OpenOrders /\ sell \in OpenOrders
      /\ \A order \in OpenOrders' : order \in OpenOrders \ {buy, sell}
  <2>1. /\ \A d \in ToSet(activeSells) : d.type # "buy"
        /\ ToSet(activeBuys') \cup ToSet(activeSells')
             = ToSet(Tail(activeBuys)) \cup ToSet(activeSells)
    BY <1>3, BookElements
  <2>2. QED
    BY <1>1, <1>3, <1>4, <1>6, <2>1, LeftTurns
<1>8. /\ buy.type = "buy" /\ buy.uid = maker.uid /\ buy.price = maker.price
      /\ sell.type = "sell" /\ sell.uid = incoming.uid /\ sell.price = incoming.price
      /\ volume = getDealVolume(buy, sell)
  BY <1>1, <1>3, <1>5, <1>6 DEF View, getDealVolume
<1>9. /\ price \in {buy.price, sell.price} /\ sell.price <= price /\ price <= buy.price
      /\ price \in Int /\ volume \in Int /\ worth \in Int
      /\ lessVolume = -volume /\ lessVolume \in Int /\ lessWorth = -worth /\ lessWorth \in Int
  <2>1. /\ incoming.price \in Int /\ maker.price \in Int
        /\ incoming.volume \in Int /\ maker.volume \in Int
    BY <1>3, <1>5 DEF DealType
  <2>2. price \in {buy.price, sell.price} /\ sell.price <= price /\ price <= buy.price
    BY <1>1, <1>3, <1>8, <2>1 DEF getDealPrice
  <2>3. price \in Int /\ volume \in Int
    BY <1>1, <1>8, <2>1, <2>2 DEF getDealVolume
  <2>4. QED
    BY <1>2, <2>2, <2>3
<1>10. /\ users \in [DOMAIN users -> UserType] /\ users' \in [DOMAIN users -> UserType]
  BY <1>3, <1>9, SettledType DEF IInv, TypeOK
<1>11. DOMAIN Balances = DOMAIN users /\ DOMAIN Balances' = DOMAIN Balances
  BY <1>10 DEF Balances
<1>12. ASSUME NEW uid \in DOMAIN Balances PROVE Moved(uid, buy, sell, volume, worth)
  <2>1. Halves(users[uid], users'[uid], uid, incoming.uid, maker.uid, lessVolume, lessWorth)
    <3>1. PICK U, new : /\ U = DOMAIN users
                        /\ new = Settled(incoming.uid, maker.uid, lessVolume, lessWorth)
      OBVIOUS
    <3>2. users \in [U -> UserType] /\ uid \in U /\ lessVolume \in Int /\ lessWorth \in Int
      BY <1>9, <1>10, <1>11, <3>1
    <3>3. Halves(users[uid], new[uid], uid, incoming.uid, maker.uid, lessVolume, lessWorth)
      BY <3>1, <3>2, SettledEffect
    <3>4. QED
      BY <1>3, <3>1, <3>3
  <2>2. /\ Balances[uid].usd = users[uid].usd /\ Balances[uid].rub = users[uid].rub
        /\ Balances'[uid].usd = users'[uid].usd /\ Balances'[uid].rub = users'[uid].rub
    BY <1>10, <1>11 DEF Balances, GetUserBalance
  <2>3. Balances[uid].usd \in Int /\ Balances[uid].rub \in Int
    BY <1>11, BalancesType DEF Balance
  <2>4. QED
    BY <1>8, <1>9, <2>1, <2>2, <2>3 DEF Moved, Halves
<1>13. Turns(buy, sell, price)
  BY <1>2, <1>3, <1>7, <1>8, <1>9, <1>11, <1>12 DEF Turns
<1>14. QED
  BY <1>9, <1>13

LEMMA OpenCovers ==
    ASSUME IInv, Covered, Opens
    PROVE  Covered'
<1>1. PICK done : MayBeDone(done) /\ \A uid \in DOMAIN Balances : CoveredFor(uid, done)
  BY DEF Covered
<1>2. PICK new : /\ UNCHANGED <<orders, OpenOrders>>
                 /\ DOMAIN Balances' = DOMAIN Balances \cup {new}
                 /\ \A uid \in DOMAIN Balances : uid # new /\ Balances'[uid] = Balances[uid]
                 /\ Balances'[new].usd = 0 /\ Balances'[new].rub = 0
  BY DEF Opens, Abstract!OpenAccount
<1>3. MayBeDone(done)' /\ \A i \in DOMAIN orders' : orders'[i].volume \in Nat /\ orders'[i].price \in Nat
  BY <1>1, <1>2 DEF MayBeDone, Covered
<1>4. ASSUME NEW uid \in DOMAIN Balances PROVE CoveredFor(uid, done)'
  BY <1>1, <1>2 DEF CoveredFor, OnSideOf, OnSide, AtLimit
<1>5. CoveredFor(new, done)'
  <2>1. PICK B, S, A : B = OnSideOf("buy", new) /\ S = OnSideOf("sell", new) /\ A = OnSide("buy")
    OBVIOUS
  <2>2. /\ B \in SUBSET DOMAIN orders /\ S \in SUBSET DOMAIN orders /\ A \in SUBSET DOMAIN orders
    BY <2>1 DEF OnSideOf, OnSide
  <2>3. done \in [DOMAIN orders -> Nat] /\ \A i \in DOMAIN orders : orders[i].price \in Nat
    BY <1>1 DEF MayBeDone, Covered
  <2>4. /\ SumFunctionOnSet(done, B) \in Nat /\ SumFunctionOnSet(done, S) \in Nat
        /\ SumFunctionOnSet(AtLimit(done), B) \in Nat /\ SumFunctionOnSet(AtLimit(done), A) \in Nat
    BY <2>2, <2>3, CoverTypes
  <2>5. /\ B = OnSideOf("buy", new)' /\ S = OnSideOf("sell", new)' /\ A = OnSide("buy")'
        /\ AtLimit(done)' = AtLimit(done)
    BY <1>2, <2>1 DEF OnSideOf, OnSide, AtLimit
  <2>6. QED
    BY <1>2, <2>4, <2>5 DEF CoveredFor
<1>6. QED
  BY <1>2, <1>3, <1>4, <1>5 DEF Covered

LEMMA RestCovers ==
    ASSUME Covered, Rests
    PROVE  Covered'
<1>1. PICK done : MayBeDone(done) /\ \A uid \in DOMAIN Balances : CoveredFor(uid, done)
  BY DEF Covered
<1>2. UNCHANGED <<Balances, OpenOrders, orders>>
  BY DEF Rests
<1>3. MayBeDone(done)' /\ \A i \in DOMAIN orders' : orders'[i].volume \in Nat /\ orders'[i].price \in Nat
  BY <1>1, <1>2 DEF MayBeDone, Covered
<1>4. ASSUME NEW uid \in DOMAIN Balances PROVE CoveredFor(uid, done)'
  BY <1>1, <1>2 DEF CoveredFor, OnSideOf, OnSide, AtLimit
<1>5. QED
  BY <1>2, <1>3, <1>4 DEF Covered

\* A sum over the orders of a side after one more order, of which nothing is done.
LEMMA SumSubmitted ==
    ASSUME NEW f, NEW g, NEW S, NEW T, NEW a, IsFiniteSet(S), a \notin S,
           T = S \/ T = S \cup {a}, \A x \in S : f[x] \in Int, \A x \in S : g[x] = f[x], g[a] = 0
    PROVE  SumFunctionOnSet(g, T) = SumFunctionOnSet(f, S)
<1>1. CASE T = S
  <2>1. \A x \in S : g[x] = f[x]
    OBVIOUS
  <2>2. SumFunctionOnSet(g, S) = SumFunctionOnSet(f, S)
    BY <2>1, SumSame
  <2>3. QED
    BY <1>1, <2>2
<1>2. CASE T = S \cup {a}
  BY <1>2, SumOpened
<1>3. QED
  BY <1>1, <1>2

LEMMA SubmitCovers ==
    ASSUME Volumes \subseteq Nat, Prices \subseteq Nat,
           IInv, OrdersFollowed, Covered, NEW order, Submits(order)
    PROVE  Covered'
<1>1. PICK done : MayBeDone(done) /\ \A uid \in DOMAIN Balances : CoveredFor(uid, done)
  BY DEF Covered
<1>2. PICK n, open : /\ n = Len(orders) + 1
                     /\ open = Abstract!OpenOrder(Len(orders'), order.type, order.uid,
                                                  order.volume, order.price)
  OBVIOUS
<1>3. /\ orders \in Seq(DealType) /\ order \in DealType
      /\ orders' = Append(orders, order) /\ OpenOrders' = OpenOrders \cup {open}
      /\ UNCHANGED Balances /\ order.volume \in Nat /\ order.price \in Nat
  BY <1>2 DEF IInv, TypeOK, Submits, Abstract!Submit
<1>4. /\ DOMAIN orders = 1 .. Len(orders) /\ Len(orders) \in Nat /\ Len(orders') = n
      /\ DOMAIN orders' = 1 .. n /\ orders'[n] = order
      /\ \A i \in DOMAIN orders : orders'[i] = orders[i]
  BY <1>2, <1>3, LenProperties, AppendProperties
<1>5. n \notin DOMAIN orders /\ DOMAIN orders' = DOMAIN orders \cup {n}
  BY <1>2, <1>4
<1>6. open.id = n /\ open.volume = order.volume
  BY <1>2, <1>4 DEF Abstract!OpenOrder
<1>7. PICK new : new = [i \in DOMAIN orders' |-> IF i = n THEN 0 ELSE done[i]]
  OBVIOUS
<1>8. /\ done \in [DOMAIN orders -> Nat] /\ new \in [DOMAIN orders' -> Nat] /\ new[n] = 0
      /\ \A i \in DOMAIN orders : new[i] = done[i]
  BY <1>1, <1>5, <1>7 DEF MayBeDone
<1>9. \A i \in DOMAIN orders' : orders'[i].volume \in Nat /\ orders'[i].price \in Nat
  BY <1>3, <1>4, <1>5 DEF Covered
<1>10. MayBeDone(new)'
  <2>1. ASSUME NEW i \in DOMAIN orders' PROVE new[i] <= orders'[i].volume
    <3>1. CASE i = n
      BY <1>8, <1>9, <3>1
    <3>2. CASE i \in DOMAIN orders
      BY <1>1, <1>4, <1>8, <3>2 DEF MayBeDone
    <3>3. QED
      BY <1>5, <3>1, <3>2
  <2>2. ASSUME NEW other \in OpenOrders'
        PROVE  other.volume \in Nat /\ new[other.id] + other.volume <= orders'[other.id].volume
    <3>1. CASE other = open
      BY <1>3, <1>4, <1>6, <1>8, <3>1
    <3>2. CASE other \in OpenOrders
      <4>1. other.id \in DOMAIN orders
        BY <3>2, OpenAreFollowed
      <4>2. other.volume \in Nat /\ done[other.id] + other.volume <= orders[other.id].volume
        BY <1>1, <3>2 DEF MayBeDone
      <4>3. QED
        BY <1>4, <1>8, <4>1, <4>2
    <3>3. QED
      BY <1>3, <3>1, <3>2
  <2>3. QED
    BY <1>8, <2>1, <2>2 DEF MayBeDone
<1>11. PICK f, g : f = AtLimit(done) /\ g = AtLimit(new)'
  OBVIOUS
<1>12. g[n] = 0 /\ \A i \in DOMAIN orders : g[i] = f[i]
  <2>1. g[n] = 0 * order.price
    BY <1>4, <1>5, <1>8, <1>11 DEF AtLimit
  <2>2. 0 * order.price = 0
    BY <1>3
  <2>3. QED
    BY <1>4, <1>5, <1>8, <1>11, <2>1, <2>2 DEF AtLimit
<1>13. ASSUME NEW S \in SUBSET DOMAIN orders, NEW T, T = S \/ T = S \cup {n}
       PROVE  /\ SumFunctionOnSet(new, T) = SumFunctionOnSet(done, S)
              /\ SumFunctionOnSet(g, T) = SumFunctionOnSet(f, S)
  <2>1. IsFiniteSet(S) /\ \A i \in S : done[i] \in Nat /\ f[i] \in Nat
    BY <1>8, <1>11, CoverTypes DEF Covered
  <2>2. /\ n \notin S /\ \A i \in S : done[i] \in Int
        /\ \A i \in S : new[i] = done[i]
    BY <1>5, <1>8, <2>1
  <2>3. SumFunctionOnSet(new, T) = SumFunctionOnSet(done, S)
    BY <1>8, <1>13, <2>1, <2>2, SumSubmitted
  <2>4. /\ \A i \in S : f[i] \in Int
        /\ \A i \in S : g[i] = f[i]
    BY <1>12, <2>1
  <2>5. SumFunctionOnSet(g, T) = SumFunctionOnSet(f, S)
    BY <1>12, <1>13, <2>1, <2>2, <2>4, SumSubmitted
  <2>6. QED
    BY <2>3, <2>5
<1>14. ASSUME NEW uid \in DOMAIN Balances PROVE CoveredFor(uid, new)'
  <2>1. PICK B, S, A : B = OnSideOf("buy", uid) /\ S = OnSideOf("sell", uid) /\ A = OnSide("buy")
    OBVIOUS
  <2>2. PICK B1, S1, A1 : /\ B1 = OnSideOf("buy", uid)' /\ S1 = OnSideOf("sell", uid)'
                          /\ A1 = OnSide("buy")'
    OBVIOUS
  <2>3. /\ B \in SUBSET DOMAIN orders /\ S \in SUBSET DOMAIN orders /\ A \in SUBSET DOMAIN orders
        /\ B1 = B \/ B1 = B \cup {n}
        /\ S1 = S \/ S1 = S \cup {n}
        /\ A1 = A \/ A1 = A \cup {n}
    BY <1>4, <1>5, <2>1, <2>2 DEF OnSideOf, OnSide
  <2>4. /\ Balances[uid].usd <= SumFunctionOnSet(done, B)
        /\ Balances[uid].usd >= -SumFunctionOnSet(done, S)
        /\ Balances[uid].rub >= -SumFunctionOnSet(f, B)
        /\ Balances[uid].rub <= SumFunctionOnSet(f, A)
    BY <1>1, <1>11, <2>1 DEF CoveredFor
  <2>5. /\ SumFunctionOnSet(new, B1) = SumFunctionOnSet(done, B)
        /\ SumFunctionOnSet(new, S1) = SumFunctionOnSet(done, S)
        /\ SumFunctionOnSet(g, B1) = SumFunctionOnSet(f, B)
        /\ SumFunctionOnSet(g, A1) = SumFunctionOnSet(f, A)
    BY <1>13, <2>3
  <2>6. QED
    BY <1>3, <1>11, <2>2, <2>4, <2>5 DEF CoveredFor
<1>15. QED
  BY <1>3, <1>9, <1>10, <1>14 DEF Covered

LEMMA NextCovered ==
    ASSUME Volumes \subseteq Nat, Prices \subseteq Nat,
           IInv, OrdersFollowed, Covered, [Next]_vars
    PROVE  Covered'
<1>1. CASE RejectBuy \/ RejectSell
  BY <1>1, RejectBuyTurns, RejectSellTurns, TurnCovers
<1>2. ASSUME NEW buy, NEW sell, NEW price, Settles(buy, sell, price) PROVE Covered'
  <2>1. price \in {buy.price, sell.price}
    BY <1>2 DEF Settles
  <2>2. QED
    BY <1>2, <2>1, SettlesTurns, TurnCovers
<1>3. CASE Rests \/ Opens
  BY <1>3, RestCovers, OpenCovers
<1>4. ASSUME NEW order, Submits(order) PROVE Covered'
  BY <1>4, SubmitCovers
<1>5. QED
  BY <1>1, <1>2, <1>3, <1>4, NextSteps

\* What may have been filled is at most what was ordered.
LEMMA CoveredTurnover ==
    ASSUME IInv, Covered
    PROVE  WithinTurnover
<1>1. PICK done : MayBeDone(done) /\ \A uid \in DOMAIN Balances : CoveredFor(uid, done)
  BY DEF Covered
<1>2. PICK volumes, worths, f : /\ volumes = [i \in DOMAIN orders |-> orders[i].volume]
                                /\ worths = [i \in DOMAIN orders |-> orders[i].volume * orders[i].price]
                                /\ f = AtLimit(done)
  OBVIOUS
<1>3. ASSUME NEW i \in DOMAIN orders
      PROVE  /\ done[i] \in Nat /\ volumes[i] \in Nat /\ done[i] <= volumes[i]
             /\ f[i] \in Nat /\ worths[i] \in Nat /\ f[i] <= worths[i]
  <2>1. PICK amount, volume, price :
            amount = done[i] /\ volume = orders[i].volume /\ price = orders[i].price
    OBVIOUS
  <2>2. /\ amount \in Nat /\ volume \in Nat /\ price \in Nat /\ amount <= volume
    BY <1>1, <2>1 DEF MayBeDone, Covered
  <2>3. amount * price \in Nat /\ volume * price \in Nat /\ amount * price <= volume * price
    BY <2>2, WorthAtLimit
  <2>4. f[i] = amount * price /\ worths[i] = volume * price /\ volumes[i] = volume
    BY <1>2, <2>1 DEF AtLimit
  <2>5. QED
    BY <2>1, <2>2, <2>3, <2>4
<1>4. ASSUME NEW S \in SUBSET DOMAIN orders
      PROVE  /\ SumFunctionOnSet(done, S) \in Nat /\ SumFunctionOnSet(volumes, S) \in Int
             /\ SumFunctionOnSet(f, S) \in Nat /\ SumFunctionOnSet(worths, S) \in Int
             /\ SumFunctionOnSet(done, S) <= SumFunctionOnSet(volumes, S)
             /\ SumFunctionOnSet(f, S) <= SumFunctionOnSet(worths, S)
  <2>1. /\ IsFiniteSet(S)
        /\ SumFunctionOnSet(done, S) \in Nat /\ SumFunctionOnSet(f, S) \in Nat
    BY <1>1, <1>2, CoverTypes DEF MayBeDone, Covered
  <2>2. /\ \A i \in S : volumes[i] \in Int
        /\ \A i \in S : worths[i] \in Int
        /\ \A i \in S : done[i] \in Int /\ volumes[i] \in Int
        /\ \A i \in S : done[i] <= volumes[i]
        /\ \A i \in S : f[i] \in Int /\ worths[i] \in Int
        /\ \A i \in S : f[i] <= worths[i]
    BY <1>3
  <2>3. SumFunctionOnSet(volumes, S) \in Int /\ SumFunctionOnSet(worths, S) \in Int
    BY <2>1, <2>2, SumType
  <2>4. SumFunctionOnSet(done, S) <= SumFunctionOnSet(volumes, S)
    BY <2>1, <2>2, SumAtMost
  <2>5. SumFunctionOnSet(f, S) <= SumFunctionOnSet(worths, S)
    BY <2>1, <2>2, SumAtMost
  <2>6. QED
    BY <2>1, <2>3, <2>4, <2>5
<1>5. ASSUME NEW uid \in DOMAIN users
      PROVE  /\ users[uid].usd \in (-Ordered("sell", uid)) .. Ordered("buy", uid)
             /\ users[uid].rub >= -Worth("buy", {uid})
             /\ users[uid].rub <= Worth("buy", {orders[i].uid : i \in DOMAIN orders})
  <2>1. PICK B, S, A : B = OnSideOf("buy", uid) /\ S = OnSideOf("sell", uid) /\ A = OnSide("buy")
    OBVIOUS
  <2>2. /\ B \in SUBSET DOMAIN orders /\ S \in SUBSET DOMAIN orders /\ A \in SUBSET DOMAIN orders
    BY <2>1 DEF OnSideOf, OnSide
  <2>3. /\ Ordered("buy", uid) = SumFunctionOnSet(volumes, B)
        /\ Ordered("sell", uid) = SumFunctionOnSet(volumes, S)
        /\ Worth("buy", {uid}) = SumFunctionOnSet(worths, B)
        /\ Worth("buy", {orders[i].uid : i \in DOMAIN orders}) = SumFunctionOnSet(worths, A)
    <3>1. /\ B = {i \in DOMAIN orders : orders[i].type = "buy" /\ orders[i].uid = uid}
          /\ S = {i \in DOMAIN orders : orders[i].type = "sell" /\ orders[i].uid = uid}
          /\ B = {i \in DOMAIN orders : orders[i].type = "buy" /\ orders[i].uid \in {uid}}
          /\ A = {i \in DOMAIN orders : /\ orders[i].type = "buy"
                                        /\ orders[i].uid \in {orders[j].uid : j \in DOMAIN orders}}
      BY <2>1 DEF OnSideOf, OnSide
    <3>2. QED
      BY <1>2, <3>1 DEF Ordered, Worth
  <2>4. /\ users[uid].usd \in Int /\ users[uid].rub \in Int
        /\ users[uid].usd <= SumFunctionOnSet(done, B)
        /\ users[uid].usd >= -SumFunctionOnSet(done, S)
        /\ users[uid].rub >= -SumFunctionOnSet(f, B)
        /\ users[uid].rub <= SumFunctionOnSet(f, A)
    <3>1. uid \in DOMAIN Balances
      BY BalancesType
    <3>2. /\ users[uid].usd = Balances[uid].usd /\ users[uid].rub = Balances[uid].rub
          /\ Balances[uid].usd \in Int /\ Balances[uid].rub \in Int
      BY BalancesType DEF Balance
    <3>3. QED
      BY <1>1, <1>2, <2>1, <3>1, <3>2 DEF CoveredFor
  <2>5. PICK b, s, c, a, b1, s1, c1, a1 :
            /\ b = SumFunctionOnSet(done, B) /\ b1 = SumFunctionOnSet(volumes, B)
            /\ s = SumFunctionOnSet(done, S) /\ s1 = SumFunctionOnSet(volumes, S)
            /\ c = SumFunctionOnSet(f, B) /\ c1 = SumFunctionOnSet(worths, B)
            /\ a = SumFunctionOnSet(f, A) /\ a1 = SumFunctionOnSet(worths, A)
    OBVIOUS
  <2>6. /\ b \in Nat /\ b1 \in Int /\ b <= b1 /\ s \in Nat /\ s1 \in Int /\ s <= s1
        /\ c \in Nat /\ c1 \in Int /\ c <= c1 /\ a \in Nat /\ a1 \in Int /\ a <= a1
    BY <1>4, <2>2, <2>5
  <2>7. /\ users[uid].usd \in (-s1) .. b1
        /\ users[uid].rub >= -c1 /\ users[uid].rub <= a1
    BY <2>4, <2>5, <2>6
  <2>8. QED
    BY <2>3, <2>5, <2>7
<1>6. QED
  BY <1>5 DEF WithinTurnover

\* No balance leaves what the submitted orders are worth, in any iteration of the
\* loops and after every early return, also when orders carry uids that are
\* nobody's account (core.cpp:46-49, 79-82).  Volumes and prices are not
\* negative, which neither Client.cpp:118-121 nor the server checks.
THEOREM BalancesStayWithinTurnover ==
    ASSUME Volumes \subseteq Nat, Prices \subseteq Nat
    PROVE  Spec => []WithinTurnover
<1>1. Init => Covered
  <2> SUFFICES ASSUME Init PROVE Covered
    OBVIOUS
  <2>1. PICK done : done = [i \in DOMAIN orders |-> 0]
    OBVIOUS
  <2>2. orders = <<>> /\ DOMAIN orders = {} /\ OpenOrders = {} /\ DOMAIN Balances = {}
    BY DEF Init, TableInit, Balances, OpenOrders, Quiescent, ToSet
  <2>3. MayBeDone(done)
    BY <2>1, <2>2 DEF MayBeDone
  <2>4. QED
    BY <2>2, <2>3 DEF Covered
<1>2. IInv /\ OrdersFollowed /\ Covered /\ [Next]_vars => Covered'
  BY NextCovered
<1>3. IInv /\ Covered => WithinTurnover
  BY CoveredTurnover
<1>4. QED
  BY <1>1, <1>2, <1>3, InitIInv, NextIInv, InitFollowed, NextFollowed, PTL DEF Spec

=============================================================================
