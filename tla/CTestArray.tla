------------------------------ MODULE CTestArray ------------------------------
(***************************************************************************)
(* The array of 6/main.cpp: a block of memory of m_capacity cells, of      *)
(* which the first m_length are elements.  A cell that nobody has written  *)
(* holds Nothing.  Indices count from 0.  A write or read outside the      *)
(* block is undefined behaviour, after which nothing is modelled; a failed *)
(* test of an index calls exit(0).                                         *)
(***************************************************************************)
EXTENDS Integers, Sequences, FiniteSets

CONSTANTS Values,      \* elements
          Nothing,     \* what a cell nobody has written holds, and a call that returns
                       \* no value returns
          Capacities,  \* what the constructor is given; 0 by default
          MaxLength    \* bound on the length

ASSUME ArrayAssumption ==
    /\ Values \subseteq Int
    /\ Nothing \notin Int
    /\ Capacities \subseteq Nat
    /\ MaxLength \in Nat

VARIABLES cells,       \* *m_ptr, a function on 0 .. m_capacity - 1
          m_capacity,
          m_length,
          result,      \* what the last call returned
          program       \* "running", "exited" or "undefined"

arrayVars == <<cells, m_capacity, m_length, result, program>>

\* new T[n]
NewBlock(n) == [i \in 0 .. (n - 1) |-> Nothing]

Construct(n) ==
    /\ cells = NewBlock(n) /\ m_capacity = n /\ m_length = 0
    /\ result = Nothing /\ program = "running"

ArrayInit == \E n \in Capacities : Construct(n)

Return(value) == result' = value /\ UNCHANGED program
Stop(reason) == program' = reason /\ UNCHANGED <<cells, m_capacity, m_length, result>>

\* What iterating from begin() to end() yields.
Elements == [i \in 1 .. m_length |-> cells[i - 1]]

-----------------------------------------------------------------------------

\* Faulty variant of Grown: the block is not enlarged.
GrownInPlace(block, n) == block

\* The first m_length cells are copied to a block of n cells.
Grown(block, n) == [i \in 0 .. (n - 1) |-> IF i < m_length THEN block[i] ELSE Nothing]

IsFull == m_length = m_capacity

\* The block as Push_back and Insert have it before they write.
RoomyCapacity == IF IsFull THEN m_capacity * 2 ELSE m_capacity
RoomyCells == IF IsFull THEN Grown(cells, RoomyCapacity) ELSE cells

Push_back(value) ==
    IF m_length >= RoomyCapacity
    THEN Stop("undefined")
    ELSE /\ m_capacity' = RoomyCapacity
         /\ cells' = [RoomyCells EXCEPT ![m_length] = value]
         /\ m_length' = m_length + 1
         /\ Return(m_length')

Pop_back ==
    IF m_length = 0
    THEN Stop("undefined")
    ELSE /\ m_length' = m_length - 1
         /\ Return(cells[m_length'])
         /\ UNCHANGED <<cells, m_capacity>>

\* The loop of Delete, which runs to the end: at[i] is the block when i is tested.
ShiftedDown(block, index) ==
    LET at[i \in index .. (m_length - 1)] ==
            IF i = index THEN block ELSE [at[i - 1] EXCEPT ![i - 1] = at[i - 1][i]]
    IN  at[m_length - 1]

Delete(index) ==
    IF index < 0 \/ index >= m_length
    THEN Stop("exited")
    ELSE /\ cells' = ShiftedDown(cells, index)
         /\ m_length' = m_length - 1
         /\ Return(Nothing)
         /\ UNCHANGED m_capacity

\* Faulty variant of ShiftedUp: the loop runs to the end, over cells not yet moved.
ShiftedUpForwards(block, index) ==
    LET at[i \in index .. m_length] ==
            IF i = index THEN block ELSE [at[i - 1] EXCEPT ![i] = at[i - 1][i - 1]]
    IN  at[m_length]

\* The loop of Insert, which runs from the end: at[i] is the block when i is tested.
ShiftedUp(block, index) ==
    LET at[i \in index .. m_length] ==
            IF i = m_length THEN block ELSE [at[i + 1] EXCEPT ![i + 1] = at[i + 1][i]]
    IN  at[index]

Insert(index, value) ==
    IF index < 0 \/ index > m_length THEN Stop("exited")
    ELSE IF m_length >= RoomyCapacity THEN Stop("undefined")
    ELSE /\ m_capacity' = RoomyCapacity
         /\ cells' = [ShiftedUp(RoomyCells, index) EXCEPT ![index] = value]
         /\ m_length' = m_length + 1
         /\ Return(Nothing)

\* operator[], read: an index below 0 passes the test.
At(index) ==
    IF index >= m_length THEN Stop("exited")
    ELSE IF index < 0 THEN Stop("undefined")
    ELSE Return(cells[index]) /\ UNCHANGED <<cells, m_capacity, m_length>>

\* operator[], written: it returns a reference.
Assign(index, value) ==
    IF index >= m_length THEN Stop("exited")
    ELSE IF index < 0 THEN Stop("undefined")
    ELSE /\ cells' = [cells EXCEPT ![index] = value]
         /\ Return(Nothing)
         /\ UNCHANGED <<m_capacity, m_length>>

InOrder(elements) == \A i, j \in DOMAIN elements : i < j => elements[i] <= elements[j]

Occurrences(elements, value) == Cardinality({i \in DOMAIN elements : elements[i] = value})

\* What std::sort leaves of elements: they are in order, and each as often as before.
Sortings(elements) ==
    LET values == {elements[i] : i \in DOMAIN elements}
    IN  {sorted \in [DOMAIN elements -> values] :
            /\ InOrder(sorted)
            /\ \A value \in values : Occurrences(sorted, value) = Occurrences(elements, value)}

\* The cells behind the elements stay.
Sort ==
    /\ \E sorted \in Sortings(Elements) :
          cells' = [i \in DOMAIN cells |-> IF i < m_length THEN sorted[i + 1] ELSE cells[i]]
    /\ Return(Nothing)
    /\ UNCHANGED <<m_capacity, m_length>>

\* The block is replaced by a new one of the same capacity.
Clear ==
    /\ cells' = NewBlock(m_capacity)
    /\ m_length' = 0
    /\ Return(Nothing)
    /\ UNCHANGED m_capacity

ArrayNext ==
    /\ program = "running"
    /\ \/ m_length < MaxLength /\ \E value \in Values : Push_back(value)
       \/ Pop_back \/ Sort \/ Clear
       \/ \E index \in -1 .. MaxLength :
             \/ Delete(index) \/ At(index)
             \/ \E value \in Values : Assign(index, value)
             \/ m_length < MaxLength /\ \E value \in Values : Insert(index, value)

ArraySpec == ArrayInit /\ [][ArrayNext]_arrayVars

\* How main begins: an array constructed by default, and Push_back after Push_back.
Pushing ==
    /\ program = "running" /\ m_length < MaxLength
    /\ \E value \in Values : Push_back(value)

TestSpec == Construct(0) /\ [][Pushing]_arrayVars

-----------------------------------------------------------------------------
(* Properties *)

Abstract == INSTANCE IntList WITH list <- Elements

\* Every variable has its type, and the block has m_capacity cells (main.cpp:15-17).
ArrayTypeOK ==
    /\ m_capacity \in Nat /\ m_length \in Nat
    /\ cells \in [0 .. (m_capacity - 1) -> Values \cup {Nothing}]
    /\ result \in Values \cup Nat \cup {Nothing}
    /\ program \in {"running", "exited", "undefined"}

\* Each call does to the elements what it does to a list.
CallByCall ==
    /\ \A value \in Values : Push_back(value) => Abstract!Add(value)
    /\ Pop_back => Abstract!TakeLast
    /\ Sort => Abstract!SortAll
    /\ Clear => Abstract!Empty
    /\ \A index \in -1 .. MaxLength :
          /\ Delete(index) => Abstract!DeleteAt(index)
          /\ At(index) => Abstract!ElementAt(index)
          /\ \A value \in Values : /\ Assign(index, value) => Abstract!WriteAt(index, value)
                                   /\ Insert(index, value) => Abstract!InsertBefore(index, value)

\* A block of memory that is constructed with room implements a list, call by call:
\* elements keep their places through growth and through the loops of Insert and
\* Delete, which overwrite the cells they read, calls return what the list holds,
\* and the only calls with undefined behaviour are Pop_back of an empty array and
\* an index below 0 (main.cpp:37-102).
ImplementsList == Abstract!ListSpec /\ [][CallByCall]_arrayVars

\* Each Push_back makes the array one element longer, by the value given, as the
\* program's test asserts of an array constructed by default (main.cpp:149-172).
PushKeeps == [][\E value \in Values : Elements' = Append(Elements, value)]_arrayVars

=============================================================================
