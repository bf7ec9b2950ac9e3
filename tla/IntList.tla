------------------------------- MODULE IntList -------------------------------
(***************************************************************************)
(* What CTestArray of 6/main.cpp promises: a list.  A call out of range    *)
(* ends the program, and two calls have no meaning: taking the last        *)
(* element of an empty list, and reading or writing at a negative index.   *)
(***************************************************************************)
EXTENDS Integers, Sequences, FiniteSets, SequencesExt

CONSTANTS Values, Nothing, MaxLength

VARIABLES list, result, program

listVars == <<list, result, program>>

ListInit == list = <<>> /\ result = Nothing /\ program = "running"

Returns(value) == result' = value /\ UNCHANGED program
Stops(reason) == program' = reason /\ UNCHANGED <<list, result>>

Add(value) == list' = Append(list, value) /\ Returns(Len(list'))

TakeLast ==
    IF list # <<>> THEN list' = Front(list) /\ Returns(Last(list)) ELSE Stops("undefined")

InsertBefore(index, value) ==
    IF index \in 0 .. Len(list)
    THEN list' = InsertAt(list, index + 1, value) /\ Returns(Nothing)
    ELSE Stops("exited")

DeleteAt(index) ==
    IF index \in 0 .. (Len(list) - 1)
    THEN list' = RemoveAt(list, index + 1) /\ Returns(Nothing)
    ELSE Stops("exited")

ElementAt(index) ==
    IF index >= Len(list) THEN Stops("exited")
    ELSE IF index < 0 THEN Stops("undefined")
    ELSE Returns(list[index + 1]) /\ UNCHANGED list

WriteAt(index, value) ==
    IF index >= Len(list) THEN Stops("exited")
    ELSE IF index < 0 THEN Stops("undefined")
    ELSE list' = ReplaceAt(list, index + 1, value) /\ Returns(Nothing)

\* How often each value is in the list l.
Tally(l) == [value \in Values |-> Cardinality({i \in DOMAIN l : l[i] = value})]

SortAll ==
    /\ Tally(list') = Tally(list)
    /\ Len(list') = Len(list)
    /\ \A i, j \in DOMAIN list : i <= j => list'[i] <= list'[j]
    /\ Returns(Nothing)

Empty == list' = <<>> /\ Returns(Nothing)

ListNext ==
    /\ program = "running"
    /\ \/ \E value \in Values : Add(value)
       \/ TakeLast \/ SortAll \/ Empty
       \/ \E index \in -1 .. MaxLength :
             DeleteAt(index) \/ ElementAt(index)
             \/ \E value \in Values : WriteAt(index, value) \/ InsertBefore(index, value)

ListSpec == ListInit /\ [][ListNext]_listVars

=============================================================================
