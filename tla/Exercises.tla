------------------------------ MODULE Exercises ------------------------------
(***************************************************************************)
(* The three sequential programs of the repository, checked in one run:    *)
(* the order books of 1, the array of 6 and the message library of 7.      *)
(* They share nothing.  A behaviour picks one of them, and the other two   *)
(* stay as they are after their construction, the parser as one that has   *)
(* returned.                                                               *)
(***************************************************************************)
EXTENDS OrderBook, CTestArray, MCHttpMessage

VARIABLE exercise  \* the program of this behaviour

exerciseVars == <<bookVars, arrayVars, messageVars, exercise>>

IdleParser ==
    /\ text = <<>> /\ message = <<>> /\ phase = "done" /\ ch = 1
    /\ flags = NoFlags /\ calls = <<>> /\ data = <<>>

ExercisesInit ==
    /\ exercise \in {"books", "array", "parser"}
    /\ OrderBookInit
    /\ IF exercise = "array" THEN ArrayInit ELSE Construct(0)
    /\ IF exercise = "parser" THEN MessageInit ELSE IdleParser

Books == exercise = "books" /\ OrderBookNext /\ UNCHANGED <<arrayVars, messageVars, exercise>>
Array == exercise = "array" /\ ArrayNext /\ UNCHANGED <<bookVars, messageVars, exercise>>
Parser == exercise = "parser" /\ Parsing /\ UNCHANGED <<bookVars, arrayVars, exercise>>

ExercisesNext ==
    \/ Books \/ Array \/ Parser
    \/ Returned /\ UNCHANGED <<bookVars, arrayVars, exercise>>

\* Only the parser has to come to an end, and it is a loop that runs.
ExercisesSpec ==
    ExercisesInit /\ [][ExercisesNext]_exerciseVars /\ WF_exerciseVars(Parser)

=============================================================================
