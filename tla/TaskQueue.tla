----------------------------- MODULE TaskQueue -----------------------------
(***************************************************************************)
(* What the thread pool of 7/Server.h promises, with no thread, mutex or   *)
(* condition variable in it: tasks 1, 2, ... wait in a first-in first-out  *)
(* queue, at most Width of them are in progress, each is completed once,   *)
(* and a pool that is closed ends with nothing left behind.                *)
(***************************************************************************)
EXTENDS Integers, Sequences, FiniteSets

CONSTANT Width  \* how many tasks may be in progress

VARIABLES submitted,   \* number of tasks submitted
          queue,       \* the tasks that wait
          inProgress,  \* the tasks that have begun and not ended
          finished,    \* the tasks that have ended
          phase        \* "open", "closed" (no task is taken any more) or "gone"

QueueInit ==
    /\ submitted = 0 /\ queue = <<>>
    /\ inProgress = {} /\ finished = {}
    /\ phase = "open"

Submit ==
    /\ phase = "open"
    /\ submitted' = submitted + 1
    /\ queue' = Append(queue, submitted')
    /\ UNCHANGED <<inProgress, finished, phase>>

Begin ==
    /\ queue # <<>>
    /\ Cardinality(inProgress) < Width
    /\ inProgress' = inProgress \cup {Head(queue)}
    /\ queue' = Tail(queue)
    /\ UNCHANGED <<submitted, finished, phase>>

Complete ==
    /\ \E task \in inProgress :
          inProgress' = inProgress \ {task} /\ finished' = finished \cup {task}
    /\ UNCHANGED <<submitted, queue, phase>>

Close ==
    /\ phase = "open" /\ phase' = "closed"
    /\ UNCHANGED <<submitted, queue, inProgress, finished>>

End ==
    /\ phase = "closed" /\ phase' = "gone"
    /\ queue = <<>> /\ inProgress = {}
    /\ UNCHANGED <<submitted, queue, inProgress, finished>>

QueueNext == Submit \/ Begin \/ Complete \/ Close \/ End

queueVars == <<submitted, queue, inProgress, finished, phase>>

QueueSpec == QueueInit /\ [][QueueNext]_queueVars

=============================================================================
