----------------------------- MODULE Threadpool -----------------------------
(***************************************************************************)
(* The thread pool of 7/Server.h (the same class is in                     *)
(* 7/server_full/include/Threadpool.h): workers that take closures from a  *)
(* queue under one mutex and one condition variable.                       *)
(*                                                                         *)
(* Every thread has a pc.  A thread holds the mutex between the step that  *)
(* acquires it and the step that reads or writes the queue, which releases *)
(* it; a thread in "waiting" sleeps in the condition variable and has to   *)
(* acquire the mutex again when it is woken, also when nobody notified it. *)
(* A task is named by its place in the order of acceptance: 1, 2, ...      *)
(***************************************************************************)
EXTENDS Integers, Sequences, FiniteSets

CONSTANTS Workers,    \* m_workers
          Producers,  \* threads that call Enqueue
          Owner,      \* the thread that runs the destructor
          Free,       \* no thread: the mutex is not held
          MaxTasks    \* bound on the calls of Enqueue that succeed

Threads == Workers \cup Producers \cup {Owner}

ASSUME PoolAssumption ==
    /\ Owner \notin Workers \cup Producers
    /\ Workers # {} /\ IsFiniteSet(Workers)
    /\ Workers \cap Producers = {}
    /\ Free \notin Threads
    /\ MaxTasks \in Nat

VARIABLES mutex,     \* the thread that holds m_queue_mutex, or Free
          stop,      \* m_stop_pool
          tasks,     \* m_tasks
          pc,        \* where each thread is
          running,   \* the task each worker runs, 0 when it runs none
          accepted,  \* ghost: number of tasks pushed
          started,   \* ghost: number of tasks popped
          done       \* ghost: tasks that have returned

poolVars == <<mutex, stop, tasks, pc, running, accepted, started, done>>

PoolInit ==
    /\ mutex = Free
    /\ stop = FALSE
    /\ tasks = <<>>
    /\ pc = [t \in Threads |-> IF t \in Workers THEN "lock" ELSE "idle"]
    /\ running = [w \in Workers |-> 0]
    /\ accepted = 0
    /\ started = 0
    /\ done = {}

Waiting == {w \in Workers : pc[w] = "waiting"}

\* std::unique_lock and std::lock_guard constructors.
Acquire(t, next) ==
    /\ pc[t] = "lock"
    /\ mutex = Free
    /\ mutex' = t
    /\ pc' = [pc EXCEPT ![t] = next]
    /\ UNCHANGED <<stop, tasks, running, accepted, started, done>>

\* Faulty variant of NotifyAll: one sleeper, not all.
NotifyOne(t, next) ==
    /\ pc' = [u \in Threads |-> IF u = t THEN next
                                ELSE IF Waiting # {} /\ u = (CHOOSE w \in Waiting : TRUE)
                                THEN "lock" ELSE pc[u]]
    /\ UNCHANGED <<mutex, stop, tasks, running, accepted, started, done>>

\* m_condition.notify_all(): every sleeper goes for the mutex.
NotifyAll(t, next) ==
    /\ pc' = [u \in Threads |-> IF u = t THEN next
                                ELSE IF u \in Waiting THEN "lock" ELSE pc[u]]
    /\ UNCHANGED <<mutex, stop, tasks, running, accepted, started, done>>

-----------------------------------------------------------------------------
(* The worker's loop *)

\* Faulty variants: the predicate forgets the flag; the exit forgets the queue.
MustWaitForTask == tasks = <<>>
MustExitAtOnce == stop

\* The wait predicate is false.
MustWait == ~stop /\ tasks = <<>>

\* The pool is stopped and there is nothing left to run.
MustExit == stop /\ tasks = <<>>

WorkerLock(w) == Acquire(w, "check")

\* m_condition.wait gives the mutex up and sleeps in one step.
WorkerWait(w) ==
    /\ pc[w] = "check"
    /\ MustWait
    /\ mutex' = Free
    /\ pc' = [pc EXCEPT ![w] = "waiting"]
    /\ UNCHANGED <<stop, tasks, running, accepted, started, done>>

\* A sleeper may wake up without a notification.
SpuriousWakeup(w) ==
    /\ pc[w] = "waiting"
    /\ pc' = [pc EXCEPT ![w] = "lock"]
    /\ UNCHANGED <<mutex, stop, tasks, running, accepted, started, done>>

WorkerExit(w) ==
    /\ pc[w] = "check"
    /\ ~MustWait /\ MustExit
    /\ mutex' = Free
    /\ pc' = [pc EXCEPT ![w] = "exit"]
    /\ UNCHANGED <<stop, tasks, running, accepted, started, done>>

\* Faulty variant of Popped: the task is read and stays in the queue.
PoppedNothing(queue) == queue

Popped(queue) == Tail(queue)

WorkerTake(w) ==
    /\ pc[w] = "check"
    /\ ~MustWait /\ ~MustExit
    /\ running' = [running EXCEPT ![w] = Head(tasks)]
    /\ tasks' = Popped(tasks)
    /\ started' = started + 1
    /\ mutex' = Free
    /\ pc' = [pc EXCEPT ![w] = "run"]
    /\ UNCHANGED <<stop, accepted, done>>

\* Faulty variant of WorkerDone: the closure outlives its round of the loop.
WorkerDoneKeepsTask(w) ==
    /\ pc[w] = "run"
    /\ done' = done \cup {running[w]}
    /\ pc' = [pc EXCEPT ![w] = "lock"]
    /\ UNCHANGED <<mutex, stop, tasks, running, accepted, started>>

\* task() returns, its closure is destroyed, and the worker goes round its loop.
WorkerDone(w) ==
    /\ pc[w] = "run"
    /\ done' = done \cup {running[w]}
    /\ running' = [running EXCEPT ![w] = 0]
    /\ pc' = [pc EXCEPT ![w] = "lock"]
    /\ UNCHANGED <<mutex, stop, tasks, accepted, started>>

-----------------------------------------------------------------------------
(* Enqueue *)

\* Faulty variant of Pushed: the queue is a stack.
PushedInFront(queue, task) == <<task>> \o queue

Pushed(queue, task) == Append(queue, task)

\* The call.  Whoever uses the pool keeps it alive: a call may overlap the
\* destructor, but none begins once the pool is stopped.
Enqueue(p) ==
    /\ pc[p] = "idle"
    /\ ~stop
    /\ accepted < MaxTasks
    /\ pc' = [pc EXCEPT ![p] = "lock"]
    /\ UNCHANGED <<mutex, stop, tasks, running, accepted, started, done>>

EnqueueLock(p) == Acquire(p, "push")

EnqueuePush(p) ==
    /\ pc[p] = "push"
    /\ ~stop
    /\ accepted' = accepted + 1
    /\ tasks' = Pushed(tasks, accepted')
    /\ mutex' = Free
    /\ pc' = [pc EXCEPT ![p] = "notify"]
    /\ UNCHANGED <<stop, running, started, done>>

\* "Enqueue on stopped ThreadPool": the guard's destructor releases the mutex.
EnqueueThrow(p) ==
    /\ pc[p] = "push"
    /\ stop
    /\ mutex' = Free
    /\ pc' = [pc EXCEPT ![p] = "idle"]
    /\ UNCHANGED <<stop, tasks, running, accepted, started, done>>

EnqueueNotify(p) == pc[p] = "notify" /\ NotifyAll(p, "idle")

-----------------------------------------------------------------------------
(* The destructor *)

Destroy ==
    /\ pc[Owner] = "idle"
    /\ pc' = [pc EXCEPT ![Owner] = "lock"]
    /\ UNCHANGED <<mutex, stop, tasks, running, accepted, started, done>>

DestroyLock == Acquire(Owner, "stop")

DestroyStop ==
    /\ pc[Owner] = "stop"
    /\ stop' = TRUE
    /\ mutex' = Free
    /\ pc' = [pc EXCEPT ![Owner] = "notify"]
    /\ UNCHANGED <<tasks, running, accepted, started, done>>

DestroyNotify == pc[Owner] = "notify" /\ NotifyAll(Owner, "join")

\* All joins have returned.  Nobody waits for a call of Enqueue that overlaps the
\* destructor: its caller has to see to it that the members live until it is over.
DestroyJoin ==
    /\ pc[Owner] = "join"
    /\ \A w \in Workers : pc[w] = "exit"
    /\ pc' = [pc EXCEPT ![Owner] = "gone"]
    /\ UNCHANGED <<mutex, stop, tasks, running, accepted, started, done>>

-----------------------------------------------------------------------------

WorkerStep(w) ==
    WorkerLock(w) \/ WorkerWait(w) \/ WorkerExit(w) \/ WorkerTake(w) \/ WorkerDone(w)

ProducerStep(p) ==
    EnqueueLock(p) \/ EnqueuePush(p) \/ EnqueueThrow(p) \/ EnqueueNotify(p)

OwnerStep == DestroyLock \/ DestroyStop \/ DestroyNotify \/ DestroyJoin

\* The end: the destructor has returned.
PoolGone == pc[Owner] = "gone" /\ UNCHANGED poolVars

PoolNext ==
    \/ \E w \in Workers : WorkerStep(w) \/ SpuriousWakeup(w)
    \/ \E p \in Producers : Enqueue(p) \/ ProducerStep(p)
    \/ Destroy \/ OwnerStep
    \/ PoolGone

PoolSpec == PoolInit /\ [][PoolNext]_poolVars

\* The operating system runs every thread that can run, a thread that keeps
\* asking for the mutex gets it in the end (strong fairness: others may take it
\* in between, sleepers that wake up spuriously for example), and a task returns.
\* Nobody is obliged to enqueue or to destroy the pool, and no wakeup comes
\* without a notification for certain.
PoolFairSpec ==
    /\ PoolSpec
    /\ \A w \in Workers : WF_poolVars(WorkerStep(w)) /\ SF_poolVars(WorkerLock(w))
    /\ \A p \in Producers : WF_poolVars(ProducerStep(p)) /\ SF_poolVars(EnqueueLock(p))
    /\ WF_poolVars(OwnerStep) /\ SF_poolVars(DestroyLock)

-----------------------------------------------------------------------------
(* Properties *)

WorkerPc == {"lock", "check", "waiting", "run", "exit"}
ProducerPc == {"idle", "lock", "push", "notify"}
OwnerPc == {"idle", "lock", "stop", "notify", "join", "gone"}

\* Every variable has its type, and a worker has a closure exactly while it runs
\* it (Server.h:43-54, 82-87).
PoolTypeOK ==
    /\ mutex \in Threads \cup {Free}
    /\ stop \in BOOLEAN
    /\ tasks \in Seq(Nat)
    /\ pc \in [Threads -> WorkerPc \cup ProducerPc \cup OwnerPc]
    /\ \A w \in Workers : pc[w] \in WorkerPc
    /\ \A p \in Producers : pc[p] \in ProducerPc
    /\ pc[Owner] \in OwnerPc
    /\ running \in [Workers -> Nat]
    /\ \A w \in Workers : (pc[w] = "run") <=> (running[w] # 0)
    /\ accepted \in Nat /\ started \in Nat /\ started <= accepted
    /\ done \subseteq Nat

\* Tasks are started in the order in which they were accepted, whichever worker
\* takes them: the queue is at all times the tasks accepted and not yet
\* started, oldest first (Server.h:50-51, 75).
StartedInOrder == tasks = [i \in 1 .. (accepted - started) |-> started + i]

\* A task that was started is run by one worker or has returned, never both and
\* never twice, for every interleaving of the workers (Server.h:44-54).
RunOnce ==
    /\ \A w \in Workers :
          pc[w] = "run" => running[w] \in 1 .. started /\ running[w] \notin done
    /\ \A v, w \in Workers :
          pc[v] = "run" /\ pc[w] = "run" /\ running[v] = running[w] => v = w
    /\ \A n \in 1 .. started : n \in done \/ \E w \in Workers : pc[w] = "run" /\ running[w] = n

\* Nobody sleeps on work: while a worker sleeps, there is neither a task nor the
\* order to stop, or the thread that brought it is about to notify
\* (Server.h:45-48, 64, 79).
NoLostWakeup ==
    Waiting # {} =>
        /\ tasks # <<>> => \E p \in Producers : pc[p] = "notify"
        /\ stop => pc[Owner] = "notify"

\* The destructor returns only when every task that was accepted has been run:
\* also tasks pushed while it waited for the mutex (Server.h:48-49, 59-67).
DrainedWhenGone ==
    pc[Owner] = "gone" => tasks = <<>> /\ done = 1 .. accepted

\* Every task that Enqueue accepted is run in the end, also when the pool is
\* destroyed meanwhile (Server.h:69-80).
EveryTaskRuns == \A n \in 1 .. MaxTasks : (accepted >= n) ~> (n \in done)

\* A destructor that has been called returns (Server.h:59-67).
DestructorReturns == (pc[Owner] = "lock") ~> (pc[Owner] = "gone")

\* What the pool shows of itself: Server.h:36-88.
Abstract == INSTANCE TaskQueue WITH
    Width <- Cardinality(Workers),
    submitted <- accepted,
    queue <- tasks,
    inProgress <- {running[w] : w \in {v \in Workers : pc[v] = "run"}},
    finished <- done,
    phase <- IF pc[Owner] = "gone" THEN "gone" ELSE IF stop THEN "closed" ELSE "open"

\* The pool is a first-in first-out queue served by as many servers as it has
\* workers: whatever the threads, the mutex and the condition variable do, every
\* step is a submission, a start, an end, the closing or the end of the pool, or
\* shows nothing (Server.h:36-88).
ImplementsTaskQueue == Abstract!QueueSpec

=============================================================================
