-------------------------- MODULE ThreadpoolProofs --------------------------
(***************************************************************************)
(* Theorems about Threadpool, for any number of workers, producers and     *)
(* tasks.                                                                  *)
(*                                                                         *)
(* None of the properties is inductive alone.  That nothing is lost when   *)
(* the pool is gone rests on what made the workers leave (a stopped pool   *)
(* with an empty queue, which stays empty because a push needs a pool that *)
(* is not stopped) and on the account of every task started.               *)
(***************************************************************************)
EXTENDS Threadpool, SequenceTheorems, FiniteSetTheorems, TLAPS

\* A worker leaves only a stopped pool with an empty queue.
ExitedWhenDrained == \A w \in Workers : pc[w] = "exit" => stop /\ tasks = <<>>

\* Nothing is done that was not started.
DoneWasStarted == done \subseteq 1 .. started

\* Past the join, every worker has left.
GoneWhenJoined == pc[Owner] = "gone" => \A w \in Workers : pc[w] = "exit"

PoolIInv ==
    /\ PoolTypeOK
    /\ StartedInOrder
    /\ RunOnce
    /\ NoLostWakeup
    /\ ExitedWhenDrained
    /\ DoneWasStarted
    /\ GoneWhenJoined

-----------------------------------------------------------------------------

\* The queue is empty exactly when every accepted task was started.
LEMMA QueueLength ==
    ASSUME PoolTypeOK, StartedInOrder
    PROVE  /\ Len(tasks) = accepted - started
           /\ tasks = <<>> <=> accepted = started
           /\ tasks # <<>> => Head(tasks) = started + 1
<1>1. accepted - started \in Nat /\ accepted \in Nat /\ started \in Nat
  BY DEF PoolTypeOK
<1>2. DOMAIN tasks = 1 .. (accepted - started)
  BY DEF StartedInOrder
<1>3. Len(tasks) = accepted - started
  BY <1>1, <1>2, LenProperties DEF PoolTypeOK
<1>4. tasks = <<>> <=> Len(tasks) = 0
  BY <1>1, EmptySeq DEF PoolTypeOK
<1>5. ASSUME tasks # <<>> PROVE Head(tasks) = started + 1
  <2>1. 1 \in 1 .. (accepted - started)
    BY <1>1, <1>3, <1>4, <1>5
  <2>2. tasks[1] = started + 1
    BY <1>1, <2>1 DEF StartedInOrder
  <2>3. QED
    BY <1>5, <2>2 DEF PoolTypeOK
<1>6. QED
  BY <1>1, <1>3, <1>4, <1>5

\* Taking the first task keeps the queue in order.
LEMMA TakeKeepsOrder ==
    ASSUME PoolTypeOK, StartedInOrder, tasks # <<>>
    PROVE  /\ Popped(tasks) \in Seq(Nat)
           /\ Popped(tasks) = [i \in 1 .. (accepted - (started + 1)) |-> (started + 1) + i]
<1>1. /\ accepted \in Nat /\ started \in Nat /\ tasks \in Seq(Nat)
      /\ Len(tasks) = accepted - started
  BY QueueLength DEF PoolTypeOK
<1>2. /\ Tail(tasks) \in Seq(Nat)
      /\ Len(Tail(tasks)) = Len(tasks) - 1
      /\ \A i \in 1 .. Len(Tail(tasks)) : Tail(tasks)[i] = tasks[i + 1]
  BY <1>1, HeadTailProperties
<1>3. Len(Tail(tasks)) = accepted - (started + 1)
  BY <1>1, <1>2
<1>4. ASSUME NEW i \in 1 .. (accepted - (started + 1))
      PROVE  Tail(tasks)[i] = (started + 1) + i
  <2>1. i + 1 \in 1 .. (accepted - started) /\ started + (i + 1) = (started + 1) + i
    BY <1>1
  <2>2. tasks[i + 1] = started + (i + 1)
    BY <2>1 DEF StartedInOrder
  <2>3. QED
    BY <1>2, <1>3, <2>1, <2>2
<1>5. /\ DOMAIN Tail(tasks) = 1 .. (accepted - (started + 1))
      /\ Tail(tasks) = [i \in DOMAIN Tail(tasks) |-> Tail(tasks)[i]]
  BY <1>2, <1>3, LenProperties
<1>6. QED
  BY <1>2, <1>4, <1>5 DEF Popped

\* Appending the next task keeps the queue in order.
LEMMA PushKeepsOrder ==
    ASSUME PoolTypeOK, StartedInOrder
    PROVE  /\ Pushed(tasks, accepted + 1) \in Seq(Nat)
           /\ Pushed(tasks, accepted + 1) # <<>>
           /\ Pushed(tasks, accepted + 1)
                = [i \in 1 .. ((accepted + 1) - started) |-> started + i]
<1> DEFINE new == Append(tasks, accepted + 1)
<1>1. /\ accepted \in Nat /\ started \in Nat /\ started <= accepted /\ tasks \in Seq(Nat)
      /\ Len(tasks) = accepted - started
  BY QueueLength DEF PoolTypeOK
<1>2. /\ new \in Seq(Nat) /\ new # <<>>
      /\ Len(new) = Len(tasks) + 1
      /\ \A i \in 1 .. Len(tasks) : new[i] = tasks[i]
      /\ new[Len(tasks) + 1] = accepted + 1
  BY <1>1, AppendProperties
<1> HIDE DEF new
<1>3. Len(new) = (accepted + 1) - started /\ Len(tasks) + 1 = (accepted + 1) - started
  BY <1>1, <1>2
<1>4. ASSUME NEW i \in 1 .. ((accepted + 1) - started)
      PROVE  new[i] = started + i
  <2>1. CASE i = (accepted + 1) - started
    <3>1. started + i = accepted + 1
      BY <1>1, <2>1
    <3>2. QED
      BY <1>2, <1>3, <2>1, <3>1
  <2>2. CASE i # (accepted + 1) - started
    <3>1. i \in 1 .. (accepted - started)
      BY <1>1, <2>2
    <3>2. QED
      BY <1>1, <1>2, <3>1 DEF StartedInOrder
  <2>3. QED
    BY <2>1, <2>2
<1>5. /\ DOMAIN new = 1 .. ((accepted + 1) - started)
      /\ new = [i \in DOMAIN new |-> new[i]]
  BY <1>2, <1>3, LenProperties
<1>6. QED
  BY <1>2, <1>4, <1>5 DEF Pushed, new

-----------------------------------------------------------------------------
(* The invariant holds at the start *)

LEMMA PoolInitEstablishesIInv == PoolInit => PoolIInv
<1> SUFFICES ASSUME PoolInit PROVE PoolIInv
  OBVIOUS
<1> USE DEF PoolInit
<1>1. PoolTypeOK
  <2>1. \A t \in Threads : pc[t] = (IF t \in Workers THEN "lock" ELSE "idle")
    OBVIOUS
  <2>2. /\ \A w \in Workers : pc[w] = "lock" /\ running[w] = 0
        /\ \A p \in Producers : pc[p] = "idle"
        /\ pc[Owner] = "idle"
    BY <2>1, PoolAssumption DEF Threads
  <2>3. pc \in [Threads -> WorkerPc \cup ProducerPc \cup OwnerPc]
    BY DEF WorkerPc, ProducerPc, OwnerPc
  <2>4. tasks \in Seq(Nat) /\ stop \in BOOLEAN /\ mutex \in Threads \cup {Free}
    <3>1. tasks = <<>> /\ stop = FALSE /\ mutex = Free
      OBVIOUS
    <3> HIDE DEF PoolInit
    <3>2. QED
      BY <3>1, EmptySeq
  <2>5. /\ running \in [Workers -> Nat] /\ accepted \in Nat /\ started \in Nat
        /\ started <= accepted /\ done \subseteq Nat
    OBVIOUS
  <2> HIDE DEF PoolInit
  <2>6. QED
    BY <2>2, <2>3, <2>4, <2>5 DEF PoolTypeOK, WorkerPc, ProducerPc, OwnerPc
<1>2. StartedInOrder
  <2>1. accepted - started = 0 /\ 1 .. 0 = {}
    OBVIOUS
  <2>2. QED
    BY <2>1 DEF StartedInOrder
<1>3. \A w \in Workers : pc[w] = "lock"
  BY DEF Threads
<1>4. RunOnce
  BY <1>3 DEF RunOnce
<1>5. NoLostWakeup
  BY <1>3 DEF NoLostWakeup, Waiting
<1>6. ExitedWhenDrained
  BY <1>3 DEF ExitedWhenDrained
<1>7. DoneWasStarted
  BY DEF DoneWasStarted
<1>8. GoneWhenJoined
  BY PoolAssumption DEF GoneWhenJoined, Threads
<1>9. QED
  BY <1>1, <1>2, <1>4, <1>5, <1>6, <1>7, <1>8 DEF PoolIInv

-----------------------------------------------------------------------------
(* Every step preserves it *)

\* A step that leaves the queue, the flag and the tasks alone, moves one thread,
\* wakes some of the sleepers and puts nobody to sleep, to work or out keeps
\* the invariant, when whoever moved owed no notification or woke everybody.
LEMMA MovePreservesIInv ==
    ASSUME PoolIInv, NEW t \in Threads,
           UNCHANGED <<stop, tasks, running, accepted, started, done>>,
           mutex' \in Threads \cup {Free},
           pc' \in [Threads -> WorkerPc \cup ProducerPc \cup OwnerPc],
           \A u \in Threads : u # t => pc'[u] = pc[u] \/ (u \in Waiting /\ pc'[u] = "lock"),
           t \in Workers => pc[t] \in {"lock", "check", "waiting"}
                             /\ pc'[t] \in {"lock", "check"},
           t \in Producers => pc'[t] \in ProducerPc,
           t = Owner => /\ pc'[t] \in OwnerPc
                        /\ pc'[t] = "gone" => \A w \in Workers : pc[w] = "exit",
           pc[t] = "notify" /\ t \notin Workers => \A w \in Waiting : pc'[w] = "lock"
    PROVE  PoolIInv'
<1> USE DEF PoolIInv
<1>1. \A w \in Workers : w \in Threads /\ w # Owner /\ w \notin Producers
  BY PoolAssumption DEF Threads
<1>2. \A w \in Workers : pc'[w] = pc[w] \/ (pc[w] \in {"lock", "check", "waiting"} /\ pc'[w] \in {"lock", "check"})
  BY <1>1 DEF Waiting
<1>3. \A p \in Producers : p \in Threads /\ p # Owner /\ p \notin Workers
  BY PoolAssumption DEF Threads
<1>4. Owner \in Threads /\ Owner \notin Workers /\ Owner \notin Producers
  BY PoolAssumption DEF Threads
<1>5. PoolTypeOK'
  <2>1. \A w \in Workers : pc'[w] \in WorkerPc /\ ((pc'[w] = "run") <=> (running[w] # 0))
    BY <1>2 DEF PoolTypeOK, WorkerPc
  <2>2. \A p \in Producers : pc'[p] \in ProducerPc
    BY <1>3 DEF PoolTypeOK, Waiting
  <2>3. pc'[Owner] \in OwnerPc
    BY <1>4 DEF PoolTypeOK, Waiting
  <2>4. QED
    BY <2>1, <2>2, <2>3 DEF PoolTypeOK
<1>6. StartedInOrder'
  BY DEF StartedInOrder
<1>7. RunOnce'
  <2>1. \A w \in Workers : pc'[w] = "run" <=> pc[w] = "run"
    BY <1>2
  <2>2. QED
    BY <2>1 DEF RunOnce
<1>8. NoLostWakeup'
  <2>1. SUFFICES ASSUME Waiting' # {}
                 PROVE  /\ tasks # <<>> => \E p \in Producers : pc'[p] = "notify"
                        /\ stop => pc'[Owner] = "notify"
    BY DEF NoLostWakeup
  <2>2. PICK w \in Workers : pc'[w] = "waiting" /\ pc[w] = "waiting"
    BY <1>2, <2>1 DEF Waiting
  <2>3. /\ tasks # <<>> => \E p \in Producers : pc[p] = "notify"
        /\ stop => pc[Owner] = "notify"
    BY <2>2 DEF NoLostWakeup, Waiting
  <2>4. t \in Workers \/ pc[t] # "notify"
    BY <2>2 DEF Waiting
  <2>5. QED
    BY <1>3, <1>4, <2>3, <2>4 DEF Waiting
<1>9. ExitedWhenDrained'
  BY <1>2 DEF ExitedWhenDrained
<1>10. DoneWasStarted'
  BY DEF DoneWasStarted
<1>11. GoneWhenJoined'
  BY <1>1, <1>2, <1>4 DEF GoneWhenJoined, Waiting
<1>12. QED
  BY <1>5, <1>6, <1>7, <1>8, <1>9, <1>10, <1>11

\* The same for a step in which nobody is woken and no notification is owed.
LEMMA OneMoves ==
    ASSUME PoolIInv, NEW t \in Threads, NEW x,
           UNCHANGED <<stop, tasks, running, accepted, started, done>>,
           mutex' \in Threads \cup {Free},
           pc' = [pc EXCEPT ![t] = x],
           pc[t] # "notify",
           t \in Workers => pc[t] \in {"lock", "check", "waiting"} /\ x \in {"lock", "check"},
           t \in Producers => x \in ProducerPc,
           t = Owner => /\ x \in OwnerPc
                        /\ x = "gone" => \A w \in Workers : pc[w] = "exit"
    PROVE  PoolIInv'
<1>1. pc \in [Threads -> WorkerPc \cup ProducerPc \cup OwnerPc]
  BY DEF PoolIInv, PoolTypeOK
<1>2. pc'[t] = x /\ \A u \in Threads : u # t => pc'[u] = pc[u]
  BY <1>1
<1>3. x \in WorkerPc \cup ProducerPc \cup OwnerPc
  BY DEF Threads, WorkerPc
<1>4. pc' \in [Threads -> WorkerPc \cup ProducerPc \cup OwnerPc]
  BY <1>1, <1>3
<1>5. QED
  BY <1>2, <1>4, MovePreservesIInv

\* And for a notification: everybody who sleeps is woken.
LEMMA NotifyPreservesIInv ==
    ASSUME PoolIInv, NEW t \in Threads, NEW x, NotifyAll(t, x),
           t \notin Workers,
           t \in Producers => x \in ProducerPc,
           t = Owner => x \in OwnerPc /\ x # "gone"
    PROVE  PoolIInv'
<1>1. /\ pc \in [Threads -> WorkerPc \cup ProducerPc \cup OwnerPc]
      /\ mutex \in Threads \cup {Free}
  BY DEF PoolIInv, PoolTypeOK
<1>2. /\ pc'[t] = x
      /\ \A u \in Threads : u # t => pc'[u] = (IF u \in Waiting THEN "lock" ELSE pc[u])
  BY DEF NotifyAll
<1>3. x \in WorkerPc \cup ProducerPc \cup OwnerPc
  BY DEF Threads
<1>4. pc' \in [Threads -> WorkerPc \cup ProducerPc \cup OwnerPc]
  BY <1>1, <1>3 DEF NotifyAll, WorkerPc
<1>5. \A w \in Waiting : pc'[w] = "lock"
  BY <1>2 DEF Waiting, Threads
<1>6. mutex' = mutex /\ UNCHANGED <<stop, tasks, running, accepted, started, done>>
  BY DEF NotifyAll
<1>7. QED
  BY <1>1, <1>2, <1>4, <1>5, <1>6, MovePreservesIInv

\* The steps in which a thread only moves.
LEMMA MovesPreserveIInv ==
    ASSUME PoolIInv,
           \/ \E w \in Workers : WorkerLock(w) \/ SpuriousWakeup(w)
           \/ \E p \in Producers :
                 Enqueue(p) \/ EnqueueLock(p) \/ EnqueueThrow(p) \/ EnqueueNotify(p)
           \/ Destroy \/ DestroyLock \/ DestroyNotify \/ DestroyJoin
    PROVE  PoolIInv'
<1>1. mutex \in Threads \cup {Free}
  BY DEF PoolIInv, PoolTypeOK
<1>2. ASSUME NEW w \in Workers, WorkerLock(w) \/ SpuriousWakeup(w) PROVE PoolIInv'
  <2>1. w \in Threads /\ w \notin Producers /\ w # Owner
    BY PoolAssumption DEF Threads
  <2>2. CASE WorkerLock(w)
    BY <1>1, <2>1, <2>2, OneMoves DEF WorkerLock, Acquire
  <2>3. CASE SpuriousWakeup(w)
    BY <1>1, <2>1, <2>3, OneMoves DEF SpuriousWakeup
  <2>4. QED
    BY <1>2, <2>2, <2>3
<1>3. ASSUME NEW p \in Producers,
             Enqueue(p) \/ EnqueueLock(p) \/ EnqueueThrow(p) \/ EnqueueNotify(p)
      PROVE  PoolIInv'
  <2>1. p \in Threads /\ p \notin Workers /\ p # Owner
    BY PoolAssumption DEF Threads
  <2>2. CASE Enqueue(p)
    BY <1>1, <2>1, <2>2, OneMoves DEF Enqueue, ProducerPc
  <2>3. CASE EnqueueLock(p)
    BY <1>1, <2>1, <2>3, OneMoves DEF EnqueueLock, Acquire, ProducerPc
  <2>4. CASE EnqueueThrow(p)
    BY <1>1, <2>1, <2>4, OneMoves DEF EnqueueThrow, ProducerPc
  <2>5. CASE EnqueueNotify(p)
    BY <2>1, <2>5, NotifyPreservesIInv DEF EnqueueNotify, ProducerPc
  <2>6. QED
    BY <1>3, <2>2, <2>3, <2>4, <2>5
<1>4. ASSUME Destroy \/ DestroyLock \/ DestroyNotify \/ DestroyJoin PROVE PoolIInv'
  <2>1. Owner \in Threads /\ Owner \notin Workers /\ Owner \notin Producers
    BY PoolAssumption DEF Threads
  <2>2. CASE Destroy
    BY <1>1, <2>1, <2>2, OneMoves DEF Destroy, OwnerPc
  <2>3. CASE DestroyLock
    BY <1>1, <2>1, <2>3, OneMoves DEF DestroyLock, Acquire, OwnerPc
  <2>4. CASE DestroyNotify
    BY <2>1, <2>4, NotifyPreservesIInv DEF DestroyNotify, OwnerPc
  <2>5. CASE DestroyJoin
    BY <1>1, <2>1, <2>5, OneMoves DEF DestroyJoin, OwnerPc
  <2>6. QED
    BY <1>4, <2>2, <2>3, <2>4, <2>5
<1>5. QED
  BY <1>2, <1>3, <1>4

LEMMA WorkerWaitPreservesIInv ==
    ASSUME PoolIInv, NEW w \in Workers, WorkerWait(w)
    PROVE  PoolIInv'
<1> USE DEF PoolIInv, WorkerWait
<1>1. w \in Threads /\ \A t \in Producers \cup {Owner} : t \in Threads /\ t # w
  BY PoolAssumption DEF Threads
<1>2. pc'[w] = "waiting" /\ \A t \in Threads \ {w} : pc'[t] = pc[t]
  BY <1>1 DEF PoolTypeOK
<1>3. \A v \in Workers : v \in Threads /\ (pc'[v] = pc[v] \/ (v = w /\ pc'[v] = "waiting"))
  BY <1>2 DEF Threads
<1>4. PoolTypeOK'
  BY <1>1, <1>2, <1>3 DEF PoolTypeOK, WorkerPc, Threads
<1>5. StartedInOrder' /\ DoneWasStarted'
  BY DEF StartedInOrder, DoneWasStarted
<1>6. RunOnce'
  BY <1>3 DEF RunOnce
<1>7. NoLostWakeup'
  BY DEF NoLostWakeup, MustWait
<1>8. ExitedWhenDrained'
  BY <1>3 DEF ExitedWhenDrained
<1>9. GoneWhenJoined'
  BY <1>1, <1>2, <1>3 DEF GoneWhenJoined
<1>10. QED
  BY <1>4, <1>5, <1>6, <1>7, <1>8, <1>9

LEMMA WorkerExitPreservesIInv ==
    ASSUME PoolIInv, NEW w \in Workers, WorkerExit(w)
    PROVE  PoolIInv'
<1> USE DEF PoolIInv, WorkerExit
<1>1. w \in Threads /\ \A t \in Producers \cup {Owner} : t \in Threads /\ t # w
  BY PoolAssumption DEF Threads
<1>2. pc'[w] = "exit" /\ \A t \in Threads \ {w} : pc'[t] = pc[t]
  BY <1>1 DEF PoolTypeOK
<1>3. \A v \in Workers : v \in Threads /\ (pc'[v] = pc[v] \/ (v = w /\ pc'[v] = "exit"))
  BY <1>2 DEF Threads
<1>4. PoolTypeOK'
  BY <1>1, <1>2, <1>3 DEF PoolTypeOK, WorkerPc, Threads
<1>5. StartedInOrder' /\ DoneWasStarted'
  BY DEF StartedInOrder, DoneWasStarted
<1>6. RunOnce'
  BY <1>3 DEF RunOnce
<1>7. NoLostWakeup'
  BY <1>1, <1>2, <1>3 DEF NoLostWakeup, Waiting
<1>8. ExitedWhenDrained'
  BY <1>3 DEF ExitedWhenDrained, MustExit
<1>9. GoneWhenJoined'
  BY <1>1, <1>2, <1>3 DEF GoneWhenJoined
<1>10. QED
  BY <1>4, <1>5, <1>6, <1>7, <1>8, <1>9

LEMMA WorkerTakePreservesIInv ==
    ASSUME PoolIInv, NEW w \in Workers, WorkerTake(w)
    PROVE  PoolIInv'
<1> USE DEF PoolIInv, WorkerTake
<1>1. w \in Threads /\ \A t \in Producers \cup {Owner} : t \in Threads /\ t # w
  BY PoolAssumption DEF Threads
<1>2. pc'[w] = "run" /\ \A t \in Threads \ {w} : pc'[t] = pc[t]
  BY <1>1 DEF PoolTypeOK
<1>3. /\ accepted \in Nat /\ started \in Nat /\ started <= accepted
      /\ tasks # <<>> /\ Head(tasks) = started + 1 /\ accepted # started
  BY QueueLength DEF PoolTypeOK, MustWait, MustExit
<1>4. running'[w] = started + 1 /\ \A v \in Workers \ {w} : running'[v] = running[v]
  BY <1>3 DEF PoolTypeOK
<1>5. \A v \in Workers : v \in Threads /\ v # Owner
  BY PoolAssumption DEF Threads
<1>6. /\ tasks' \in Seq(Nat)
      /\ tasks' = [i \in 1 .. (accepted - (started + 1)) |-> (started + 1) + i]
  BY <1>3, TakeKeepsOrder
<1>7. started' = started + 1 /\ started' <= accepted /\ started' \in Nat /\ accepted' = accepted
  BY <1>3
<1>8. PoolTypeOK'
  <2>1. pc' \in [Threads -> WorkerPc \cup ProducerPc \cup OwnerPc]
    BY DEF PoolTypeOK, WorkerPc
  <2>2. running' \in [Workers -> Nat]
    BY <1>3 DEF PoolTypeOK
  <2>3. \A v \in Workers : pc'[v] \in WorkerPc /\ ((pc'[v] = "run") <=> (running'[v] # 0))
    BY <1>2, <1>3, <1>4, <1>5 DEF PoolTypeOK, WorkerPc
  <2>4. QED
    BY <1>1, <1>2, <1>6, <1>7, <2>1, <2>2, <2>3 DEF PoolTypeOK
<1>9. StartedInOrder'
  BY <1>6, <1>7 DEF StartedInOrder
<1>10. DoneWasStarted'
  BY <1>3 DEF DoneWasStarted
<1>11. RunOnce'
  <2>1. started + 1 \notin done /\ \A v \in Workers : pc[v] = "run" => running[v] # started + 1
    BY <1>3 DEF RunOnce, DoneWasStarted
  <2>2. \A v \in Workers : pc'[v] = "run" =>
            /\ running'[v] \in 1 .. (started + 1) /\ running'[v] \notin done
            /\ v # w => pc[v] = "run" /\ running'[v] = running[v]
    BY <1>2, <1>3, <1>4, <1>5, <2>1 DEF RunOnce
  <2>3. \A u, v \in Workers :
            pc'[u] = "run" /\ pc'[v] = "run" /\ running'[u] = running'[v] => u = v
    BY <1>4, <2>1, <2>2 DEF RunOnce
  <2>4. ASSUME NEW n \in 1 .. (started + 1)
        PROVE  n \in done \/ \E v \in Workers : pc'[v] = "run" /\ running'[v] = n
    <3>1. CASE n = started + 1
      BY <1>2, <1>4, <3>1
    <3>2. CASE n # started + 1
      <4>1. n \in 1 .. started
        BY <1>3, <3>2
      <4>2. \A v \in Workers : pc[v] = "run" => v # w
        OBVIOUS
      <4>3. QED
        BY <1>2, <1>4, <1>5, <4>1, <4>2 DEF RunOnce
    <3>3. QED
      BY <3>1, <3>2
  <2>5. QED
    BY <2>2, <2>3, <2>4 DEF RunOnce
<1>12. NoLostWakeup'
  <2>1. \A v \in Workers : pc'[v] = "waiting" => pc[v] = "waiting"
    BY <1>2, <1>5
  <2>2. QED
    BY <1>1, <1>2, <1>3, <2>1 DEF NoLostWakeup, Waiting
<1>13. ExitedWhenDrained'
  BY <1>2, <1>3, <1>5 DEF ExitedWhenDrained
<1>14. GoneWhenJoined'
  BY <1>1, <1>2, <1>5 DEF GoneWhenJoined
<1>15. QED
  BY <1>8, <1>9, <1>10, <1>11, <1>12, <1>13, <1>14

LEMMA WorkerDonePreservesIInv ==
    ASSUME PoolIInv, NEW w \in Workers, WorkerDone(w)
    PROVE  PoolIInv'
<1> USE DEF PoolIInv, WorkerDone
<1>1. w \in Threads /\ \A t \in Producers \cup {Owner} : t \in Threads /\ t # w
  BY PoolAssumption DEF Threads
<1>2. pc'[w] = "lock" /\ \A t \in Threads \ {w} : pc'[t] = pc[t]
  BY <1>1 DEF PoolTypeOK
<1>3. running'[w] = 0 /\ \A v \in Workers \ {w} : running'[v] = running[v]
  BY DEF PoolTypeOK
<1>4. \A v \in Workers : v \in Threads /\ v # Owner
  BY PoolAssumption DEF Threads
<1>5. running[w] \in 1 .. started
  BY DEF RunOnce
<1>6. PoolTypeOK'
  <2>1. pc' \in [Threads -> WorkerPc \cup ProducerPc \cup OwnerPc]
    BY DEF PoolTypeOK, WorkerPc
  <2>2. running' \in [Workers -> Nat] /\ done' \subseteq Nat
    BY DEF PoolTypeOK
  <2>3. \A v \in Workers : pc'[v] \in WorkerPc /\ ((pc'[v] = "run") <=> (running'[v] # 0))
    BY <1>2, <1>3, <1>4 DEF PoolTypeOK, WorkerPc
  <2>4. QED
    BY <1>1, <1>2, <2>1, <2>2, <2>3 DEF PoolTypeOK
<1>7. StartedInOrder'
  BY DEF StartedInOrder
<1>8. DoneWasStarted'
  BY <1>5 DEF DoneWasStarted
<1>9. RunOnce'
  <2>1. \A v \in Workers : pc'[v] = "run" => v # w /\ pc[v] = "run" /\ running'[v] = running[v]
    BY <1>2, <1>3, <1>4
  <2>2. \A v \in Workers : pc'[v] = "run" => running'[v] \in 1 .. started /\ running'[v] \notin done'
    BY <2>1 DEF RunOnce
  <2>3. \A u, v \in Workers :
            pc'[u] = "run" /\ pc'[v] = "run" /\ running'[u] = running'[v] => u = v
    BY <2>1 DEF RunOnce
  <2>4. ASSUME NEW n \in 1 .. started
        PROVE  n \in done' \/ \E v \in Workers : pc'[v] = "run" /\ running'[v] = n
    BY <1>2, <1>3, <1>4 DEF RunOnce
  <2>5. QED
    BY <2>2, <2>3, <2>4 DEF RunOnce
<1>10. NoLostWakeup'
  BY <1>1, <1>2, <1>4 DEF NoLostWakeup, Waiting
<1>11. ExitedWhenDrained'
  BY <1>2, <1>4 DEF ExitedWhenDrained
<1>12. GoneWhenJoined'
  BY <1>1, <1>2, <1>4 DEF GoneWhenJoined
<1>13. QED
  BY <1>6, <1>7, <1>8, <1>9, <1>10, <1>11, <1>12

LEMMA EnqueuePushPreservesIInv ==
    ASSUME PoolIInv, NEW p \in Producers, EnqueuePush(p)
    PROVE  PoolIInv'
<1> USE DEF PoolIInv, EnqueuePush
<1>1. p \in Threads /\ p # Owner /\ Owner \in Threads
  BY PoolAssumption DEF Threads
<1>2. pc'[p] = "notify" /\ \A t \in Threads \ {p} : pc'[t] = pc[t]
  BY <1>1 DEF PoolTypeOK
<1>3. \A w \in Workers : w \in Threads /\ w # p /\ w # Owner /\ pc'[w] = pc[w]
  BY <1>2, PoolAssumption DEF Threads
<1>4. accepted \in Nat /\ started \in Nat /\ started <= accepted /\ accepted' = accepted + 1
  BY DEF PoolTypeOK
<1>5. /\ tasks' \in Seq(Nat) /\ tasks' # <<>>
      /\ tasks' = [i \in 1 .. ((accepted + 1) - started) |-> started + i]
  BY <1>4, PushKeepsOrder
<1>6. PoolTypeOK'
  <2>1. pc' \in [Threads -> WorkerPc \cup ProducerPc \cup OwnerPc]
    BY DEF PoolTypeOK, ProducerPc
  <2>2. \A q \in Producers : q \in Threads /\ pc'[q] \in ProducerPc
    BY <1>2 DEF PoolTypeOK, ProducerPc, Threads
  <2>3. accepted' \in Nat /\ started' = started /\ started' <= accepted'
    BY <1>4
  <2>4. QED
    BY <1>1, <1>2, <1>3, <1>5, <2>1, <2>2, <2>3 DEF PoolTypeOK
<1>7. StartedInOrder'
  BY <1>4, <1>5 DEF StartedInOrder
<1>8. RunOnce'
  BY <1>3 DEF RunOnce
<1>9. NoLostWakeup'
  <2>1. Waiting' = Waiting
    BY <1>3 DEF Waiting
  <2>2. QED
    BY <1>2, <2>1 DEF NoLostWakeup
<1>10. ExitedWhenDrained'
  BY <1>3 DEF ExitedWhenDrained
<1>11. DoneWasStarted'
  BY DEF DoneWasStarted
<1>12. GoneWhenJoined'
  BY <1>1, <1>2, <1>3 DEF GoneWhenJoined
<1>13. QED
  BY <1>6, <1>7, <1>8, <1>9, <1>10, <1>11, <1>12

LEMMA DestroyStopPreservesIInv ==
    ASSUME PoolIInv, DestroyStop
    PROVE  PoolIInv'
<1> USE DEF PoolIInv, DestroyStop
<1>1. Owner \in Threads /\ Owner \notin Producers
  BY PoolAssumption DEF Threads
<1>2. pc'[Owner] = "notify" /\ \A t \in Threads \ {Owner} : pc'[t] = pc[t]
  BY <1>1 DEF PoolTypeOK
<1>3. \A t \in Workers \cup Producers : t \in Threads /\ t # Owner /\ pc'[t] = pc[t]
  BY <1>2, PoolAssumption DEF Threads
<1>4. PoolTypeOK'
  <2>1. pc' \in [Threads -> WorkerPc \cup ProducerPc \cup OwnerPc]
    BY DEF PoolTypeOK, OwnerPc
  <2>2. QED
    BY <1>1, <1>2, <1>3, <2>1 DEF PoolTypeOK, OwnerPc
<1>5. StartedInOrder' /\ DoneWasStarted'
  BY DEF StartedInOrder, DoneWasStarted
<1>6. RunOnce'
  BY <1>3 DEF RunOnce
<1>7. NoLostWakeup'
  <2>1. Waiting' = Waiting
    BY <1>3 DEF Waiting
  <2>2. QED
    BY <1>2, <1>3, <2>1 DEF NoLostWakeup
<1>8. ExitedWhenDrained'
  BY <1>3 DEF ExitedWhenDrained
<1>9. GoneWhenJoined'
  BY <1>2 DEF GoneWhenJoined
<1>10. QED
  BY <1>4, <1>5, <1>6, <1>7, <1>8, <1>9

LEMMA StutterPreservesIInv == PoolIInv /\ UNCHANGED poolVars => PoolIInv'
<1> SUFFICES ASSUME PoolIInv, UNCHANGED poolVars PROVE PoolIInv'
  OBVIOUS
<1> USE DEF PoolIInv, poolVars
<1>1. PoolTypeOK'
  BY DEF PoolTypeOK
<1>2. StartedInOrder' /\ RunOnce'
  BY DEF StartedInOrder, RunOnce
<1>3. NoLostWakeup' /\ ExitedWhenDrained'
  BY DEF NoLostWakeup, Waiting, ExitedWhenDrained
<1>4. DoneWasStarted' /\ GoneWhenJoined'
  BY DEF DoneWasStarted, GoneWhenJoined
<1>5. QED
  BY <1>1, <1>2, <1>3, <1>4

LEMMA PoolStepPreservesIInv == PoolIInv /\ [PoolNext]_poolVars => PoolIInv'
<1> SUFFICES ASSUME PoolIInv, [PoolNext]_poolVars PROVE PoolIInv'
  OBVIOUS
<1>1. ASSUME NEW w \in Workers, WorkerStep(w) \/ SpuriousWakeup(w) PROVE PoolIInv'
  BY <1>1, MovesPreserveIInv, WorkerWaitPreservesIInv, WorkerExitPreservesIInv,
     WorkerTakePreservesIInv, WorkerDonePreservesIInv DEF WorkerStep
<1>2. ASSUME NEW p \in Producers, Enqueue(p) \/ ProducerStep(p) PROVE PoolIInv'
  BY <1>2, MovesPreserveIInv, EnqueuePushPreservesIInv DEF ProducerStep
<1>3. ASSUME Destroy \/ OwnerStep PROVE PoolIInv'
  BY <1>3, MovesPreserveIInv, DestroyStopPreservesIInv DEF OwnerStep
<1>4. ASSUME PoolGone \/ UNCHANGED poolVars PROVE PoolIInv'
  BY <1>4, StutterPreservesIInv DEF PoolGone
<1>5. QED
  BY <1>1, <1>2, <1>3, <1>4 DEF PoolNext

-----------------------------------------------------------------------------
(* Theorems *)

LEMMA PoolInvariant == PoolSpec => []PoolIInv
BY PoolInitEstablishesIInv, PoolStepPreservesIInv, PTL DEF PoolSpec

\* The pool's variables keep their types, and a worker has a closure exactly
\* while it runs it (Server.h:43-54).
THEOREM PoolTypeCorrect == PoolSpec => []PoolTypeOK
<1>1. PoolIInv => PoolTypeOK
  BY DEF PoolIInv
<1>2. QED
  BY <1>1, PoolInvariant, PTL

\* Tasks are started in the order in which they were accepted (Server.h:50-51, 75).
THEOREM TasksStartInOrder == PoolSpec => []StartedInOrder
<1>1. PoolIInv => StartedInOrder
  BY DEF PoolIInv
<1>2. QED
  BY <1>1, PoolInvariant, PTL

\* A task that was started is run by one worker or has returned, and never twice
\* (Server.h:44-54).
THEOREM TasksRunOnce == PoolSpec => []RunOnce
<1>1. PoolIInv => RunOnce
  BY DEF PoolIInv
<1>2. QED
  BY <1>1, PoolInvariant, PTL

\* While a worker sleeps there is neither a task nor the order to stop, or the
\* thread that brought it is about to notify (Server.h:45-48, 64, 79).
THEOREM WakeupsAreNotLost == PoolSpec => []NoLostWakeup
<1>1. PoolIInv => NoLostWakeup
  BY DEF PoolIInv
<1>2. QED
  BY <1>1, PoolInvariant, PTL

\* When the destructor has returned, every accepted task has been run
\* (Server.h:48-49, 59-67).
THEOREM NothingIsLeftBehind == PoolSpec => []DrainedWhenGone
<1>1. ASSUME PoolIInv, pc[Owner] = "gone" PROVE tasks = <<>> /\ done = 1 .. accepted
  <2>1. /\ Workers # {} /\ \A w \in Workers : pc[w] = "exit"
        /\ accepted \in Nat /\ started \in Nat
    BY <1>1, PoolAssumption DEF PoolIInv, GoneWhenJoined, PoolTypeOK
  <2>2. tasks = <<>>
    BY <1>1, <2>1 DEF PoolIInv, ExitedWhenDrained
  <2>3. accepted = started
    BY <1>1, <2>2, QueueLength DEF PoolIInv
  <2>4. 1 .. started \subseteq done
    BY <1>1, <2>1 DEF PoolIInv, RunOnce
  <2>5. QED
    BY <1>1, <2>2, <2>3, <2>4 DEF PoolIInv, DoneWasStarted
<1>2. PoolIInv => DrainedWhenGone
  BY <1>1 DEF DrainedWhenGone
<1>3. QED
  BY <1>2, PoolInvariant, PTL

-----------------------------------------------------------------------------
(* Refinement of TaskQueue *)

InProgress == {running[w] : w \in {v \in Workers : pc[v] = "run"}}
Phase == IF pc[Owner] = "gone" THEN "gone" ELSE IF stop THEN "closed" ELSE "open"

\* A pool that is gone was stopped.
LEMMA GoneIsStopped ==
    ASSUME PoolIInv, pc[Owner] = "gone"
    PROVE  stop /\ tasks = <<>> /\ \A w \in Workers : pc[w] = "exit"
BY PoolAssumption DEF PoolIInv, GoneWhenJoined, ExitedWhenDrained

\* A worker that runs nothing leaves room for one task more.
LEMMA RoomForOne ==
    ASSUME PoolIInv, NEW w \in Workers, pc[w] # "run"
    PROVE  Cardinality(InProgress) < Cardinality(Workers)
<1> DEFINE T == Workers \ {w}
           f == [n \in InProgress |-> CHOOSE v \in Workers : pc[v] = "run" /\ running[v] = n]
<1>1. ASSUME NEW n \in InProgress
      PROVE  f[n] \in T /\ running[f[n]] = n
  BY DEF InProgress
<1>2. f \in Injection(InProgress, T)
  <2>1. f \in [InProgress -> T]
    BY <1>1
  <2>2. \A m, n \in InProgress : f[m] = f[n] => m = n
    BY <1>1
  <2> HIDE DEF f
  <2>3. QED
    BY <2>1, <2>2 DEF Injection, IsInjective
<1>3. IsFiniteSet(T) /\ Cardinality(T) = Cardinality(Workers) - 1
  BY PoolAssumption, FS_RemoveElement
<1>4. IsFiniteSet(InProgress) /\ Cardinality(InProgress) <= Cardinality(T)
  BY <1>2, <1>3, FS_Injection
<1>5. Cardinality(InProgress) \in Nat /\ Cardinality(Workers) \in Nat
  BY <1>4, PoolAssumption, FS_CardinalityType
<1>6. QED
  BY <1>3, <1>4, <1>5

LEMMA InitIsQueueInit == PoolInit => Abstract!QueueInit
<1> SUFFICES ASSUME PoolInit PROVE Abstract!QueueInit
  OBVIOUS
<1>1. \A w \in Workers : pc[w] # "run"
  BY DEF PoolInit, Threads
<1>2. pc[Owner] = "idle" /\ ~stop
  BY PoolAssumption DEF PoolInit, Threads
<1>3. QED
  BY <1>1, <1>2 DEF PoolInit, Abstract!QueueInit

\* A step that shows nothing: nobody starts or ends a task and the pool is neither
\* closed nor ended.
LEMMA ShowsNothing ==
    ASSUME UNCHANGED <<stop, tasks, running, accepted, done>>,
           \A w \in Workers : pc'[w] = "run" <=> pc[w] = "run",
           pc'[Owner] = "gone" <=> pc[Owner] = "gone"
    PROVE  UNCHANGED Abstract!queueVars
<1>1. {w \in Workers : pc'[w] = "run"} = {w \in Workers : pc[w] = "run"}
  OBVIOUS
<1>2. QED
  BY <1>1 DEF Abstract!queueVars

\* What a step of one thread t to the place x does to the others' places.
LEMMA OneThreadMoves ==
    ASSUME PoolIInv, NEW t \in Threads, NEW x, pc' = [pc EXCEPT ![t] = x]
    PROVE  /\ pc'[t] = x
           /\ \A w \in Workers : w # t => pc'[w] = pc[w]
           /\ Owner # t => pc'[Owner] = pc[Owner]
BY DEF PoolIInv, PoolTypeOK, Threads

LEMMA WorkerTakeIsBegin ==
    ASSUME PoolIInv, NEW w \in Workers, WorkerTake(w)
    PROVE  Abstract!Begin
<1>1. w \in Threads /\ w # Owner
  BY PoolAssumption DEF Threads
<1>2. /\ pc'[w] = "run" /\ pc'[Owner] = pc[Owner]
      /\ \A v \in Workers : v # w => pc'[v] = pc[v]
  BY <1>1, OneThreadMoves DEF WorkerTake
<1>3. /\ running'[w] = Head(tasks)
      /\ \A v \in Workers : v # w => running'[v] = running[v]
  BY DEF WorkerTake, PoolIInv, PoolTypeOK
<1>4. tasks # <<>> /\ pc[w] # "run" /\ tasks' = Tail(tasks)
      /\ UNCHANGED <<stop, accepted, done>>
  BY DEF WorkerTake, MustWait, MustExit, Popped
<1>5. InProgress' = InProgress \cup {Head(tasks)}
  <2>1. ASSUME NEW n \in InProgress' PROVE n \in InProgress \cup {Head(tasks)}
    BY <1>2, <1>3 DEF InProgress
  <2>2. ASSUME NEW n \in InProgress PROVE n \in InProgress'
    BY <1>2, <1>3, <1>4 DEF InProgress
  <2>3. Head(tasks) \in InProgress'
    BY <1>2, <1>3 DEF InProgress
  <2>4. QED
    BY <2>1, <2>2, <2>3
<1>6. Cardinality(InProgress) < Cardinality(Workers)
  BY <1>4, RoomForOne
<1>7. QED
  BY <1>2, <1>4, <1>5, <1>6
  DEF Abstract!Begin, InProgress, Abstract!Cardinality, Cardinality

LEMMA WorkerDoneIsComplete ==
    ASSUME PoolIInv, NEW w \in Workers, WorkerDone(w)
    PROVE  Abstract!Complete
<1>1. w \in Threads /\ w # Owner
  BY PoolAssumption DEF Threads
<1>2. /\ pc[w] = "run" /\ pc'[w] = "lock" /\ pc'[Owner] = pc[Owner]
      /\ \A v \in Workers : v # w => pc'[v] = pc[v]
  BY <1>1, OneThreadMoves DEF WorkerDone
<1>3. \A v \in Workers : v # w => running'[v] = running[v]
  BY DEF WorkerDone, PoolIInv, PoolTypeOK
<1>4. \A v \in Workers : pc[v] = "run" /\ running[v] = running[w] => v = w
  BY <1>2 DEF PoolIInv, RunOnce
<1>5. InProgress' = InProgress \ {running[w]}
  <2>1. ASSUME NEW n \in InProgress' PROVE n \in InProgress /\ n # running[w]
    BY <1>2, <1>3, <1>4 DEF InProgress
  <2>2. ASSUME NEW n \in InProgress, n # running[w] PROVE n \in InProgress'
    BY <1>2, <1>3, <2>2 DEF InProgress
  <2>3. QED
    BY <2>1, <2>2
<1>6. running[w] \in InProgress
  BY <1>2 DEF InProgress
<1>7. /\ done' = done \cup {running[w]} /\ UNCHANGED <<stop, tasks, accepted>>
  BY DEF WorkerDone
<1>8. QED
  BY <1>2, <1>5, <1>6, <1>7 DEF Abstract!Complete, InProgress

LEMMA EnqueuePushIsSubmit ==
    ASSUME PoolIInv, NEW p \in Producers, EnqueuePush(p)
    PROVE  Abstract!Submit
<1>1. p \in Threads /\ p # Owner /\ p \notin Workers
  BY PoolAssumption DEF Threads
<1>2. pc'[Owner] = pc[Owner] /\ \A v \in Workers : pc'[v] = pc[v]
  BY <1>1, OneThreadMoves DEF EnqueuePush
<1>3. {v \in Workers : pc'[v] = "run"} = {v \in Workers : pc[v] = "run"}
  BY <1>2
<1>4. pc[Owner] # "gone" /\ ~stop
  BY GoneIsStopped DEF EnqueuePush
<1>5. /\ accepted' = accepted + 1 /\ tasks' = Append(tasks, accepted')
      /\ UNCHANGED <<stop, running, done>>
  BY DEF EnqueuePush, Pushed
<1>6. QED
  BY <1>2, <1>3, <1>4, <1>5 DEF Abstract!Submit

LEMMA OwnerStepShown ==
    ASSUME PoolIInv, Destroy \/ OwnerStep
    PROVE  [Abstract!QueueNext]_(Abstract!queueVars)
<1>1. Owner \in Threads /\ Owner \notin Workers
  BY PoolAssumption DEF Threads
<1>2. CASE Destroy \/ DestroyLock
  <2>1. \E x : pc' = [pc EXCEPT ![Owner] = x] /\ x # "gone"
    BY <1>2 DEF Destroy, DestroyLock, Acquire
  <2>2. pc[Owner] # "gone" /\ UNCHANGED <<stop, tasks, running, accepted, done>>
    BY <1>2 DEF Destroy, DestroyLock, Acquire
  <2>3. pc'[Owner] # "gone" /\ \A w \in Workers : pc'[w] = pc[w]
    BY <1>1, <2>1, OneThreadMoves
  <2>4. QED
    BY <2>2, <2>3, ShowsNothing
<1>3. CASE DestroyNotify
  <2>1. /\ pc'[Owner] = "join" /\ pc[Owner] = "notify"
        /\ \A w \in Workers : pc'[w] = "run" <=> pc[w] = "run"
    BY <1>1, <1>3 DEF DestroyNotify, NotifyAll, Waiting, Threads
  <2>2. QED
    BY <1>3, <2>1, ShowsNothing DEF DestroyNotify, NotifyAll
<1>4. CASE DestroyStop
  <2>1. /\ pc'[Owner] = "notify" /\ pc[Owner] = "stop"
        /\ \A w \in Workers : pc'[w] = pc[w]
    BY <1>1, <1>4, OneThreadMoves DEF DestroyStop
  <2>2. {v \in Workers : pc'[v] = "run"} = {v \in Workers : pc[v] = "run"}
    BY <2>1
  <2>3. stop' = TRUE /\ UNCHANGED <<tasks, running, accepted, done>>
    BY <1>4 DEF DestroyStop
  <2>4. CASE stop
    BY <2>1, <2>2, <2>3, <2>4, ShowsNothing DEF PoolIInv, PoolTypeOK
  <2>5. CASE ~stop
    BY <2>1, <2>2, <2>3, <2>5 DEF Abstract!QueueNext, Abstract!Close
  <2>6. QED
    BY <2>4, <2>5
<1>5. CASE DestroyJoin
  <2>1. /\ pc'[Owner] = "gone" /\ pc[Owner] = "join"
        /\ \A w \in Workers : pc'[w] = pc[w] /\ pc[w] = "exit"
    BY <1>1, <1>5, OneThreadMoves DEF DestroyJoin
  <2>2. stop /\ tasks = <<>>
    BY <2>1, PoolAssumption DEF PoolIInv, ExitedWhenDrained
  <2>3. /\ {v \in Workers : pc'[v] = "run"} = {v \in Workers : pc[v] = "run"}
        /\ {v \in Workers : pc[v] = "run"} = {}
    BY <2>1
  <2>4. UNCHANGED <<stop, tasks, running, accepted, done>>
    BY <1>5 DEF DestroyJoin
  <2>5. Abstract!End
    BY <2>1, <2>2, <2>3, <2>4 DEF Abstract!End
  <2>6. QED
    BY <2>5 DEF Abstract!QueueNext
<1>6. QED
  BY <1>2, <1>3, <1>4, <1>5 DEF OwnerStep

LEMMA WorkerStepShown ==
    ASSUME PoolIInv, NEW w \in Workers, WorkerStep(w) \/ SpuriousWakeup(w)
    PROVE  [Abstract!QueueNext]_(Abstract!queueVars)
<1>1. w \in Threads /\ w # Owner
  BY PoolAssumption DEF Threads
<1>2. CASE WorkerLock(w) \/ WorkerWait(w) \/ WorkerExit(w) \/ SpuriousWakeup(w)
  <2>1. /\ \E x : pc' = [pc EXCEPT ![w] = x] /\ x # "run"
        /\ pc[w] # "run" /\ UNCHANGED <<stop, tasks, running, accepted, done>>
    BY <1>2 DEF WorkerLock, Acquire, WorkerWait, WorkerExit, SpuriousWakeup
  <2>2. /\ pc'[w] # "run" /\ pc'[Owner] = pc[Owner]
        /\ \A v \in Workers : v # w => pc'[v] = pc[v]
    BY <1>1, <2>1, OneThreadMoves
  <2>3. QED
    BY <2>1, <2>2, ShowsNothing
<1>3. CASE WorkerTake(w)
  BY <1>3, WorkerTakeIsBegin DEF Abstract!QueueNext
<1>4. CASE WorkerDone(w)
  BY <1>4, WorkerDoneIsComplete DEF Abstract!QueueNext
<1>5. QED
  BY <1>2, <1>3, <1>4 DEF WorkerStep

LEMMA ProducerStepShown ==
    ASSUME PoolIInv, NEW p \in Producers, Enqueue(p) \/ ProducerStep(p)
    PROVE  [Abstract!QueueNext]_(Abstract!queueVars)
<1>1. p \in Threads /\ p # Owner /\ p \notin Workers
  BY PoolAssumption DEF Threads
<1>2. CASE Enqueue(p) \/ EnqueueLock(p) \/ EnqueueThrow(p)
  <2>1. /\ \E x : pc' = [pc EXCEPT ![p] = x]
        /\ UNCHANGED <<stop, tasks, running, accepted, done>>
    BY <1>2 DEF Enqueue, EnqueueLock, Acquire, EnqueueThrow
  <2>2. pc'[Owner] = pc[Owner] /\ \A v \in Workers : pc'[v] = pc[v]
    BY <1>1, <2>1, OneThreadMoves
  <2>3. QED
    BY <2>1, <2>2, ShowsNothing
<1>3. CASE EnqueueNotify(p)
  <2>1. /\ pc'[Owner] = "gone" <=> pc[Owner] = "gone"
        /\ \A w \in Workers : pc'[w] = "run" <=> pc[w] = "run"
    BY <1>1, <1>3, PoolAssumption DEF EnqueueNotify, NotifyAll, Waiting, Threads
  <2>2. QED
    BY <1>3, <2>1, ShowsNothing DEF EnqueueNotify, NotifyAll
<1>4. CASE EnqueuePush(p)
  BY <1>4, EnqueuePushIsSubmit DEF Abstract!QueueNext
<1>5. QED
  BY <1>2, <1>3, <1>4 DEF ProducerStep

\* However many workers, producers and tasks there are, the pool is a first-in
\* first-out queue served by as many servers as it has workers: mutex, condition
\* variable and wakeups show only in who runs when (Server.h:36-88).
THEOREM PoolImplementsTaskQueue == PoolSpec => ImplementsTaskQueue
<1>1. PoolIInv /\ [PoolNext]_poolVars => [Abstract!QueueNext]_(Abstract!queueVars)
  <2>1. ASSUME PoolGone \/ UNCHANGED poolVars
        PROVE  UNCHANGED Abstract!queueVars
    BY <2>1 DEF PoolGone, poolVars, Abstract!queueVars
  <2>2. QED
    BY <2>1, WorkerStepShown, ProducerStepShown, OwnerStepShown DEF PoolNext
<1>2. QED
  BY <1>1, InitIsQueueInit, PoolInvariant, PTL
  DEF PoolSpec, ImplementsTaskQueue, Abstract!QueueSpec

=============================================================================
