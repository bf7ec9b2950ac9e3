----------------------------- MODULE HttpProofs -----------------------------
(***************************************************************************)
(* Theorems about HttpServer and HttpTraffic, for any number of workers,   *)
(* clients and requests.                                                   *)
(*                                                                         *)
(* A step of the server is a step of its pool or leaves the pool alone, so *)
(* the pool's invariant holds here too.  What the accept thread does rests *)
(* on two facts: where it is in Server::Run determines where it is in      *)
(* Enqueue and how many of the requests it has queued, and the pool it     *)
(* calls is not being destroyed.                                           *)
(***************************************************************************)
EXTENDS HttpTraffic, ThreadpoolProofs

Requests == [path : Paths, agent : Agents]
Bodies == [step : {"none", "path", "addPath", "agent", "addAgent", "print"},
           key : Strings, seen : Nat]
Stages == {"boot", "failed", "accept", "recv", "send", "queue", "enqueue", "close"}

AcceptTypes ==
    /\ at \in Stages
    /\ socket \subseteq Nat /\ client \in Nat
    /\ closes \in 0 .. (IF at = "accept" THEN 3 ELSE 2)
    /\ requests \in Seq(Requests)

TaskTypes ==
    /\ body \in [Workers -> Bodies]
    /\ \A w \in Workers : (body[w].step = "none") <=> (pc[w] # "run")
    /\ hits \in [Strings -> Nat]
    /\ counted \in [Strings -> Nat]

\* Where the accept thread is in Enqueue, and the requests it has queued.
CallInHand ==
    /\ at = "enqueue" \/ pc[Acceptor] = "idle"
    /\ at = "enqueue" => pc[Acceptor] \in {"lock", "push", "notify"}
    /\ at \in {"boot", "failed", "accept", "recv", "close"} => accepted = Len(requests)
    /\ at \in {"send", "queue"} => accepted + 1 = Len(requests)
    /\ at = "enqueue" =>
          accepted + (IF pc[Acceptor] = "notify" THEN 0 ELSE 1) = Len(requests)

\* The pool is destroyed only by a constructor that fails.
PoolInUse == at # "failed" => pc[Owner] = "idle" /\ ~stop

HttpIInv ==
    /\ PoolIInv
    /\ AcceptTypes
    /\ TaskTypes
    /\ ConnectionsClosed
    /\ CallInHand
    /\ PoolInUse

-----------------------------------------------------------------------------
(* The server and its pool *)

\* The accept thread is a producer, neither a worker nor the owner.
LEMMA AcceptorProduces ==
    /\ Acceptor \in Producers /\ Acceptor \in Threads
    /\ Acceptor \notin Workers /\ Acceptor # Owner
    /\ Owner \in Threads /\ Owner \notin Workers
    /\ \A w \in Workers : w \in Threads
BY HttpAssumption, PoolAssumption DEF Threads

\* What the server does with its pool the pool allows.
LEMMA ServerUsesPool ==
    ASSUME [HttpNext]_<<poolVars, httpVars>>
    PROVE  [PoolNext]_poolVars
<1>1. CASE UNCHANGED <<poolVars, httpVars>>
  BY <1>1
<1>2. CASE ListenFails
  BY <1>2 DEF ListenFails, PoolNext
<1>3. CASE Listen \/ Accept \/ ReceiveFails \/ RejectRequest \/ ReceiveRequest
  BY <1>3 DEF Listen, Accept, ReceiveFails, RejectRequest, ReceiveRequest
<1>4. CASE Serving
  BY <1>4, AcceptorProduces
  DEF Serving, SendResponse, ProcessData, Enqueuing, CloseClient, PoolNext, ProducerStep
<1>5. CASE \E w \in Workers : HttpWorker(w)
  BY <1>5
  DEF HttpWorker, PoolLoop, TakeClosure, FindHits, AddHits, PrintLine, PoolNext, WorkerStep
<1>6. CASE \E w \in Workers : SpuriousWakeup(w)
  BY <1>6 DEF PoolNext
<1>7. CASE OwnerStep \/ PoolGone
  BY <1>7 DEF PoolNext
<1>8. QED
  BY <1>1, <1>2, <1>3, <1>4, <1>5, <1>6, <1>7 DEF HttpNext

\* While no worker takes a task or returns from one, the closures are as the pool
\* says they are.
LEMMA ClosuresKept ==
    ASSUME HttpIInv, PoolIInv', UNCHANGED <<running, taskVars>>
    PROVE  TaskTypes'
<1>1. \A w \in Workers : (pc[w] = "run") <=> (pc'[w] = "run")
  BY DEF HttpIInv, PoolIInv, PoolTypeOK
<1>2. QED
  BY <1>1 DEF HttpIInv, TaskTypes, taskVars

-----------------------------------------------------------------------------
(* The invariant holds at the start *)

LEMMA HttpInitEstablishesIInv == HttpInit => HttpIInv
<1> SUFFICES ASSUME HttpInit PROVE HttpIInv
  OBVIOUS
<1>1. PoolIInv
  BY PoolInitEstablishesIInv DEF HttpInit
<1>2. \A t \in Threads : pc[t] = (IF t \in Workers THEN "lock" ELSE "idle")
  BY DEF HttpInit, PoolInit
<1>3. requests \in Seq(Requests) /\ Len(requests) = 0
  <2>1. requests = <<>>
    BY DEF HttpInit
  <2>2. QED
    BY <2>1
<1>4. AcceptTypes
  BY <1>3 DEF HttpInit, AcceptTypes, Stages
<1>5. TaskTypes
  <2>1. NoBody \in Bodies /\ NoBody.step = "none"
    BY DEF NoBody, Bodies, Strings
  <2>2. body = [w \in Workers |-> NoBody]
    BY DEF HttpInit
  <2>3. \A w \in Workers : pc[w] = "lock"
    BY <1>2, AcceptorProduces
  <2>4. QED
    BY <2>1, <2>2, <2>3 DEF HttpInit, TaskTypes
<1>6. ConnectionsClosed
  BY DEF HttpInit, ConnectionsClosed
<1>7. CallInHand /\ PoolInUse
  BY <1>2, <1>3, AcceptorProduces DEF HttpInit, PoolInit, CallInHand, PoolInUse
<1>8. QED
  BY <1>1, <1>4, <1>5, <1>6, <1>7 DEF HttpIInv

-----------------------------------------------------------------------------
(* Every step preserves it *)

\* Starting up, well or not.
LEMMA BootPreservesIInv ==
    ASSUME HttpIInv, PoolIInv', Listen \/ ListenFails
    PROVE  HttpIInv'
<1>1. UNCHANGED <<running, taskVars, accepted, stop, socket, client, closes, requests>> /\ at = "boot"
  BY DEF Listen, ListenFails, Destroy, poolVars
<1>2. pc'[Acceptor] = pc[Acceptor]
  BY AcceptorProduces DEF Listen, ListenFails, Destroy, poolVars, HttpIInv, PoolIInv, PoolTypeOK
<1>3. at' \in {"accept", "failed"} /\ (at' = "accept" => UNCHANGED pc)
  BY DEF Listen, ListenFails, poolVars
<1>4. AcceptTypes'
  BY <1>1, <1>3 DEF HttpIInv, AcceptTypes, Stages
<1>5. TaskTypes'
  BY <1>1, ClosuresKept
<1>6. ConnectionsClosed'
  BY <1>1, <1>3 DEF HttpIInv, ConnectionsClosed
<1>7. CallInHand' /\ PoolInUse'
  BY <1>1, <1>2, <1>3 DEF HttpIInv, CallInHand, PoolInUse
<1>8. QED
  BY <1>4, <1>5, <1>6, <1>7 DEF HttpIInv

\* A connection is taken when none is open.
LEMMA AcceptPreservesIInv ==
    ASSUME HttpIInv, PoolIInv', Accept
    PROVE  HttpIInv'
<1>1. UNCHANGED <<running, taskVars, accepted, stop, pc, requests>>
  BY DEF Accept, poolVars
<1>2. socket = {} /\ at = "accept" /\ at' = "recv" /\ closes' = 0
  BY DEF Accept, HttpIInv, ConnectionsClosed
<1>3. client' \in 1 .. (Cardinality(socket) + 1)
  <2>1. Cardinality(socket) = 0
    BY <1>2, FS_EmptySet
  <2>2. 1 \in 1 .. (Cardinality(socket) + 1) /\ 1 \notin socket
        /\ \A e \in 1 .. (1 - 1) : e \in socket
    BY <1>2, <2>1
  <2>3. QED
    BY <2>2 DEF Accept
<1>4. client' \in Nat \ {0} /\ socket' = {client'}
  BY <1>2, <1>3, FS_EmptySet DEF Accept
<1>5. AcceptTypes'
  BY <1>1, <1>2, <1>4 DEF HttpIInv, AcceptTypes, Stages
<1>6. TaskTypes'
  BY <1>1, ClosuresKept
<1>7. ConnectionsClosed'
  BY <1>2, <1>4 DEF ConnectionsClosed
<1>8. CallInHand' /\ PoolInUse'
  BY <1>1, <1>2 DEF HttpIInv, CallInHand, PoolInUse
<1>9. QED
  BY <1>5, <1>6, <1>7, <1>8 DEF HttpIInv

\* A request ends before it is queued, or after.
LEMMA HangUpPreservesIInv ==
    ASSUME HttpIInv, PoolIInv', ReceiveFails \/ RejectRequest \/ CloseClient
    PROVE  HttpIInv'
<1>1. /\ UNCHANGED <<running, taskVars, accepted, stop, pc, requests, client>>
      /\ at \in {"recv", "close"} /\ at' = "accept"
      /\ socket' = socket \ {client} /\ closes' = closes + 1
  BY DEF ReceiveFails, RejectRequest, CloseClient, Closing, poolVars
<1>2. AcceptTypes'
  BY <1>1 DEF HttpIInv, AcceptTypes, Stages
<1>3. TaskTypes'
  BY <1>1, ClosuresKept
<1>4. ConnectionsClosed'
  <2>1. socket \subseteq {client} /\ closes \in Nat
    BY <1>1 DEF HttpIInv, AcceptTypes, ConnectionsClosed
  <2>2. socket' = {} /\ closes' > 0
    BY <1>1, <2>1
  <2>3. QED
    BY <1>1, <2>2 DEF ConnectionsClosed
<1>5. CallInHand' /\ PoolInUse'
  BY <1>1 DEF HttpIInv, CallInHand, PoolInUse
<1>6. QED
  BY <1>2, <1>3, <1>4, <1>5 DEF HttpIInv

\* A request arrives and is answered.
LEMMA AnswerPreservesIInv ==
    ASSUME HttpIInv, PoolIInv', ReceiveRequest \/ SendResponse
    PROVE  HttpIInv'
<1>1. UNCHANGED <<running, taskVars, accepted, stop, pc, client>>
  BY DEF ReceiveRequest, SendResponse, poolVars
<1>2. CASE ReceiveRequest
  <2>1. PICK r \in Requests : requests' = Append(requests, r)
    <3>1. PICK path \in Paths, agent \in Agents :
            requests' = Append(requests, [path |-> path, agent |-> agent])
      BY <1>2 DEF ReceiveRequest
    <3>2. [path |-> path, agent |-> agent] \in Requests
      BY DEF Requests
    <3>3. QED
      BY <3>1, <3>2
  <2>2. requests' \in Seq(Requests) /\ Len(requests') = Len(requests) + 1
    BY <2>1, AppendProperties DEF HttpIInv, AcceptTypes
  <2>3. at = "recv" /\ at' = "send" /\ socket' = socket /\ closes' = closes
    BY <1>2 DEF ReceiveRequest
  <2>4. AcceptTypes'
    BY <1>1, <2>2, <2>3 DEF HttpIInv, AcceptTypes, Stages
  <2>5. TaskTypes'
    BY <1>1, ClosuresKept
  <2>6. ConnectionsClosed'
    BY <1>1, <2>3 DEF HttpIInv, ConnectionsClosed
  <2>7. CallInHand' /\ PoolInUse'
    BY <1>1, <2>2, <2>3 DEF HttpIInv, CallInHand, PoolInUse
  <2>8. QED
    BY <2>4, <2>5, <2>6, <2>7 DEF HttpIInv
<1>3. CASE SendResponse
  <2>1. /\ at = "send" /\ at' = "queue" /\ requests' = requests
        /\ \/ socket' = socket /\ closes' = closes
           \/ socket' = socket \ {client} /\ closes' \in {closes + 1, closes + 2}
        /\ socket = {client} /\ closes = 0
    BY <1>3 DEF SendResponse, Closing, HttpIInv, ConnectionsClosed, AcceptTypes
  <2>2. AcceptTypes'
    BY <1>1, <2>1 DEF HttpIInv, AcceptTypes, Stages
  <2>3. TaskTypes'
    BY <1>1, ClosuresKept
  <2>4. ConnectionsClosed'
    BY <1>1, <2>1 DEF HttpIInv, ConnectionsClosed
  <2>5. CallInHand' /\ PoolInUse'
    BY <1>1, <2>1 DEF HttpIInv, CallInHand, PoolInUse
  <2>6. QED
    BY <2>2, <2>3, <2>4, <2>5 DEF HttpIInv
<1>4. QED
  BY <1>2, <1>3

\* The request is queued: nobody destroys the pool meanwhile, so Enqueue does not
\* throw and the request is counted once.
LEMMA QueuePreservesIInv ==
    ASSUME HttpIInv, PoolIInv', ProcessData \/ Enqueuing
    PROVE  HttpIInv'
<1>1. UNCHANGED <<taskVars, running, stop, socket, client, closes, requests>>
  BY DEF ProcessData, Enqueuing, Enqueue, EnqueueLock, Acquire, EnqueuePush, EnqueueThrow,
         EnqueueNotify, NotifyAll
<1>2. pc \in [Threads -> WorkerPc \cup ProducerPc \cup OwnerPc] /\ ~EnqueueThrow(Acceptor)
      /\ accepted \in Nat
  BY DEF HttpIInv, PoolIInv, PoolTypeOK, PoolInUse, ProcessData, Enqueuing, EnqueueThrow
<1>3. pc'[Owner] = pc[Owner]
  BY <1>2, AcceptorProduces
  DEF ProcessData, Enqueuing, Enqueue, EnqueueLock, Acquire, EnqueuePush, EnqueueNotify,
      NotifyAll, Waiting
<1>4. \/ /\ at = "queue" /\ at' = "enqueue" /\ accepted' = accepted
         /\ pc'[Acceptor] = "lock"
      \/ /\ at = "enqueue" /\ at' = "enqueue" /\ accepted' = accepted
         /\ pc[Acceptor] = "lock" /\ pc'[Acceptor] = "push"
      \/ /\ at = "enqueue" /\ at' = "enqueue" /\ accepted' = accepted + 1
         /\ pc[Acceptor] = "push" /\ pc'[Acceptor] = "notify"
      \/ /\ at = "enqueue" /\ at' = "close" /\ accepted' = accepted
         /\ pc[Acceptor] = "notify" /\ pc'[Acceptor] = "idle"
  BY <1>2, AcceptorProduces
  DEF ProcessData, Enqueuing, Enqueue, EnqueueLock, Acquire, EnqueuePush, EnqueueNotify, NotifyAll
<1>5. AcceptTypes'
  BY <1>1, <1>4 DEF HttpIInv, AcceptTypes, Stages
<1>6. TaskTypes'
  BY <1>1, ClosuresKept
<1>7. ConnectionsClosed'
  BY <1>1, <1>4 DEF HttpIInv, ConnectionsClosed
<1>8. CallInHand'
  BY <1>1, <1>2, <1>4 DEF HttpIInv, CallInHand
<1>9. PoolInUse'
  BY <1>1, <1>3, <1>4 DEF HttpIInv, PoolInUse
<1>10. QED
  BY <1>5, <1>6, <1>7, <1>8, <1>9 DEF HttpIInv

\* A worker's step leaves the accept thread and the owner alone.
LEMMA WorkersKeepOut ==
    ASSUME HttpIInv, NEW w \in Workers, WorkerStep(w) \/ SpuriousWakeup(w),
           UNCHANGED acceptVars
    PROVE  AcceptTypes' /\ ConnectionsClosed' /\ CallInHand' /\ PoolInUse'
<1>1. pc \in [Threads -> WorkerPc \cup ProducerPc \cup OwnerPc]
  BY DEF HttpIInv, PoolIInv, PoolTypeOK
<1>2. pc'[Acceptor] = pc[Acceptor] /\ pc'[Owner] = pc[Owner]
  BY <1>1, AcceptorProduces
  DEF WorkerStep, WorkerLock, Acquire, WorkerWait, WorkerExit, WorkerTake, WorkerDone,
      SpuriousWakeup
<1>3. UNCHANGED <<accepted, stop>>
  BY DEF WorkerStep, WorkerLock, Acquire, WorkerWait, WorkerExit, WorkerTake, WorkerDone,
         SpuriousWakeup
<1>4. UNCHANGED <<at, socket, client, closes, requests>>
  BY DEF acceptVars
<1>5. AcceptTypes' /\ ConnectionsClosed'
  BY <1>4 DEF HttpIInv, AcceptTypes, ConnectionsClosed
<1>6. CallInHand' /\ PoolInUse'
  BY <1>2, <1>3, <1>4 DEF HttpIInv, CallInHand, PoolInUse
<1>7. QED
  BY <1>5, <1>6

\* A closure is begun and left.
LEMMA ClosurePreservesIInv ==
    ASSUME HttpIInv, PoolIInv', NEW w \in Workers, TakeClosure(w) \/ PrintLine(w)
    PROVE  HttpIInv'
<1>1. AcceptTypes' /\ ConnectionsClosed' /\ CallInHand' /\ PoolInUse'
  <2>1. WorkerStep(w) /\ UNCHANGED acceptVars
    BY DEF TakeClosure, PrintLine, WorkerStep
  <2>2. QED
    BY <2>1, WorkersKeepOut
<1>2. PICK step \in {"none", "path"} :
        /\ body' = [body EXCEPT ![w] = [step |-> step, key |-> Junk, seen |-> 0]]
        /\ step = "none" <=> pc'[w] # "run"
        /\ \A v \in Workers \ {w} : pc'[v] = pc[v]
  <2>1. pc \in [Threads -> WorkerPc \cup ProducerPc \cup OwnerPc]
    BY DEF HttpIInv, PoolIInv, PoolTypeOK
  <2>2. CASE TakeClosure(w)
    BY <2>1, <2>2, AcceptorProduces DEF TakeClosure, Goto, WorkerTake
  <2>3. CASE PrintLine(w)
    BY <2>1, <2>3, AcceptorProduces DEF PrintLine, WorkerDone, NoBody
  <2>4. QED
    BY <2>2, <2>3
<1>3. [step |-> step, key |-> Junk, seen |-> 0] \in Bodies
  BY DEF Bodies, Strings
<1>4. UNCHANGED <<hits, counted>>
  BY DEF TakeClosure, PrintLine
<1>5. TaskTypes'
  BY <1>2, <1>3, <1>4 DEF HttpIInv, TaskTypes
<1>6. QED
  BY <1>1, <1>5 DEF HttpIInv

\* Whatever a reference reads, it is a string.
LEMMA DerefTypes ==
    ASSUME HttpIInv, NEW w \in Workers, pc[w] = "run", NEW field \in {"path", "agent"}
    PROVE  Deref(w, field) \subseteq Strings
<1>1. \A n \in 1 .. Len(requests) : requests[n] \in Requests
  BY DEF HttpIInv, AcceptTypes
<1>2. \A n \in 1 .. Len(requests) : requests[n][field] \in Strings
  BY <1>1 DEF Requests, Strings
<1>3. running[w] \in Nat \ {0}
  BY DEF HttpIInv, PoolIInv, PoolTypeOK
<1>4. ASSUME Frame = running[w] PROVE running[w] \in 1 .. Len(requests)
  BY <1>3, <1>4 DEF Frame, HttpIInv, AcceptTypes
<1>5. QED
  BY <1>2, <1>4 DEF Deref, Strings

\* A count is read and written.
LEMMA CountPreservesIInv ==
    ASSUME HttpIInv, PoolIInv', NEW w \in Workers, FindHits(w) \/ AddHits(w)
    PROVE  HttpIInv'
<1>1. UNCHANGED <<poolVars, acceptVars>>
  BY DEF FindHits, AddHits
<1>2. AcceptTypes' /\ ConnectionsClosed' /\ CallInHand' /\ PoolInUse'
  BY <1>1 DEF poolVars, acceptVars, HttpIInv, AcceptTypes, ConnectionsClosed, CallInHand, PoolInUse
<1>3. body[w] \in Bodies /\ pc' = pc
  BY <1>1 DEF poolVars, HttpIInv, TaskTypes
<1>4. pc[w] = "run"
  BY DEF HttpIInv, TaskTypes, FindHits, AddHits
<1>5. /\ hits' \in [Strings -> Nat] /\ counted' \in [Strings -> Nat]
      /\ \E step \in {"path", "addPath", "agent", "addAgent", "print"}, key \in Strings,
            seen \in Nat : Goto(w, step, key, seen)
  <2>1. CASE FindHits(w)
    <3>1. Deref(w, "path") \subseteq Strings /\ Deref(w, "agent") \subseteq Strings
      BY <1>4, DerefTypes
    <3>2. \A s \in Strings : hits[s] \in Nat
      BY DEF HttpIInv, TaskTypes
    <3>3. QED
      BY <2>1, <3>1, <3>2 DEF FindHits, HttpIInv, TaskTypes
  <2>2. CASE AddHits(w)
    <3>1. body[w].key \in Strings /\ Incremented(body[w].seen) \in Nat
      BY <1>3 DEF Bodies, Incremented
    <3>2. hits' \in [Strings -> Nat] /\ counted' \in [Strings -> Nat]
      BY <2>2, <3>1 DEF AddHits, HttpIInv, TaskTypes
    <3>3. Junk \in Strings
      BY DEF Strings
    <3>4. QED
      BY <2>2, <3>2, <3>3 DEF AddHits
  <2>3. QED
    BY <2>1, <2>2
<1>6. TaskTypes'
  <2>1. PICK step \in {"path", "addPath", "agent", "addAgent", "print"}, key \in Strings,
             seen \in Nat : body' = [body EXCEPT ![w] = [step |-> step, key |-> key, seen |-> seen]]
    BY <1>5 DEF Goto
  <2>2. [step |-> step, key |-> key, seen |-> seen] \in Bodies
    BY DEF Bodies
  <2>3. QED
    BY <1>3, <1>4, <1>5, <2>1, <2>2 DEF HttpIInv, TaskTypes
<1>7. QED
  BY <1>2, <1>6 DEF HttpIInv

\* A worker between two closures.
LEMMA LoopPreservesIInv ==
    ASSUME HttpIInv, PoolIInv', NEW w \in Workers, PoolLoop(w) \/ SpuriousWakeup(w),
           UNCHANGED httpVars
    PROVE  HttpIInv'
<1>1. UNCHANGED <<running, taskVars, acceptVars>>
  BY DEF PoolLoop, WorkerLock, Acquire, WorkerWait, WorkerExit, SpuriousWakeup,
         httpVars, taskVars, acceptVars
<1>2. AcceptTypes' /\ ConnectionsClosed' /\ CallInHand' /\ PoolInUse'
  BY <1>1, WorkersKeepOut DEF PoolLoop, WorkerStep
<1>3. TaskTypes'
  BY <1>1, ClosuresKept
<1>4. QED
  BY <1>2, <1>3 DEF HttpIInv

\* The destructor runs only after a constructor that failed.
LEMMA DestroyPreservesIInv ==
    ASSUME HttpIInv, PoolIInv', OwnerStep \/ PoolGone, UNCHANGED httpVars
    PROVE  HttpIInv'
<1>1. UNCHANGED <<running, accepted, at, socket, client, closes, requests, taskVars>>
  BY DEF OwnerStep, DestroyLock, Acquire, DestroyStop, DestroyNotify, NotifyAll, DestroyJoin,
         PoolGone, poolVars, httpVars, taskVars
<1>2. at = "failed"
  BY DEF OwnerStep, DestroyLock, Acquire, DestroyStop, DestroyNotify, DestroyJoin, PoolGone,
         HttpIInv, PoolInUse
<1>3. pc \in [Threads -> WorkerPc \cup ProducerPc \cup OwnerPc]
  BY DEF HttpIInv, PoolIInv, PoolTypeOK
<1>4. pc'[Acceptor] = pc[Acceptor]
  BY <1>3, AcceptorProduces
  DEF OwnerStep, DestroyLock, Acquire, DestroyStop, DestroyNotify, NotifyAll, DestroyJoin,
      PoolGone, poolVars, Waiting
<1>5. AcceptTypes' /\ ConnectionsClosed'
  BY <1>1 DEF HttpIInv, AcceptTypes, ConnectionsClosed
<1>6. TaskTypes'
  BY <1>1, ClosuresKept
<1>7. CallInHand' /\ PoolInUse'
  BY <1>1, <1>2, <1>4 DEF HttpIInv, CallInHand, PoolInUse
<1>8. QED
  BY <1>5, <1>6, <1>7 DEF HttpIInv

LEMMA HttpStepPreservesIInv == HttpIInv /\ [HttpNext]_<<poolVars, httpVars>> => HttpIInv'
<1> SUFFICES ASSUME HttpIInv, [HttpNext]_<<poolVars, httpVars>> PROVE HttpIInv'
  OBVIOUS
<1>1. PoolIInv'
  BY ServerUsesPool, PoolStepPreservesIInv DEF HttpIInv
<1>2. CASE UNCHANGED <<poolVars, httpVars>>
  <2>1. UNCHANGED <<running, taskVars, at, socket, client, closes, requests, accepted, stop, pc>>
    BY <1>2 DEF poolVars, httpVars, taskVars
  <2>2. TaskTypes'
    BY <1>1, <2>1, ClosuresKept
  <2>3. QED
    BY <1>1, <2>1, <2>2 DEF HttpIInv, AcceptTypes, ConnectionsClosed, CallInHand, PoolInUse
<1>3. CASE Listen \/ ListenFails
  BY <1>1, <1>3, BootPreservesIInv
<1>4. CASE Accept
  BY <1>1, <1>4, AcceptPreservesIInv
<1>5. CASE ReceiveFails \/ RejectRequest \/ CloseClient
  BY <1>1, <1>5, HangUpPreservesIInv
<1>6. CASE ReceiveRequest \/ SendResponse
  BY <1>1, <1>6, AnswerPreservesIInv
<1>7. CASE ProcessData \/ Enqueuing
  BY <1>1, <1>7, QueuePreservesIInv
<1>8. ASSUME NEW w \in Workers, HttpWorker(w) PROVE HttpIInv'
  <2>1. CASE PoolLoop(w)
    BY <1>1, <2>1, LoopPreservesIInv DEF PoolLoop
  <2>2. CASE TakeClosure(w) \/ PrintLine(w)
    BY <1>1, <2>2, ClosurePreservesIInv
  <2>3. CASE FindHits(w) \/ AddHits(w)
    BY <1>1, <2>3, CountPreservesIInv
  <2>4. QED
    BY <1>8, <2>1, <2>2, <2>3 DEF HttpWorker
<1>9. ASSUME NEW w \in Workers, SpuriousWakeup(w), UNCHANGED httpVars PROVE HttpIInv'
  BY <1>1, <1>9, LoopPreservesIInv
<1>10. CASE (OwnerStep \/ PoolGone) /\ UNCHANGED httpVars
  BY <1>1, <1>10, DestroyPreservesIInv
<1>11. QED
  BY <1>2, <1>3, <1>4, <1>5, <1>6, <1>7, <1>8, <1>9, <1>10 DEF HttpNext, Serving

LEMMA HttpInvariant == HttpSpec => []HttpIInv
BY HttpInitEstablishesIInv, HttpStepPreservesIInv, PTL DEF HttpSpec

LEMMA HttpTypesFollow == HttpIInv => HttpTypeOK
BY DEF HttpIInv, PoolIInv, AcceptTypes, TaskTypes, HttpTypeOK, Stages, Requests, Bodies

\* The server's variables keep their types, and a worker is inside a closure exactly
\* while the pool says so (Server.h:53, 245-257), whatever the dangling references
\* of the closure read.
THEOREM HttpTypeCorrect == HttpSpec => []HttpTypeOK
BY HttpInvariant, HttpTypesFollow, PTL

\* Between two requests no connection is open, whatever became of the requests, and
\* no second or third close of one takes another's away (Server.h:182-261).
THEOREM NoConnectionLeaks == HttpSpec => []ConnectionsClosed
<1>1. HttpIInv => ConnectionsClosed
  BY DEF HttpIInv
<1>2. QED
  BY <1>1, HttpInvariant, PTL

-----------------------------------------------------------------------------
(* The clients and their connections *)

Conns == [client : Clients, isPost : BOOLEAN, whole : BOOLEAN,
          left : BOOLEAN, reply : BOOLEAN, closed : BOOLEAN]

\* The connection in the accept thread's hands: a request gets its reply only when
\* it is a GET that has arrived whole.
TakenInHand ==
    /\ conns \in Seq(Conns)
    /\ taken \in 0 .. Len(conns)
    /\ at \notin {"boot", "failed", "accept"} => taken # 0
    /\ at = "send" => conns[taken].whole /\ ~conns[taken].isPost
    /\ \A k \in 1 .. Len(conns) :
          conns[k].reply => k <= taken /\ conns[k].whole /\ ~conns[k].isPost

\* With its clients the server does what it does alone.
LEMMA TrafficIsServer ==
    ASSUME [TrafficNext]_allVars
    PROVE  [HttpNext]_<<poolVars, httpVars>>
<1>1. CASE UNCHANGED allVars
  BY <1>1 DEF allVars
<1>2. CASE \E c \in Clients : UNCHANGED <<poolVars, httpVars, taken>>
  BY <1>2
<1>3. CASE AcceptThread
  BY <1>3
  DEF AcceptThread, AcceptNext, Receive, Reply, Queue, Close, HttpNext, Serving
<1>4. CASE \E w \in Workers : HttpWorker(w)
  BY <1>4 DEF HttpNext
<1>5. CASE \E w \in Workers : SpuriousWakeup(w) /\ UNCHANGED httpVars
  BY <1>5 DEF HttpNext
<1>6. CASE (OwnerStep \/ PoolGone) /\ UNCHANGED httpVars
  BY <1>6 DEF HttpNext
<1>7. QED
  BY <1>1, <1>2, <1>3, <1>4, <1>5, <1>6 DEF TrafficNext

\* A connection that goes on stays what it was: what has arrived has arrived, and
\* a reply is only ever written into the connection it is for.
LEMMA ConnectionGoesOn ==
    ASSUME conns \in Seq(Conns), NEW k, NEW new,
           \/ new = [conns EXCEPT ![k].whole = TRUE]
           \/ new = [conns EXCEPT ![k].left = TRUE]
           \/ new = [conns EXCEPT ![k].closed = TRUE]
           \/ new = [conns EXCEPT ![k].reply = TRUE]
    PROVE  /\ new \in Seq(Conns) /\ Len(new) = Len(conns)
           /\ \A j \in 1 .. Len(conns) :
                 /\ new[j].isPost = conns[j].isPost
                 /\ conns[j].whole => new[j].whole
                 /\ new[j].reply => \/ conns[j].reply
                                    \/ j = k /\ new = [conns EXCEPT ![k].reply = TRUE]
<1>1. /\ conns \in [1 .. Len(conns) -> Conns] /\ Len(conns) \in Nat
      /\ \A j \in 1 .. Len(conns) : conns[j] \in Conns
  BY LenProperties
<1>2. ASSUME NEW j \in 1 .. Len(conns)
      PROVE  new[j] \in Conns
  <2>1. new[j] \in {conns[j], [conns[j] EXCEPT !.whole = TRUE],
                    [conns[j] EXCEPT !.left = TRUE], [conns[j] EXCEPT !.closed = TRUE],
                    [conns[j] EXCEPT !.reply = TRUE]}
    BY <1>1
  <2>2. conns[j] \in Conns
    BY <1>1
  <2>3. QED
    BY <2>1, <2>2 DEF Conns
<1>3. new \in [1 .. Len(conns) -> Conns]
  BY <1>1, <1>2
<1>4. new \in Seq(Conns) /\ Len(new) = Len(conns)
  BY <1>1, <1>3, SeqDef, LenProperties
<1>5. ASSUME NEW j \in 1 .. Len(conns)
      PROVE  /\ new[j].isPost = conns[j].isPost
             /\ conns[j].whole => new[j].whole
             /\ new[j].reply => \/ conns[j].reply
                                \/ j = k /\ new = [conns EXCEPT ![k].reply = TRUE]
  BY <1>1 DEF Conns
<1>6. QED
  BY <1>4, <1>5

LEMMA TrafficInitEstablishesHand == TrafficInit => TakenInHand
<1> SUFFICES ASSUME TrafficInit PROVE TakenInHand
  OBVIOUS
<1>1. conns = <<>> /\ taken = 0 /\ at = "boot"
  BY DEF TrafficInit, HttpInit
<1>2. conns \in Seq(Conns) /\ Len(conns) = 0
  BY <1>1
<1>3. QED
  BY <1>1, <1>2 DEF TakenInHand

\* A client that connects, sends, reads or is killed.
LEMMA ClientPreservesHand ==
    ASSUME TakenInHand, NEW c \in Clients, ClientStep(c) \/ Kill(c),
           UNCHANGED <<at, taken>>
    PROVE  TakenInHand'
<1>1. CASE ConnectFails(c)
  BY <1>1 DEF ConnectFails, TakenInHand
<1>2. CASE Connect(c)
  <2> DEFINE x == [client |-> c, isPost |-> round[c] = Gets, whole |-> FALSE,
                   left |-> FALSE, reply |-> FALSE, closed |-> FALSE]
  <2>1. x \in Conns /\ ~x.reply
    BY DEF Conns
  <2>2. conns' = Append(conns, x)
    BY <1>2 DEF Connect
  <2> HIDE DEF x
  <2>3. /\ conns' \in Seq(Conns) /\ Len(conns') = Len(conns) + 1
        /\ \A k \in 1 .. Len(conns) : conns'[k] = conns[k]
        /\ conns'[Len(conns) + 1] = x
    BY <2>1, <2>2, AppendProperties DEF TakenInHand
  <2>4. Len(conns) \in Nat
    BY LenProperties DEF TakenInHand
  <2>5. \A k \in 1 .. Len(conns') : conns'[k].reply => k \in 1 .. Len(conns)
    BY <2>1, <2>3, <2>4
  <2>6. QED
    BY <2>3, <2>4, <2>5 DEF TakenInHand
<1>3. CASE Send(c) \/ ReadAndClose(c) \/ Kill(c)
  <2>1. PICK k : conns' = [conns EXCEPT ![k].whole = TRUE] \/ conns' = [conns EXCEPT ![k].left = TRUE]
    BY <1>3 DEF Send, ReadAndClose, Kill
  <2>2. /\ conns' \in Seq(Conns) /\ Len(conns') = Len(conns)
        /\ \A j \in 1 .. Len(conns) :
              /\ conns'[j].isPost = conns[j].isPost
              /\ conns[j].whole => conns'[j].whole
              /\ conns'[j].reply => \/ conns[j].reply
                                    \/ j = k /\ conns' = [conns EXCEPT ![k].reply = TRUE]
    BY <2>1, ConnectionGoesOn DEF TakenInHand
  <2>3. \A j \in 1 .. Len(conns) : conns'[j].reply => conns[j].reply
    <3>1. \A j \in 1 .. Len(conns) : conns[j] \in Conns
      BY DEF TakenInHand
    <3>2. QED
      BY <2>1, <3>1 DEF Conns, TakenInHand
  <2>4. QED
    BY <2>2, <2>3 DEF TakenInHand
<1>4. QED
  BY <1>1, <1>2, <1>3 DEF ClientStep

\* The accept thread that takes, reads, answers or closes a connection.
LEMMA AcceptThreadPreservesHand ==
    ASSUME TakenInHand, AcceptThread
    PROVE  TakenInHand'
<1>1. CASE (Listen \/ ListenFails) /\ UNCHANGED trafficVars
  BY <1>1 DEF Listen, ListenFails, trafficVars, TakenInHand
<1>2. CASE AcceptNext
  <2>1. at' = "recv" /\ taken < Len(conns) /\ taken' = taken + 1 /\ conns' = conns
    BY <1>2 DEF AcceptNext, Accept
  <2>2. Len(conns) \in Nat /\ taken \in Nat
    BY LenProperties DEF TakenInHand
  <2>3. QED
    BY <2>1, <2>2 DEF TakenInHand
<1>3. ASSUME CloseTaken \/ UNCHANGED conns, UNCHANGED taken, at # "send",
             at \notin {"boot", "failed"},
             at' = "send" => conns[taken].whole /\ ~conns[taken].isPost,
             at' \notin {"boot", "failed", "accept"} => at # "accept"
      PROVE  TakenInHand'
  <2>1. CASE UNCHANGED conns
    BY <1>3, <2>1 DEF TakenInHand
  <2>2. CASE CloseTaken
    <3>1. /\ conns' \in Seq(Conns) /\ Len(conns') = Len(conns)
          /\ \A j \in 1 .. Len(conns) :
                /\ conns'[j].isPost = conns[j].isPost
                /\ conns[j].whole => conns'[j].whole
                /\ conns'[j].reply = conns[j].reply
      <4>1. \A j \in 1 .. Len(conns) : conns[j] \in Conns
        BY DEF TakenInHand
      <4>2. \A j \in 1 .. Len(conns) : conns'[j].reply = conns[j].reply
        BY <2>2, <4>1 DEF CloseTaken, Conns, TakenInHand
      <4>3. QED
        BY <2>2, <4>2, ConnectionGoesOn DEF CloseTaken, TakenInHand
    <3>2. QED
      BY <1>3, <3>1 DEF TakenInHand
  <2>3. QED
    BY <1>3, <2>1, <2>2
<1>4. CASE Receive
  <2>1. at = "recv" /\ at' \in {"send", "accept"} /\ UNCHANGED taken /\ (CloseTaken \/ UNCHANGED conns)
    BY <1>4 DEF Receive, ReceiveFails, RejectRequest, ReceiveRequest
  <2>2. at' = "send" => conns[taken].whole /\ ~conns[taken].isPost
    BY <1>4 DEF Receive, ReceiveFails, RejectRequest, Whole
  <2>3. QED
    BY <1>3, <2>1, <2>2
<1>5. CASE Reply
  <2>1. at = "send" /\ at' = "queue" /\ UNCHANGED taken
    BY <1>5 DEF Reply, SendResponse
  <2>2. taken \in 1 .. Len(conns) /\ conns[taken].whole /\ ~conns[taken].isPost
    BY <2>1 DEF TakenInHand
  <2>3. \/ conns' = [conns EXCEPT ![taken].reply = TRUE]
        \/ conns' = [conns EXCEPT ![taken].closed = TRUE]
    BY <1>5 DEF Reply, CloseTaken
  <2>4. /\ conns' \in Seq(Conns) /\ Len(conns') = Len(conns)
        /\ \A j \in 1 .. Len(conns) :
              /\ conns'[j].isPost = conns[j].isPost
              /\ conns[j].whole => conns'[j].whole
              /\ conns'[j].reply => conns[j].reply \/ j = taken
    BY <2>3, ConnectionGoesOn DEF TakenInHand
  <2>5. QED
    BY <2>1, <2>2, <2>4 DEF TakenInHand
<1>6. CASE Queue
  <2>1. at \in {"queue", "enqueue"} /\ at' \in {"enqueue", "close"} /\ UNCHANGED <<taken, conns>>
    BY <1>6 DEF Queue, ProcessData, Enqueuing, trafficVars
  <2>2. QED
    BY <1>3, <2>1
<1>7. CASE Close
  <2>1. at = "close" /\ at' = "accept" /\ UNCHANGED taken /\ CloseTaken
    BY <1>7 DEF Close, CloseClient
  <2>2. QED
    BY <1>3, <2>1
<1>8. QED
  BY <1>1, <1>2, <1>4, <1>5, <1>6, <1>7 DEF AcceptThread

LEMMA TrafficStepPreservesHand == TakenInHand /\ [TrafficNext]_allVars => TakenInHand'
<1> SUFFICES ASSUME TakenInHand, [TrafficNext]_allVars PROVE TakenInHand'
  OBVIOUS
<1>1. ASSUME UNCHANGED <<at, conns, taken>> PROVE TakenInHand'
  BY <1>1 DEF TakenInHand
<1>2. CASE UNCHANGED allVars
  BY <1>1, <1>2 DEF allVars, httpVars, trafficVars
<1>3. ASSUME NEW c \in Clients, ClientStep(c) \/ Kill(c), UNCHANGED <<poolVars, httpVars, taken>>
      PROVE  TakenInHand'
  BY <1>3, ClientPreservesHand DEF httpVars
<1>4. CASE AcceptThread
  BY <1>4, AcceptThreadPreservesHand
<1>5. ASSUME NEW w \in Workers, HttpWorker(w), UNCHANGED trafficVars PROVE TakenInHand'
  BY <1>1, <1>5
  DEF HttpWorker, PoolLoop, TakeClosure, FindHits, AddHits, PrintLine, httpVars, acceptVars, trafficVars
<1>6. CASE UNCHANGED <<httpVars, trafficVars>>
  BY <1>1, <1>6 DEF httpVars, trafficVars
<1>7. QED
  BY <1>2, <1>3, <1>4, <1>5, <1>6 DEF TrafficNext

\* Whatever its clients do, the server of HttpTraffic behaves like the server of
\* HttpServer, whose clients may do anything (Server.h:110-261): what is
\* proved of the one holds of the other.
THEOREM TrafficImplementsServer == TrafficSpec => HttpSpec
<1>1. TrafficInit => HttpInit
  BY DEF TrafficInit
<1>2. [TrafficNext]_allVars => [HttpNext]_<<poolVars, httpVars>>
  BY TrafficIsServer
<1>3. QED
  BY <1>1, <1>2, PTL DEF TrafficSpec, HttpSpec

\* A client is told "queued" only for a GET request that has arrived whole, and
\* between two requests each such request has been queued once and nothing else has
\* (Server.h:182-202, 229-261), for any number of clients, killed or not.
THEOREM RepliesAreTrue == TrafficSpec => []QueuedIsTrue
<1>1. TrafficSpec => []TakenInHand
  BY TrafficInitEstablishesHand, TrafficStepPreservesHand, PTL DEF TrafficSpec
<1>2. HttpIInv /\ TakenInHand => QueuedIsTrue
  BY DEF HttpIInv, CallInHand, TakenInHand, QueuedIsTrue
<1>3. QED
  BY <1>1, <1>2, TrafficImplementsServer, HttpInvariant, PTL

=============================================================================
