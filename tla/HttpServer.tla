----------------------------- MODULE HttpServer -----------------------------
(***************************************************************************)
(* The HTTP server of 7/Server.h: one thread that accepts, answers and     *)
(* queues, composed with the thread pool that runs the queued closures.    *)
(*                                                                         *)
(* The accept thread is the pool's only producer, so the n-th GET request  *)
(* is task n of Threadpool.  The closure of a request captures path and    *)
(* userAgent by reference; they are locals of ProcessRequest and live      *)
(* until that function returns.  Every read through the reference          *)
(* afterwards has undefined behaviour: here it yields any string that was  *)
(* ever in that place, or junk.  The counters are shared by the workers    *)
(* without a lock, so a count is a read and, later, a write.               *)
(***************************************************************************)
EXTENDS Threadpool

CONSTANTS Acceptor,  \* the thread of Server::Run
          Paths,     \* paths and
          Agents,    \* User-Agent strings clients send
          Junk       \* what else a dangling reference may read

ASSUME HttpAssumption == Producers = {Acceptor}

Strings == Paths \cup Agents \cup {Junk}

VARIABLES at,        \* where the accept thread is
          socket,    \* descriptors of connections that are open
          client,    \* client_socket, 0 before the first connection
          closes,    \* ghost: calls of close for that connection
          requests,  \* path and User-Agent of every GET request so far
          body,      \* where each worker is in its closure, and what it has read
          hits,      \* m_hit_count_Map, 0 for what is not in it
          counted    \* ghost: completed calls of CountHits for each string

httpVars == <<at, socket, client, closes, requests, body, hits, counted>>
acceptVars == <<at, socket, client, closes, requests>>
taskVars == <<body, hits, counted>>

NoBody == [step |-> "none", key |-> Junk, seen |-> 0]

HttpInit ==
    /\ PoolInit
    /\ at = "boot"
    /\ socket = {} /\ client = 0 /\ closes = 0
    /\ requests = <<>>
    /\ body = [w \in Workers |-> NoBody]
    /\ hits = [s \in Strings |-> 0]
    /\ counted = [s \in Strings |-> 0]

-----------------------------------------------------------------------------
(* Start *)

\* The constructor: socket, bind and listen succeed.
Listen ==
    /\ at = "boot"
    /\ at' = "accept"
    /\ UNCHANGED <<poolVars, taskVars, socket, client, closes, requests>>

\* One of them fails: the constructor throws and the members are destroyed, the
\* pool among them.
ListenFails ==
    /\ at = "boot"
    /\ at' = "failed"
    /\ Destroy
    /\ UNCHANGED <<taskVars, socket, client, closes, requests>>

-----------------------------------------------------------------------------
(* The accept thread *)

\* close(client_socket), n times: the first takes effect on whatever has that number.
Closing(n) ==
    /\ socket' = IF n = 0 THEN socket ELSE socket \ {client}
    /\ closes' = closes + n

\* accept returns the lowest descriptor that is free.
Accept ==
    /\ at = "accept"
    /\ client' = CHOOSE d \in 1 .. (Cardinality(socket) + 1) :
                    d \notin socket /\ \A e \in 1 .. (d - 1) : e \in socket
    /\ socket' = socket \cup {client'}
    /\ closes' = 0
    /\ at' = "recv"
    /\ UNCHANGED <<poolVars, taskVars, requests>>

\* recv fails or the client closes before the request is complete.
ReceiveFails ==
    /\ at = "recv"
    /\ Closing(1)
    /\ at' = "accept"
    /\ UNCHANGED <<poolVars, taskVars, client, requests>>

\* Faulty variant of RejectRequest: the connection is not closed.
RejectRequestOpen ==
    /\ at = "recv"
    /\ at' = "accept"
    /\ UNCHANGED <<poolVars, taskVars, socket, client, closes, requests>>

\* A request that is not a GET is not answered.
RejectRequest ==
    /\ at = "recv"
    /\ Closing(1)
    /\ at' = "accept"
    /\ UNCHANGED <<poolVars, taskVars, client, requests>>

\* A GET request is complete (as many as the bound on tasks allows).
ReceiveRequest ==
    /\ at = "recv"
    /\ Len(requests) < MaxTasks
    /\ \E path \in Paths, agent \in Agents :
          requests' = Append(requests, [path |-> path, agent |-> agent])
    /\ at' = "send"
    /\ UNCHANGED <<poolVars, taskVars, socket, client, closes>>

\* The reply "queued" is sent; or it is sent in part and the connection is closed;
\* or send reports an error and it is closed twice, since -1 is less than the size
\* of the reply.  The request is queued all the same.
SendResponse ==
    /\ at = "send"
    /\ \E n \in 0 .. 2 : Closing(n)
    /\ at' = "queue"
    /\ UNCHANGED <<poolVars, taskVars, client, requests>>

\* ProcessData: the call of Enqueue and what it does in the pool, then close.
ProcessData ==
    /\ at = "queue"
    /\ Enqueue(Acceptor)
    /\ at' = "enqueue"
    /\ UNCHANGED <<taskVars, socket, client, closes, requests>>

Enqueuing ==
    /\ at = "enqueue"
    /\ \/ (EnqueueLock(Acceptor) \/ EnqueuePush(Acceptor) \/ EnqueueThrow(Acceptor))
          /\ UNCHANGED at
       \/ EnqueueNotify(Acceptor) /\ at' = "close"
    /\ UNCHANGED <<taskVars, socket, client, closes, requests>>

\* The connection is closed, again if SendResponse has closed it, and
\* ProcessRequest returns.
CloseClient ==
    /\ at = "close"
    /\ Closing(1)
    /\ at' = "accept"
    /\ UNCHANGED <<poolVars, taskVars, client, requests>>

-----------------------------------------------------------------------------
(* The closure *)

\* The request whose path and userAgent are alive, 0 when there is none.
Frame == IF at \in {"send", "queue", "enqueue", "close"} THEN Len(requests) ELSE 0

\* What a read of a captured reference may yield to a worker.
Deref(w, field) ==
    IF Frame = running[w]
    THEN {requests[running[w]][field]}
    ELSE {requests[n][field] : n \in 1 .. Len(requests)} \cup {Junk}

Goto(w, step, key, seen) ==
    body' = [body EXCEPT ![w] = [step |-> step, key |-> key, seen |-> seen]]

\* A worker of the pool takes the closure.
TakeClosure(w) ==
    /\ WorkerTake(w)
    /\ Goto(w, "path", Junk, 0)
    /\ UNCHANGED <<acceptVars, hits, counted>>

\* The first half of CountHits: the entry is looked up and read.
FindHits(w) ==
    /\ \/ /\ body[w].step = "path"
          /\ \E key \in Deref(w, "path") : Goto(w, "addPath", key, hits[key])
       \/ /\ body[w].step = "agent"
          /\ \E key \in Deref(w, "agent") : Goto(w, "addAgent", key, hits[key])
    /\ UNCHANGED <<poolVars, acceptVars, hits, counted>>

\* An entry that is found is incremented; a new one is set to 1.
Incremented(seen) == seen + 1

\* The second half: the new value is written.
AddHits(w) ==
    /\ \/ body[w].step = "addPath" /\ Goto(w, "agent", Junk, 0)
       \/ body[w].step = "addAgent" /\ Goto(w, "print", Junk, 0)
    /\ hits' = [hits EXCEPT ![body[w].key] = Incremented(body[w].seen)]
    /\ counted' = [counted EXCEPT ![body[w].key] = @ + 1]
    /\ UNCHANGED <<poolVars, acceptVars>>

\* The counts are read through the references once more and printed, and the
\* closure returns to the pool's loop.
PrintLine(w) ==
    /\ body[w].step = "print"
    /\ WorkerDone(w)
    /\ body' = [body EXCEPT ![w] = NoBody]
    /\ UNCHANGED <<acceptVars, hits, counted>>

-----------------------------------------------------------------------------

\* A worker between two closures.
PoolLoop(w) ==
    /\ WorkerLock(w) \/ WorkerWait(w) \/ WorkerExit(w)
    /\ UNCHANGED httpVars

HttpWorker(w) ==
    PoolLoop(w) \/ TakeClosure(w) \/ FindHits(w) \/ AddHits(w) \/ PrintLine(w)

\* The accept thread with a request in its hands.
Serving == SendResponse \/ ProcessData \/ Enqueuing \/ CloseClient

HttpNext ==
    \/ Listen \/ ListenFails
    \/ Accept \/ ReceiveFails \/ RejectRequest \/ ReceiveRequest
    \/ Serving
    \/ \E w \in Workers : HttpWorker(w)
    \/ \E w \in Workers : SpuriousWakeup(w) /\ UNCHANGED httpVars
    \/ (OwnerStep \/ PoolGone) /\ UNCHANGED httpVars

HttpSpec == HttpInit /\ [][HttpNext]_<<poolVars, httpVars>>

-----------------------------------------------------------------------------
(* Properties *)

\* Every variable has its type, and a worker is inside a closure exactly while
\* the pool says so (Server.h:53, 245-257).
HttpTypeOK ==
    /\ PoolTypeOK
    /\ at \in {"boot", "failed", "accept", "recv", "send", "queue", "enqueue", "close"}
    /\ socket \subseteq Nat /\ client \in Nat /\ closes \in 0 .. 3
    /\ requests \in Seq([path : Paths, agent : Agents])
    /\ \A w \in Workers :
          /\ body[w].step \in {"none", "path", "addPath", "agent", "addAgent", "print"}
          /\ body[w].key \in Strings /\ body[w].seen \in Nat
          /\ (body[w].step = "none") <=> (pc[w] # "run")
    /\ hits \in [Strings -> Nat]
    /\ counted \in [Strings -> Nat]

\* Whatever becomes of a request, its connection is closed before the next one
\* is accepted, so any number of requests needs one descriptor; and no call of
\* close, the second or third for a connection whose reply was not sent, takes away
\* the connection a request is read from or answered on (Server.h:182-261).
ConnectionsClosed ==
    /\ socket \subseteq {client}
    /\ at \in {"boot", "failed", "accept"} => socket = {}
    /\ at \in {"recv", "send"} => socket = {client} /\ closes = 0
    /\ client # 0 => (socket = {} <=> closes > 0)

\* "The path and the User-Agent string are put into the queue" (readme.md:29):
\* what a worker reads is the path and the User-Agent of its request.  The
\* closure holds references to locals of ProcessRequest (Server.h:245).
CapturesAlive ==
    \A w \in Workers :
        body[w].step \in {"path", "agent", "print"} => Frame = running[w]

\* Two calls of CountHits for one string count two (test.cpp:22-27), and "hitcount
\* is the number of hits of this path and User-Agent" (readme.md:18): when no
\* worker is between reading and writing a counter, every hit has been counted.
\* Two workers may read the same value (Server.h:155-162, 250-253).
HitsExact ==
    (\A w \in Workers : body[w].step \notin {"addPath", "addAgent"}) =>
        \A s \in Strings : hits[s] = counted[s]

=============================================================================
