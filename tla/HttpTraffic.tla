---------------------------- MODULE HttpTraffic ----------------------------
(***************************************************************************)
(* The HTTP server of 7/Server.h and several clients of 7/Client.cpp, with *)
(* the connections between them.                                           *)
(*                                                                         *)
(* A client sends Gets GET requests and one POST request, each on a        *)
(* connection of its own and in two parts, and reads once.  The server     *)
(* takes the connections in the order in which they were made, one at a    *)
(* time.  A client may be killed while it holds a connection; the server   *)
(* sees that as the end of the stream.                                     *)
(***************************************************************************)
EXTENDS HttpServer

CONSTANTS Clients,  \* processes that run Client.cpp
          Mortal,   \* bound: those of them that may be killed
          Gets      \* GET requests of a client (5 in the code)

ASSUME TrafficAssumption ==
    Mortal \subseteq Clients /\ Gets \in Nat /\ MaxTasks >= Cardinality(Clients) * Gets

VARIABLES doing,   \* what each client does
          round,   \* requests each client is through with
          conns,   \* the connections, in the order in which they were made
          taken    \* number of connections accepted

clientVars == <<doing, round>>
trafficVars == <<doing, round, conns, taken>>
allVars == <<poolVars, httpVars, trafficVars>>

TrafficInit ==
    /\ HttpInit
    /\ doing = [c \in Clients |-> "connect"]
    /\ round = [c \in Clients |-> 0]
    /\ conns = <<>> /\ taken = 0

-----------------------------------------------------------------------------
(* A client *)

\* The connection of client c.
Own(c) == CHOOSE k \in 1 .. Len(conns) :
              conns[k].client = c /\ \A j \in (k + 1) .. Len(conns) : conns[j].client # c

Do(c, what) == doing' = [doing EXCEPT ![c] = what]

\* Nobody listens: "Connection Failed", and main returns.
ConnectFails(c) ==
    /\ doing[c] = "connect"
    /\ at \in {"boot", "failed"}
    /\ Do(c, "ended")
    /\ UNCHANGED <<round, conns>>

\* A connection that is new, with nothing or with the first ten bytes of the
\* message sent: not whole.
Connect(c) ==
    /\ doing[c] = "connect"
    /\ at \notin {"boot", "failed"}
    /\ conns' = Append(conns, [client |-> c, isPost |-> round[c] = Gets, whole |-> FALSE,
                               left |-> FALSE, reply |-> FALSE, closed |-> FALSE])
    /\ Do(c, "send")
    /\ UNCHANGED round

\* The last part.
Send(c) ==
    /\ doing[c] = "send"
    /\ conns' = [conns EXCEPT ![Own(c)].whole = TRUE]
    /\ Do(c, "read")
    /\ UNCHANGED round

\* read returns the reply, or 0 when the server has closed the connection
\* without one; the client prints its buffer in both cases and closes its socket.
\* The next GET follows, the POST, or the end of main.
ReadAndClose(c) ==
    /\ doing[c] = "read"
    /\ conns[Own(c)].reply \/ conns[Own(c)].closed
    /\ conns' = [conns EXCEPT ![Own(c)].left = TRUE]
    /\ round' = [round EXCEPT ![c] = @ + 1]
    /\ Do(c, IF round[c] = Gets THEN "ended" ELSE "connect")

\* The process is killed with a connection in its hands.
Kill(c) ==
    /\ c \in Mortal /\ doing[c] \in {"send", "read"}
    /\ conns' = [conns EXCEPT ![Own(c)].left = TRUE]
    /\ Do(c, "ended")
    /\ UNCHANGED round

ClientStep(c) == ConnectFails(c) \/ Connect(c) \/ Send(c) \/ ReadAndClose(c)

-----------------------------------------------------------------------------
(* The accept thread, with the connection it has taken *)

Whole == conns[taken].whole

CloseTaken == conns' = [conns EXCEPT ![taken].closed = TRUE]

AcceptNext ==
    /\ Accept
    /\ taken < Len(conns)
    /\ taken' = taken + 1
    /\ UNCHANGED <<clientVars, conns>>

\* Faulty variant of Receive: the method is not looked at.
ReceiveAnyMethod ==
    /\ at = "recv"
    /\ \/ ~Whole /\ conns[taken].left /\ ReceiveFails /\ CloseTaken
       \/ Whole /\ ReceiveRequest /\ UNCHANGED conns
    /\ UNCHANGED <<clientVars, taken>>

\* Faulty variant of Receive: a connection that ends early is not closed.
ReceiveNoEnd ==
    /\ at = "recv"
    /\ \/ Whole /\ conns[taken].isPost /\ RejectRequest /\ CloseTaken
       \/ Whole /\ ~conns[taken].isPost /\ ReceiveRequest /\ UNCHANGED conns
    /\ UNCHANGED <<clientVars, taken>>

\* recv is called until the empty line has come or the stream ends; what was sent
\* before the end comes first.
Receive ==
    /\ at = "recv"
    /\ \/ ~Whole /\ conns[taken].left /\ ReceiveFails /\ CloseTaken
       \/ /\ Whole /\ conns[taken].isPost
          /\ RejectRequest
          /\ IF client \in socket' THEN UNCHANGED conns ELSE CloseTaken
       \/ Whole /\ ~conns[taken].isPost /\ ReceiveRequest /\ UNCHANGED conns
    /\ UNCHANGED <<clientVars, taken>>

\* A reply can fail only when the client has left.
Reply ==
    /\ at = "send"
    /\ SendResponse
    /\ IF client \in socket' THEN conns' = [conns EXCEPT ![taken].reply = TRUE]
                             ELSE conns[taken].left /\ CloseTaken
    /\ UNCHANGED <<clientVars, taken>>

Queue == (ProcessData \/ Enqueuing) /\ UNCHANGED trafficVars

Close ==
    /\ at = "close"
    /\ CloseClient /\ CloseTaken
    /\ UNCHANGED <<clientVars, taken>>

AcceptThread ==
    \/ (Listen \/ ListenFails) /\ UNCHANGED trafficVars
    \/ AcceptNext \/ Receive \/ Reply \/ Queue \/ Close

-----------------------------------------------------------------------------

TrafficNext ==
    \/ \E c \in Clients : (ClientStep(c) \/ Kill(c)) /\ UNCHANGED <<poolVars, httpVars, taken>>
    \/ AcceptThread
    \/ \E w \in Workers : HttpWorker(w) /\ UNCHANGED trafficVars
    \/ \E w \in Workers : SpuriousWakeup(w) /\ UNCHANGED <<httpVars, trafficVars>>
    \/ (OwnerStep \/ PoolGone) /\ UNCHANGED <<httpVars, trafficVars>>

TrafficSpec == TrafficInit /\ [][TrafficNext]_allVars

\* Every thread that can run does in the end, also when it can do so only now and
\* then because others take the mutex in between; a client runs until it ends or
\* is killed, and the system delivers what it sends.
TrafficFairSpec ==
    /\ TrafficSpec
    /\ SF_allVars(AcceptThread)
    /\ \A w \in Workers : SF_allVars(HttpWorker(w) /\ UNCHANGED trafficVars)
    /\ \A c \in Clients :
          WF_allVars(ClientStep(c) /\ UNCHANGED <<poolVars, httpVars, taken>>)

-----------------------------------------------------------------------------
(* Properties *)

\* A client is told "queued" only for a GET request that has arrived whole; and
\* between two requests every such request has been queued exactly once, also
\* when its reply could not be sent, and nothing else has (Server.h:182-202,
\* 229-261).
QueuedIsTrue ==
    /\ \A k \in 1 .. Len(conns) :
          conns[k].reply => k <= taken /\ conns[k].whole /\ ~conns[k].isPost
    /\ at \in {"accept", "recv"} => accepted = Len(requests)

\* In the end every client has come to its end and every GET request that was
\* received has been processed, whoever is killed in the middle of a request: the
\* one thread that accepts, reads and answers is held up by a client only until
\* it goes on or goes away (Server.h:126-139, 182-227, Client.cpp:31-80).
EverybodyServed ==
    <>[](/\ \A c \in Clients : doing[c] = "ended"
         /\ \A n \in 1 .. Len(requests) : n \in done)

=============================================================================
