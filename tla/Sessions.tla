------------------------------ MODULE Sessions ------------------------------
(***************************************************************************)
(* The connections of the exchange: class server and class session of      *)
(* 3/Server.cpp, and the client program 3/Client.cpp at the other end.     *)
(*                                                                         *)
(* The server is one thread in io_service::run().  It owns a set of        *)
(* pending asynchronous operations, picks one whose event has come and     *)
(* runs its handler to the end, so a handler is one action.  A session is  *)
(* an object on the heap: it lives until a handler deletes it.  The work   *)
(* of the engine inside handle_read is module Core; here a request is only *)
(* counted and answered.                                                   *)
(*                                                                         *)
(* TCP keeps the order of bytes and not the borders of messages.  Bytes    *)
(* travel in pieces: the network may cut any request and any reply in two, *)
(* and a read takes one piece or several, of one message or of several     *)
(* (ReadMessage takes at most 512 bytes, so that it cuts a long reply).    *)
(***************************************************************************)
EXTENDS Integers, Sequences, FiniteSets, Functions

CONSTANTS Clients,       \* client processes, each started once
          RequestPieces, \* in how many pieces a request may arrive
          ReplyPieces,   \* in how many pieces a reply may arrive
          MaxRequests,   \* bound on the requests of one client
          MaxInAll       \* bound on the requests of all clients

NoClient == "none"

ASSUME SessionsAssumption ==
    /\ NoClient \notin Clients
    /\ RequestPieces \subseteq 1 .. 2 /\ ReplyPieces \subseteq 1 .. 2
    /\ MaxRequests \in Nat /\ MaxInAll \in Nat

VARIABLES up,        \* io_service::run() has not been left
          live,      \* session objects that are not deleted
          created,   \* number of session objects ever created
          peer,      \* the client at the other end of a session's socket
          pending,   \* asynchronous operations: <<session, "accept" | "read" | "write">>
          backlog,   \* connections nobody has accepted, oldest first
          at,        \* what each client does
          known,     \* the client has a uid (my_id is not "fake_id")
          wants,     \* the kind of reply the client's last request calls for
          asked,     \* number of requests a client has sent
          shown,     \* the request whose reply the client took last
          served,    \* ghost: number of requests the engine has run for a client
          toServer,  \* pieces under way to the server
          toClient   \* pieces under way to the client

serverVars == <<up, live, created, peer, pending, backlog>>
clientVars == <<at, known, wants, asked, shown>>
wires == <<toServer, toClient>>
sessionVars == <<serverVars, clientVars, wires, served>>

\* A message in pieces.
Message(n, kind, ok, pieces) ==
    [i \in 1 .. pieces |-> [n |-> n, kind |-> kind, ok |-> ok, part |-> i, of |-> pieces]]

\* The bytes read are one message.
IsWhole(bytes) == Len(bytes) = Head(bytes).of /\ Head(bytes).part = 1

\* Faulty variant of Consumed: what was read stays in the socket.
ConsumedNothing(stream, k) == stream

\* What is left of a stream when its first k pieces are read.
Consumed(stream, k) == SubSeq(stream, k + 1, Len(stream))

SessionsInit ==
    /\ up = TRUE
    /\ live = {1} /\ created = 1
    /\ peer = <<NoClient>>
    /\ pending = {<<1, "accept">>}
    /\ backlog = <<>>
    /\ at = [c \in Clients |-> "off"]
    /\ known = [c \in Clients |-> FALSE]
    /\ wants = [c \in Clients |-> "account"]
    /\ asked = [c \in Clients |-> 0]
    /\ shown = [c \in Clients |-> 0]
    /\ served = [c \in Clients |-> 0]
    /\ toServer = [c \in Clients |-> <<>>]
    /\ toClient = [c \in Clients |-> <<>>]

Present(c) == at[c] \in {"idle", "waiting"}

-----------------------------------------------------------------------------
(* The client *)

\* The kernel completes a connection while the server listens.
Connect(c) ==
    /\ at[c] = "off"
    /\ at' = [at EXCEPT ![c] = IF up THEN "idle" ELSE "failed"]
    /\ backlog' = IF up THEN Append(backlog, c) ELSE backlog
    /\ UNCHANGED <<up, live, created, peer, pending, known, wants, asked, shown, wires, served>>

\* The menus: an account first, then orders and everything else.
Kinds(c) == IF known[c] THEN {"order", "query"} ELSE {"account"}

SendMessage(c) ==
    /\ at[c] = "idle"
    /\ asked[c] < MaxRequests /\ SumFunction(asked) < MaxInAll
    /\ asked' = [asked EXCEPT ![c] = @ + 1]
    /\ \E kind \in Kinds(c), pieces \in RequestPieces :
          /\ wants' = [wants EXCEPT ![c] = kind]
          /\ toServer' = [toServer EXCEPT ![c] = @ \o Message(asked'[c], kind, TRUE, pieces)]
    /\ at' = [at EXCEPT ![c] = "waiting"]
    /\ UNCHANGED <<serverVars, known, shown, toClient, served>>

\* Faulty variant of Parses: the beginning of a reply is taken for the whole.
ParsesPart(bytes) == Head(bytes).part = 1 /\ Head(bytes).kind # "order"

\* The reply to an order is a bare word, every other reply is a JSON object: cut,
\* or with the rest of an earlier reply before it, it is none.
Parses(bytes) == IsWhole(bytes) /\ Head(bytes).kind # "order"

\* read_until with an empty delimiter is content with what the first read brings.
\* What should answer an order is compared with "ok" and is taken whatever it is;
\* anything else is parsed, and the exception of json::parse ends the client.
ReadMessage(c) ==
    /\ at[c] = "waiting"
    /\ \E k \in 1 .. Len(toClient[c]) :
          LET bytes == SubSeq(toClient[c], 1, k)
          IN  /\ toClient' = [toClient EXCEPT ![c] = Consumed(@, k)]
              /\ IF wants[c] = "order" \/ Parses(bytes)
                 THEN /\ at' = [at EXCEPT ![c] = "idle"]
                      /\ shown' = [shown EXCEPT ![c] = bytes[k].n]
                      /\ known' = [known EXCEPT ![c] = @ \/ (wants[c] = "account" /\ bytes[k].ok)]
                 ELSE at' = [at EXCEPT ![c] = "failed"] /\ UNCHANGED <<shown, known>>
    /\ UNCHANGED <<serverVars, wants, asked, toServer, served>>

\* The server is gone: sending or reading throws, and the client ends.
LoseServer(c) ==
    /\ Present(c) /\ ~up
    /\ at[c] = "waiting" => toClient[c] = <<>>
    /\ at' = [at EXCEPT ![c] = "failed"]
    /\ UNCHANGED <<serverVars, known, wants, asked, shown, wires, served>>

\* The user leaves by the menu or kills the program, whatever it is doing.
Leave(c) ==
    /\ Present(c)
    /\ at' = [at EXCEPT ![c] = "gone"]
    /\ UNCHANGED <<serverVars, known, wants, asked, shown, wires, served>>

-----------------------------------------------------------------------------
(* The server *)

\* One operation has completed and its handler starts others.  When none is left
\* io_service::run() returns, and main() ends.
Complete(op, started) ==
    /\ pending' = (pending \ {op}) \cup started
    /\ up' = (pending' # {})

\* "delete this" in a handler that starts nothing.
DeleteSession(s, op) ==
    /\ live' = live \ {s}
    /\ Complete(<<s, op>>, {})
    /\ backlog' = IF up' THEN backlog ELSE <<>>
    /\ UNCHANGED <<created, peer, clientVars, wires, served>>

\* Faulty variant of HandleAccept: the next accept is given the same object.
HandleAcceptSameSession(s) ==
    /\ up /\ <<s, "accept">> \in pending
    /\ backlog # <<>>
    /\ peer' = [peer EXCEPT ![s] = Head(backlog)]
    /\ backlog' = Tail(backlog)
    /\ Complete(<<s, "accept">>, {<<s, "read">>, <<s, "accept">>})
    /\ UNCHANGED <<created, live, clientVars, wires, served>>

\* handle_accept without an error: the session starts to read and the next one
\* is created and waits for the next client.
HandleAccept(s) ==
    /\ up /\ <<s, "accept">> \in pending
    /\ backlog # <<>>
    /\ created' = created + 1
    /\ live' = live \cup {created'}
    /\ peer' = Append([peer EXCEPT ![s] = Head(backlog)], NoClient)
    /\ backlog' = Tail(backlog)
    /\ Complete(<<s, "accept">>, {<<s, "read">>, <<created', "accept">>})
    /\ UNCHANGED <<clientVars, wires, served>>

\* handle_accept with an error: the system refuses the connection, for want of a
\* descriptor for example.
HandleAcceptError(s) ==
    /\ up /\ <<s, "accept">> \in pending
    /\ backlog # <<>>
    /\ DeleteSession(s, "accept")

\* handle_read of bytes that are a request: the engine runs it, and the reply
\* goes to the socket before the handler returns.
HandleRead(s) ==
    /\ up /\ <<s, "read">> \in pending
    /\ LET c == peer[s]
       IN  \E k \in 1 .. Len(toServer[c]) :
             LET request == SubSeq(toServer[c], 1, k)
             IN  /\ IsWhole(request)
                 /\ served' = [served EXCEPT ![c] = @ + 1]
                 /\ toServer' = [toServer EXCEPT ![c] = Consumed(@, k)]
                 /\ \E ok \in BOOLEAN, pieces \in ReplyPieces :
                       toClient' = [toClient EXCEPT
                           ![c] = @ \o Message(Head(request).n, Head(request).kind, ok, pieces)]
    /\ Complete(<<s, "read">>, {<<s, "write">>})
    /\ UNCHANGED <<live, created, peer, backlog, clientVars>>

\* handle_read of bytes that are not a request: json::parse throws, nothing
\* between the handler and main() catches, and the process ends.
HandleReadThrows(s) ==
    /\ up /\ <<s, "read">> \in pending
    /\ \E k \in 1 .. Len(toServer[peer[s]]) : ~IsWhole(SubSeq(toServer[peer[s]], 1, k))
    /\ up' = FALSE
    /\ live' = {} /\ pending' = {} /\ backlog' = <<>>
    /\ UNCHANGED <<created, peer, clientVars, wires, served>>

\* handle_read with an error: the client has gone.  What it sent last may be lost.
HandleReadError(s) ==
    /\ up /\ <<s, "read">> \in pending
    /\ at[peer[s]] \in {"gone", "failed"}
    /\ DeleteSession(s, "read")

\* Faulty variant of HandleWrite: the session does not read again.
HandleWriteStops(s) ==
    /\ up /\ <<s, "write">> \in pending
    /\ Complete(<<s, "write">>, {})
    /\ UNCHANGED <<live, created, peer, backlog, clientVars, wires, served>>

\* handle_write without an error, also when the client has gone meanwhile.
HandleWrite(s) ==
    /\ up /\ <<s, "write">> \in pending
    /\ Complete(<<s, "write">>, {<<s, "read">>})
    /\ UNCHANGED <<live, created, peer, backlog, clientVars, wires, served>>

\* Faulty variant of HandleWriteError: the object is deleted and reads again.
HandleWriteErrorGoesOn(s) ==
    /\ up /\ <<s, "write">> \in pending
    /\ at[peer[s]] \in {"gone", "failed"}
    /\ live' = live \ {s}
    /\ Complete(<<s, "write">>, {<<s, "read">>})
    /\ UNCHANGED <<created, peer, backlog, clientVars, wires, served>>

\* handle_write with an error: the client has gone.
HandleWriteError(s) ==
    /\ up /\ <<s, "write">> \in pending
    /\ at[peer[s]] \in {"gone", "failed"}
    /\ DeleteSession(s, "write")

-----------------------------------------------------------------------------

Handler(s) ==
    \/ HandleAccept(s) \/ HandleAcceptError(s)
    \/ HandleRead(s) \/ HandleReadThrows(s) \/ HandleReadError(s)
    \/ HandleWrite(s) \/ HandleWriteError(s)

ClientStep(c) ==
    Connect(c) \/ SendMessage(c) \/ ReadMessage(c) \/ LoseServer(c) \/ Leave(c)

SessionsNext ==
    \/ \E s \in 1 .. created : Handler(s)
    \/ \E c \in Clients : ClientStep(c)

SessionsSpec == SessionsInit /\ [][SessionsNext]_sessionVars

-----------------------------------------------------------------------------
(* Properties *)

Operations == {"accept", "read", "write"}
Replies == {"account", "order", "query"}
Pieces == [n : 1 .. MaxRequests, kind : Replies, ok : BOOLEAN,
           part : 1 .. 2, of : 1 .. 2]

\* Every variable has its type, and operations are pending only for session
\* objects that exist: no handler is ever called on a deleted session
\* (Server.cpp:42-106: handlers are bound to "this", which they may delete).
SessionsTypeOK ==
    /\ up \in BOOLEAN
    /\ live \subseteq 1 .. created
    /\ peer \in [1 .. created -> Clients \cup {NoClient}]
    /\ pending \subseteq live \X Operations
    /\ backlog \in Seq(Clients)
    /\ at \in [Clients -> {"off", "idle", "waiting", "failed", "gone"}]
    /\ known \in [Clients -> BOOLEAN]
    /\ wants \in [Clients -> Replies]
    /\ asked \in [Clients -> 0 .. MaxRequests]
    /\ shown \in [Clients -> 0 .. MaxRequests]
    /\ served \in [Clients -> Nat]
    /\ toServer \in [Clients -> Seq(Pieces)]
    /\ toClient \in [Clients -> Seq(Pieces)]

\* Every session object waits for exactly one event, an accept until it has a
\* client: none is leaked with nothing to wait for, and no two operations share
\* one buffer (Server.cpp:31-35, 93, 105, 125-139).
OneOperationEach ==
    \A s \in live :
        /\ Cardinality({op \in Operations : <<s, op>> \in pending}) = 1
        /\ <<s, "accept">> \in pending <=> peer[s] = NoClient

\* While the server runs, a connected client waits in the backlog or has one
\* session of its own: no handler takes a session from a client that is there
\* (Server.cpp:125-139).
SessionForClient ==
    up => \A c \in Clients : Present(c) =>
              Cardinality({i \in DOMAIN backlog : backlog[i] = c})
                + Cardinality({s \in live : peer[s] = c}) = 1

\* The engine runs a request at most once and in the order they were sent, and shows
\* a client no reply before that.  A client that went on from an account or a
\* question has been shown the answer to just that, with nothing left in the socket
\* to be mistaken for the next one: only bytes that answer orders are ever left over
\* (Server.cpp:52-94, Client.cpp:35-43, 129-133).
RepliesInStep ==
    \A c \in Clients :
        /\ shown[c] <= served[c] /\ served[c] <= asked[c]
        /\ at[c] = "idle" /\ wants[c] # "order" => shown[c] = asked[c] /\ toClient[c] = <<>>
        /\ \A i \in DOMAIN toClient[c] :
              at[c] = "idle" \/ toClient[c][i].n < asked[c] => toClient[c][i].kind = "order"

Accepted(c) == \E s \in 1 .. created : peer[s] = c

\* Requests are finitely many, and there is always a later time when every client that
\* was accepted has nothing outstanding: each of its requests was run, unless it
\* or the server ended first, and it does not wait (Server.cpp:42-106).
EveryRequestAnswered ==
    []<>(\A c \in Clients :
            Accepted(c) => /\ served[c] = asked[c] \/ ~up \/ ~Present(c)
                           /\ at[c] # "waiting")

\* "Returns the string with the server's answer to the last request" (Client.cpp:35):
\* a client that goes on has been shown the reply to its last request.  When the
\* reply to an order is cut, the rest of it is taken for the reply to the next
\* (Client.cpp:37-43, 129-133).
ShownIsLast == \A c \in Clients : at[c] = "idle" => shown[c] = asked[c]

\* "Supports connections of several clients at once" (readme.md:12): the server runs
\* as long as a client is there that it accepted, whatever another one sends.  A
\* request that the network cuts in two ends it (Server.cpp:59-62, 147-154).
ServerStaysUp == (\E c \in Clients : Accepted(c) /\ Present(c)) => up

=============================================================================
