------------------------------ MODULE Exchange ------------------------------
(***************************************************************************)
(* The whole exchange: clients and connections (Sessions) with the engine  *)
(* (Core) that handle_read calls.                                          *)
(*                                                                         *)
(* A request that registers, logs in or asks is one step: a handler runs   *)
(* to its end.  A request that buys or sells is as many steps as Core's    *)
(* call has; the server does nothing else meanwhile, but clients go on,    *)
(* and the one that asked may leave.                                       *)
(***************************************************************************)
EXTENDS CoreProperties, Sessions

\* Clients are finitely many, the bound on orders is no obstacle to them, and nobody
\* else asks.
ASSUME ExchangeAssumption ==
    /\ IsFiniteSet(Clients)
    /\ MaxOrders >= MaxInAll
    /\ ForeignUids = {}

VARIABLES said,      \* what each client wrote in its requests, oldest first
          answered,  \* ghost: what the engine answered to them, oldest first
          my_id,     \* the client's uid, 0 for "fake_id"
          owner,     \* ghost: the login typed in the request that was answered with a uid
          serving    \* the session whose order is in the engine, or 0

clientNotes == <<said, answered, my_id, owner>>
exchangeVars == <<vars, sessionVars, clientNotes, serving>>

ExchangeInit ==
    /\ Init /\ SessionsInit
    /\ said = [c \in Clients |-> <<>>]
    /\ answered = [c \in Clients |-> <<>>]
    /\ my_id = [c \in Clients |-> 0]
    /\ owner = [c \in Clients |-> <<>>]
    /\ serving = 0

-----------------------------------------------------------------------------
(* The client *)

AccountRequests == [op : {"register", "login"}, login : Logins, pass : Passwords]
OrderRequests(c) == [op : {"buy", "sell"}, uid : {my_id[c]}, vol : Volumes, cost : Prices]

\* For the balance, for the deals and for the best prices.
QueryRequests(c) == [op : {"query"}, uid : {my_id[c]}]

RequestsOf(c) ==
    [account |-> AccountRequests, order |-> OrderRequests(c), query |-> QueryRequests(c)]

\* The user chooses from the menus and types.
Ask(c) ==
    /\ SendMessage(c)
    /\ \E request \in RequestsOf(c)[wants'[c]] : said' = [said EXCEPT ![c] = Append(@, request)]
    /\ UNCHANGED <<vars, answered, my_id, owner, serving>>

\* The uid a client takes from an answer to an account request.
Identity(answer) == IF answer.err = "ok" THEN answer.uid ELSE 0

\* A reply is taken; when it answers an account request, the uid in the message read
\* is the client's from then on.
TakeReply(c) ==
    /\ ReadMessage(c)
    /\ IF wants[c] = "account" /\ at'[c] = "idle"
       THEN LET uid == Identity(answered[c][shown'[c]])
            IN  /\ my_id' = [my_id EXCEPT ![c] = uid]
                /\ owner' = IF uid # 0 THEN [owner EXCEPT ![c] = Last(said[c]).login] ELSE owner
       ELSE UNCHANGED <<my_id, owner>>
    /\ UNCHANGED <<vars, said, answered, serving>>

MissServer(c) == LoseServer(c) /\ UNCHANGED <<vars, clientNotes, serving>>

ComeAndGo(c) ==
    /\ Connect(c) \/ Leave(c)
    /\ UNCHANGED <<vars, clientNotes, serving>>

-----------------------------------------------------------------------------
(* The server *)

\* A session whose client has sent a whole request, and that request.
HasRequest(s) ==
    /\ up /\ serving = 0
    /\ <<s, "read">> \in pending
    /\ \E k \in 1 .. Len(toServer[peer[s]]) : IsWhole(SubSeq(toServer[peer[s]], 1, k))

Request(s) == said[peer[s]][Head(toServer[peer[s]]).n]

\* The handler ends: the engine's answer goes out as the reply.
ReplyWith(s, result) ==
    /\ HandleRead(s)
    /\ answered' = [answered EXCEPT ![peer[s]] = Append(@, result)]
    /\ Last(toClient'[peer[s]]).ok = (result.err = "ok")
    /\ UNCHANGED <<said, my_id, owner>>

ServeAccount(s) ==
    /\ HasRequest(s)
    /\ LET request == Request(s)
       IN  \/ request.op = "register" /\ RegisterNewUser(request.login, request.pass)
           \/ request.op = "login" /\ TryLogin(request.login, request.pass)
    /\ ReplyWith(s, reply')
    /\ UNCHANGED serving

\* Balances, deals and prices are read and nothing is changed.
ServeQuery(s) ==
    /\ HasRequest(s)
    /\ Request(s).op = "query"
    /\ ReplyWith(s, IF Request(s).uid \in DOMAIN users THEN Reply("ok", 0) ELSE Reply("404", 0))
    /\ UNCHANGED <<vars, serving>>

\* handle_read calls TryBuy or TrySell.
StartOrder(s) ==
    /\ HasRequest(s)
    /\ LET request == Request(s)
       IN  \/ request.op = "buy" /\ TryBuy(request.uid, request.vol, request.cost)
           \/ request.op = "sell" /\ TrySell(request.uid, request.vol, request.cost)
    /\ serving' = s
    /\ UNCHANGED <<sessionVars, clientNotes>>

MatchOrder(s) ==
    /\ serving = s
    /\ MatchBuy \/ MatchSell
    /\ UNCHANGED <<sessionVars, clientNotes, serving>>

\* The call returns, with the order on the book or by the early return.
EndOrder(s) ==
    /\ serving = s
    /\ FinishBuy \/ RejectBuy \/ FinishSell \/ RejectSell
    /\ ReplyWith(s, reply')
    /\ serving' = 0

\* Every other handler leaves the engine alone.
OtherHandler(s) ==
    /\ serving = 0
    /\ \/ HandleAccept(s) \/ HandleAcceptError(s)
       \/ HandleReadThrows(s) \/ HandleReadError(s)
       \/ HandleWrite(s) \/ HandleWriteError(s)
    /\ UNCHANGED <<vars, clientNotes, serving>>

-----------------------------------------------------------------------------

ServerStep(s) ==
    \/ ServeAccount(s) \/ ServeQuery(s)
    \/ StartOrder(s) \/ MatchOrder(s) \/ EndOrder(s)
    \/ OtherHandler(s)

ExchangeNext ==
    \/ \E s \in 1 .. created : ServerStep(s)
    \/ \E c \in Clients : Ask(c) \/ TakeReply(c) \/ MissServer(c) \/ ComeAndGo(c)

ExchangeSpec == ExchangeInit /\ [][ExchangeNext]_exchangeVars

\* The thread in io_service::run() is not idle while a handler is ready.  Requests
\* are finitely many, and each handler uses up an event, so that it gets round
\* to all of them.  A client that waits reads its reply or learns that the
\* server is gone; nobody has to connect, ask or leave.
ExchangeFairSpec ==
    /\ ExchangeSpec
    /\ WF_exchangeVars(\E s \in 1 .. created : ServerStep(s))
    /\ \A c \in Clients : WF_exchangeVars(TakeReply(c) \/ MissServer(c))

-----------------------------------------------------------------------------
(* Properties *)

\* A client that is let in holds the account of the login it typed, and nothing
\* it does later takes it to another (Client.cpp:68-76, 96-106; core.cpp:10-35).
OwnAccount ==
    \A c \in Clients :
        /\ known[c] <=> my_id[c] # 0
        /\ known[c] => my_id[c] \in DOMAIN users /\ users[my_id[c]].login = owner[c]

\* What one account gains another loses, in every state of every loop: with the
\* repository's client no request carries a uid without an account, so the
\* early returns of core.cpp:50 and 83 are never taken.
MoneyConserved ==
    /\ SumFunction([uid \in DOMAIN users |-> users[uid].usd]) = 0
    /\ SumFunction([uid \in DOMAIN users |-> users[uid].rub]) = 0

\* The engine has taken the request: it is answered, or the engine is in it.
IsTaken(c, n) ==
    /\ n \in DOMAIN said[c]
    /\ n <= served[c] \/ (serving # 0 /\ peer[serving] = c /\ n = served[c] + 1)

\* The engine has every order just as often as clients that hold the account of its
\* uid have typed it, in the requests taken: none is lost, run twice or altered,
\* whatever became of connections and pieces in between (Client.cpp:109-134,
\* Server.cpp:71-76).
OrdersAreTyped ==
    \A uid \in DOMAIN users, side \in {"buy", "sell"}, volume \in Volumes, cost \in Prices :
        Cardinality({i \in DOMAIN orders :
                        /\ orders[i].uid = uid /\ orders[i].type = side
                        /\ orders[i].volume = volume /\ orders[i].price = cost})
        = Cardinality({t \in Clients \X (1 .. MaxRequests) :
                          /\ IsTaken(t[1], t[2]) /\ my_id[t[1]] = uid
                          /\ said[t[1]][t[2]] = [op |-> side, uid |-> uid,
                                                vol |-> volume, cost |-> cost]})

=============================================================================
