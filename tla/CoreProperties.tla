--------------------------- MODULE CoreProperties ---------------------------
(***************************************************************************)
(* The properties of Core.  "Shown" means what a query answers; queries    *)
(* are answered between calls, when no order is in flight.                 *)
(***************************************************************************)
EXTENDS Core

Quiescent == incoming = NoOrder

\* The deals one book holds: open, and of one class.
Resting(side) == {d \in DealType : d.type = side /\ ~d.isClosed}

\* The elements come in the order of operator<.
Sorted(book) ==
    \A i, j \in DOMAIN book : i < j => ~Less(book[j], book[i])

\* Sum of f(i) over the entries of a history that satisfy P.
SumWhere(history, f(_), P(_)) ==
    SumFunctionOnSet([i \in DOMAIN history |-> f(history[i])],
                     {i \in DOMAIN history : P(history[i])})

\* The volume with its sign for the owner: dollars received.
Dollars(fill) == IF fill.type = "buy" THEN fill.volume ELSE -fill.volume
Roubles(fill) == -Dollars(fill) * fill.price
AnyFill(fill) == TRUE

\* The fills that a step adds to the histories.
NewFills ==
    UNION { {closedDeals'[uid][i] :
               i \in (Len(ClosedOf(closedDeals, uid)) + 1) .. Len(closedDeals'[uid])} :
            uid \in DOMAIN closedDeals' }

-----------------------------------------------------------------------------

\* Every variable of the engine stays in its type: accounts have uids 1 .. maxUid-1
\* (User.cpp:27), the two books hold open orders of their own class, and
\* histories hold fill records (core.h:36-39).
TypeOK ==
    /\ maxUid \in Nat \ {0}
    /\ users \in [1 .. (maxUid - 1) -> UserType]
    /\ DOMAIN logins \subseteq Logins
    /\ \A login \in DOMAIN logins : logins[login] \in DOMAIN users
    /\ activeBuys \in Seq(Resting("buy"))
    /\ activeSells \in Seq(Resting("sell"))
    /\ DOMAIN closedDeals \subseteq DOMAIN users
    /\ \A uid \in DOMAIN closedDeals : closedDeals[uid] \in Seq(DealType)
    /\ incoming \in DealType \cup {NoOrder}
    /\ clock \in Int
    /\ reply \in [err : Errors, uid : Nat]
    /\ orders \in Seq(DealType)

\* After every iteration of either loop, also when it has been left by the early
\* return, each resting buy is priced below each resting sell: the loop
\* takes every compatible order off the book before it rests the remainder
\* (core.cpp:39-64, 72-97).
NotCrossed ==
    \A i \in DOMAIN activeBuys, j \in DOMAIN activeSells :
        activeBuys[i].price < activeSells[j].price

\* Both books are in the order of operator< after every step (deal.cpp:17-21,
\* 57-61), whatever the clock does: begin() is what the loops take, so an order
\* out of place would be filled out of turn or never.  An order put back after a
\* partial fill goes in by its original time, and no erased order comes back.
BooksSorted == Sorted(activeBuys) /\ Sorted(activeSells)

\* The best prices shown are those of the best resting orders of all users
\* (core.cpp:133-141), although only the first element of each book is read.
BestQuotes ==
    Quiescent =>
        \A uid \in DOMAIN users : \A i \in DOMAIN GetUserActiveDeals(uid) :
            LET deal == GetUserActiveDeals(uid)[i]
            IN  IF deal.type = "buy"
                THEN deal.price <= GetBestPrices.buy[1]
                ELSE deal.price >= GetBestPrices.sell[1]

\* A user's balance shown is explained by the closed deals shown to that user,
\* and nothing else: the two are updated by separate statements
\* (core.cpp:46-54, 79-87), for maker and taker.
LedgerMatchesDeals ==
    Quiescent =>
        \A uid \in DOMAIN users :
            /\ GetUserBalance(uid).usd = SumWhere(GetUserClosedDeals(uid), Dollars, AnyFill)
            /\ GetUserBalance(uid).rub = SumWhere(GetUserClosedDeals(uid), Roubles, AnyFill)

\* No part of an order is lost or filled twice: for each order, what its owner
\* sees active plus what the owner sees closed is the volume submitted
\* (readme.md:13-14), over any number of partial fills and reinsertions.
VolumeAccounted ==
    Quiescent =>
        \A id \in DOMAIN orders :
            LET uid == orders[id].uid
                OfOrder(deal) == deal.id = id
                Volume(deal) == deal.volume
            IN  SumWhere(GetUserActiveDeals(uid), Volume, OfOrder)
                  + SumWhere(GetUserClosedDeals(uid), Volume, OfOrder)
                = orders[id].volume

\* What the orders of a side are worth at their limits, and their volume, over the
\* owners in uids.
Worth(side, uids) ==
    SumFunctionOnSet([i \in DOMAIN orders |-> orders[i].volume * orders[i].price],
                     {i \in DOMAIN orders : orders[i].type = side /\ orders[i].uid \in uids})
Ordered(side, uid) ==
    SumFunctionOnSet([i \in DOMAIN orders |-> orders[i].volume],
                     {i \in DOMAIN orders : orders[i].type = side /\ orders[i].uid = uid})

\* No balance leaves what the orders submitted so far are worth, in any iteration
\* and after every early return: a user never gives more dollars than offered nor
\* pays more than the limits allow, and never gets more roubles than all buyers
\* offered.  The 64 bits of a balance suffice as long as they hold these sums
\* (core.cpp:46-49, 79-82; User.h:46,48).  For volumes and prices that are not
\* negative.
WithinTurnover ==
    \A uid \in DOMAIN users :
        /\ users[uid].usd \in (-Ordered("sell", uid)) .. Ordered("buy", uid)
        /\ users[uid].rub >= -Worth("buy", {uid})
        /\ users[uid].rub <= Worth("buy", {orders[i].uid : i \in DOMAIN orders})

\* The two account maps index each other: a login leads to the account with that
\* login and each account is reached by its login (User.cpp:25-34), so
\* nobody's login ever leads to somebody else's balance.
AccountIndex ==
    /\ \A login \in DOMAIN logins : users[logins[login]].login = login
    /\ \A uid \in DOMAIN users : users[uid].login \in DOMAIN logins
                                 /\ logins[users[uid].login] = uid

\* An order that rests on the book is filled only when no order of its side has
\* a better price, or the same price and was submitted earlier, even after
\* partial fills put it back into the book (deal.cpp:17-21, 57-61,
\* core.cpp:56-58).  Holds for a clock that advances between orders.
PriceTimePriority ==
    [][\A fill \in {f \in NewFills : f.id # incoming.id} :
          LET book == IF fill.type = "buy" THEN activeBuys ELSE activeSells
              limit == orders[fill.id].price
          IN  \A i \in DOMAIN book :
                 /\ IF fill.type = "buy" THEN book[i].price <= limit
                                         ELSE book[i].price >= limit
                 /\ book[i].price = limit => fill.id <= book[i].id]_vars

\* The price of a fill is the resting order's own price, and the incoming order
\* gets it too (deal.cpp:96-98; test.cpp:338-371).  Holds for a clock that
\* advances between orders.
MakerPrice ==
    [][\A f, g \in NewFills :
          /\ f.id # incoming.id => f.price = orders[f.id].price
          /\ f.price = g.price]_vars

\* A call that has started returns: every iteration closes the incoming order or
\* takes a resting order off the book for good, also when one of the two has no
\* volume and the fill is of nothing (core.cpp:39, 72).
CallReturns == (incoming # NoOrder) ~> (incoming = NoOrder)

-----------------------------------------------------------------------------
(* Refinement of Clearing *)

\* The orders that can still trade: both books and the order in flight.
OpenOrders ==
    LET Live == ToSet(activeBuys) \cup ToSet(activeSells)
                  \cup (IF Quiescent THEN {} ELSE {incoming})
    IN  {[id |-> d.id, type |-> d.type, uid |-> d.uid, volume |-> d.volume,
          price |-> d.price] : d \in {e \in Live : ~e.isClosed}}

Balances == [uid \in DOMAIN users |-> GetUserBalance(uid)]

Abstract == INSTANCE Clearing
    WITH balance <- Balances, open <- OpenOrders, submitted <- Len(orders)

\* The engine implements Clearing: an iteration of a loop is one trade, with both
\* balances and both orders updated together and a price within both limits;
\* resting or answering changes nothing a client could trade or own
\* (core.cpp:37-100).
ImplementsClearing == Abstract!ClearingSpec

=============================================================================
