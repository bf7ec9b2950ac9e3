-------------------------------- MODULE Core --------------------------------
(***************************************************************************)
(* The matching engine of the exchange: class Core of 3/core.h and         *)
(* 3/core.cpp, on top of UserTable and Deal.                               *)
(*                                                                         *)
(* A call runs on the single thread of io_service::run(), so calls never   *)
(* overlap.  RegisterNewUser and TryLogin are one action each.  TryBuy and *)
(* TrySell loop over the opposite book, and each iteration leaves the      *)
(* engine in a state of its own, so a call is a sequence of steps:         *)
(*   TryBuy            the order is built and becomes "incoming",          *)
(*   MatchBuy          one iteration of the loop that fills,               *)
(*   RejectBuy         the iteration that leaves by the early return,      *)
(*   FinishBuy         the loop is left and the remainder is booked,       *)
(* and the same for TrySell.  Whatever holds in every state of this module *)
(* holds after every prefix of the loop.  The queries are operators.       *)
(***************************************************************************)
EXTENDS UserTable, Deal, SequencesExt

CONSTANTS Volumes,      \* volumes and
          Prices,       \* prices clients type in
          Ticks,        \* how far system_clock may move between two orders
          ForeignUids,  \* uids a request may carry that are nobody's account
          MaxOrders     \* bound on the number of orders submitted

ASSUME CoreAssumption ==
    /\ Volumes \subseteq Int
    /\ Prices \subseteq Int
    /\ Ticks \subseteq Int
    /\ ForeignUids \subseteq Nat
    /\ MaxOrders \in Nat

VARIABLES activeBuys,   \* std::multiset<BuyDeal>, in iteration order
          activeSells,  \* std::multiset<SellDeal>, in iteration order
          closedDeals,  \* uid -> fill records, oldest first
          incoming,     \* myDeal of the call in progress, or NoOrder
          clock,        \* system_clock::now()
          reply,        \* what the last finished call returned
          orders        \* ghost: every order as it was submitted

bookVars == <<activeBuys, activeSells, closedDeals, incoming, clock, orders>>
vars == <<tableVars, bookVars, reply>>

NoOrder == [type |-> "none"]
Errors == {"ok", "loginexists", "trevor", "404", "wrongpass"}
Reply(err, uid) == [err |-> err, uid |-> uid]

Init ==
    /\ TableInit
    /\ activeBuys = <<>>
    /\ activeSells = <<>>
    /\ closedDeals = <<>>
    /\ incoming = NoOrder
    /\ clock = 0
    /\ reply = Reply("ok", 0)
    /\ orders = <<>>

-----------------------------------------------------------------------------
(* Accounts *)

RegisterNewUser(login, pass) ==
    /\ incoming = NoOrder
    /\ reply' = IF IsLoginInTable(login)
                THEN Reply("loginexists", 0)
                ELSE Reply("ok", AddedUid(login))
    /\ IF IsLoginInTable(login) THEN UNCHANGED tableVars ELSE AddUser(login, pass)
    /\ UNCHANGED bookVars

TryLogin(login, pass) ==
    /\ incoming = NoOrder
    /\ reply' = IF ~IsLoginInTable(login) THEN Reply("trevor", 0)
                ELSE IF ~IsUserDataCorrect(login, pass) THEN Reply("wrongpass", 0)
                ELSE Reply("ok", GetUid(login))
    /\ UNCHANGED <<tableVars, bookVars>>

-----------------------------------------------------------------------------
(* The books *)

\* Where std::multiset::insert puts a deal: after the k elements that are not
\* greater than it.
UpperBound(book, deal) ==
    CHOOSE k \in 0 .. Len(book) :
        /\ \A i \in 1 .. k : ~Less(deal, book[i])
        /\ \A i \in (k + 1) .. Len(book) : Less(deal, book[i])

\* Faulty variant of Insert: push_back.
InsertLast(book, deal) == Append(book, deal)

Insert(book, deal) == InsertAt(book, UpperBound(book, deal) + 1, deal)

\* closedDeals[uid], which operator[] creates empty when it is first used.
ClosedOf(closed, uid) == IF uid \in DOMAIN closed THEN closed[uid] ELSE <<>>

\* Faulty variant of Record: the entry is assigned instead of appended to.
RecordOnly(closed, deal) == Put(closed, deal.uid, <<CopyOf(deal)>>)

\* closedDeals[deal.uid].emplace_back(new BuyDeal(deal))
Record(closed, deal) ==
    Put(closed, deal.uid, Append(ClosedOf(closed, deal.uid), CopyOf(deal)))

\* The four Add...ToUser calls of one iteration in their short-circuit order:
\* an unknown taker stops all of them, an unknown maker the last two.
Settled(taker, maker, usd, rub) ==
    IF taker \in DOMAIN users
    THEN Credit(Credit(users, taker, usd, -rub), maker, -usd, rub)
    ELSE users

-----------------------------------------------------------------------------
(* TryBuy *)

\* The order is built with the current time.
Submit(type, uid, volume, cost) ==
    /\ incoming = NoOrder
    /\ Len(orders) < MaxOrders
    /\ \E d \in Ticks : clock' = clock + d
    /\ incoming' = NewDeal(Len(orders) + 1, type, uid, volume, cost, clock')
    /\ orders' = Append(orders, incoming')
    /\ UNCHANGED <<tableVars, activeBuys, activeSells, closedDeals, reply>>

TryBuy(uid, volume, cost) == Submit("buy", uid, volume, cost)

\* The condition of TryBuy's loop.
BuyMatches ==
    /\ ~incoming.isClosed
    /\ activeSells # <<>>
    /\ IsCompatible(incoming, Head(activeSells))

MatchBuy ==
    /\ incoming.type = "buy"
    /\ BuyMatches
    /\ LET sell == Head(activeSells)
           deals == completeDeals(incoming, sell)
           dealVolume == getDealVolume(incoming, sell)
           dealPrice == getDealPrice(incoming, sell)
       IN  /\ {incoming.uid, sell.uid} \subseteq DOMAIN users
           /\ users' = Settled(incoming.uid, sell.uid, dealVolume, dealPrice * dealVolume)
           /\ closedDeals' = Record(Record(closedDeals, deals.first), deals.second)
           /\ activeSells' = IF deals.sell.isClosed
                             THEN Tail(activeSells)
                             ELSE Insert(Tail(activeSells), CopyOf(deals.sell))
           /\ incoming' = deals.buy
    /\ UNCHANGED <<maxUid, logins, activeBuys, clock, reply, orders>>

\* Faulty variant of RejectBuy: the accounts are looked up before anything is
\* erased, and the loop goes on instead of returning.
RejectBuyAgain ==
    /\ incoming.type = "buy"
    /\ BuyMatches
    /\ ~({incoming.uid, Head(activeSells).uid} \subseteq DOMAIN users)
    /\ UNCHANGED vars

\* The early return: the resting order is erased already, and the taker is
\* credited when only the maker is unknown.
RejectBuy ==
    /\ incoming.type = "buy"
    /\ BuyMatches
    /\ LET sell == Head(activeSells)
           dealVolume == getDealVolume(incoming, sell)
           dealPrice == getDealPrice(incoming, sell)
       IN  /\ ~({incoming.uid, sell.uid} \subseteq DOMAIN users)
           /\ users' = Settled(incoming.uid, sell.uid, dealVolume, dealPrice * dealVolume)
    /\ activeSells' = Tail(activeSells)
    /\ incoming' = NoOrder
    /\ reply' = Reply("404", 0)
    /\ UNCHANGED <<maxUid, logins, activeBuys, closedDeals, clock, orders>>

FinishBuy ==
    /\ incoming.type = "buy"
    /\ ~BuyMatches
    /\ activeBuys' = IF incoming.isClosed
                     THEN activeBuys
                     ELSE Insert(activeBuys, CopyOf(incoming))
    /\ incoming' = NoOrder
    /\ reply' = Reply("ok", 0)
    /\ UNCHANGED <<tableVars, activeSells, closedDeals, clock, orders>>

-----------------------------------------------------------------------------
(* TrySell *)

TrySell(uid, volume, cost) == Submit("sell", uid, volume, cost)

\* The condition of TrySell's loop.
SellMatches ==
    /\ ~incoming.isClosed
    /\ activeBuys # <<>>
    /\ IsCompatible(Head(activeBuys), incoming)

MatchSell ==
    /\ incoming.type = "sell"
    /\ SellMatches
    /\ LET buy == Head(activeBuys)
           deals == completeDeals(buy, incoming)
           dealVolume == getDealVolume(buy, incoming)
           dealPrice == getDealPrice(buy, incoming)
       IN  /\ {incoming.uid, buy.uid} \subseteq DOMAIN users
           /\ users' = Settled(incoming.uid, buy.uid, -dealVolume, -dealPrice * dealVolume)
           /\ closedDeals' = Record(Record(closedDeals, deals.first), deals.second)
           /\ activeBuys' = IF deals.buy.isClosed
                            THEN Tail(activeBuys)
                            ELSE Insert(Tail(activeBuys), CopyOf(deals.buy))
           /\ incoming' = deals.sell
    /\ UNCHANGED <<maxUid, logins, activeSells, clock, reply, orders>>

RejectSell ==
    /\ incoming.type = "sell"
    /\ SellMatches
    /\ LET buy == Head(activeBuys)
           dealVolume == getDealVolume(buy, incoming)
           dealPrice == getDealPrice(buy, incoming)
       IN  /\ ~({incoming.uid, buy.uid} \subseteq DOMAIN users)
           /\ users' = Settled(incoming.uid, buy.uid, -dealVolume, -dealPrice * dealVolume)
    /\ activeBuys' = Tail(activeBuys)
    /\ incoming' = NoOrder
    /\ reply' = Reply("404", 0)
    /\ UNCHANGED <<maxUid, logins, activeSells, closedDeals, clock, orders>>

FinishSell ==
    /\ incoming.type = "sell"
    /\ ~SellMatches
    /\ activeSells' = IF incoming.isClosed
                      THEN activeSells
                      ELSE Insert(activeSells, CopyOf(incoming))
    /\ incoming' = NoOrder
    /\ reply' = Reply("ok", 0)
    /\ UNCHANGED <<tableVars, activeBuys, closedDeals, clock, orders>>

-----------------------------------------------------------------------------
(* Queries: what they answer to a user who has an account *)

GetUserBalance(uid) == [usd |-> users[uid].usd, rub |-> users[uid].rub]

\* What one of the two loops puts into the answer, deal by deal of the book.
Owned(book, uid) ==
    LET owned[n \in 0 .. Len(book)] ==
            IF n = 0 THEN <<>>
            ELSE IF book[n].uid = uid THEN Append(owned[n - 1], book[n]) ELSE owned[n - 1]
    IN  owned[Len(book)]

\* Buys in book order, then sells in book order.
GetUserActiveDeals(uid) == Owned(activeBuys, uid) \o Owned(activeSells, uid)

GetUserClosedDeals(uid) == ClosedOf(closedDeals, uid)

\* The two quotes, each a sequence that is empty when that book is.
GetBestPrices ==
    [buy  |-> IF activeBuys # <<>> THEN <<Head(activeBuys).price>> ELSE <<>>,
     sell |-> IF activeSells # <<>> THEN <<Head(activeSells).price>> ELSE <<>>]

-----------------------------------------------------------------------------

Account ==
    \E login \in Logins, pass \in Passwords :
        RegisterNewUser(login, pass) \/ TryLogin(login, pass)

Trade ==
    \E uid \in DOMAIN users \cup ForeignUids, volume \in Volumes, cost \in Prices :
        TryBuy(uid, volume, cost) \/ TrySell(uid, volume, cost)

\* The rest of a TryBuy or TrySell once it is called.
Run == MatchBuy \/ RejectBuy \/ FinishBuy \/ MatchSell \/ RejectSell \/ FinishSell

Next == Account \/ Trade \/ Run

Spec == Init /\ [][Next]_vars

\* A handler that runs is not suspended for ever: io_service::run() executes it
\* to its end.  Nothing makes clients call.
FairSpec == Spec /\ WF_vars(Run)

=============================================================================
