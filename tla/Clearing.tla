------------------------------ MODULE Clearing ------------------------------
(***************************************************************************)
(* What the exchange promises, without books, loops or calls: accounts     *)
(* with two balances, a set of open orders, and trades.  One trade takes   *)
(* two open orders that agree on a price, moves dollars one way and        *)
(* roubles the other way in one step, and reduces both orders by the       *)
(* volume traded.  Core is shown to implement this module.                 *)
(***************************************************************************)
EXTENDS Integers, FiniteSets

CONSTANTS Volumes, Prices

VARIABLES balance,   \* uid -> [usd, rub], for every account
          open,      \* the open orders
          submitted  \* number of orders submitted so far

clearingVars == <<balance, open, submitted>>

OpenOrder(id, type, uid, volume, price) ==
    [id |-> id, type |-> type, uid |-> uid, volume |-> volume, price |-> price]

ClearingInit ==
    /\ balance = <<>>
    /\ open = {}
    /\ submitted = 0

OpenAccount(uid) ==
    /\ uid \notin DOMAIN balance
    /\ balance' = [u \in DOMAIN balance \cup {uid} |->
                    IF u = uid THEN [usd |-> 0, rub |-> 0] ELSE balance[u]]
    /\ UNCHANGED <<open, submitted>>

Submit(type, uid, volume, price) ==
    /\ submitted' = submitted + 1
    /\ open' = open \cup {OpenOrder(submitted', type, uid, volume, price)}
    /\ UNCHANGED balance

\* The order without the traded volume; nothing when all of it is traded.
Rest(order, volume) ==
    IF order.volume = volume THEN {} ELSE {[order EXCEPT !.volume = @ - volume]}

\* One account's balance after it received usd and rub.
Receive(bal, uid, usd, rub) ==
    [bal EXCEPT ![uid].usd = @ + usd, ![uid].rub = @ + rub]

\* A buy and a sell order trade at a price both accept, until one of them is
\* filled.  The buyer and the seller may be the same user.
TradeBetween(buy, sell, price) ==
    LET volume == IF sell.volume < buy.volume THEN sell.volume ELSE buy.volume
    IN  /\ buy.type = "buy" /\ sell.type = "sell"
        /\ sell.price <= price /\ price <= buy.price
        /\ {buy.uid, sell.uid} \subseteq DOMAIN balance
        /\ balance' = Receive(Receive(balance, buy.uid, volume, -price * volume),
                              sell.uid, -volume, price * volume)
        /\ open' = (open \ {buy, sell}) \cup Rest(buy, volume) \cup Rest(sell, volume)
        /\ UNCHANGED submitted

ClearingNext ==
    \/ OpenAccount(1 + Cardinality(DOMAIN balance))
    \/ \E type \in {"buy", "sell"}, uid \in DOMAIN balance, volume \in Volumes,
          price \in Prices : Submit(type, uid, volume, price)
    \/ \E buy, sell \in open : \E price \in {buy.price, sell.price} :
          TradeBetween(buy, sell, price)

ClearingSpec == ClearingInit /\ [][ClearingNext]_clearingVars

=============================================================================
