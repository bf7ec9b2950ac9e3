-------------------------------- MODULE Deal --------------------------------
(***************************************************************************)
(* Orders and fills of the exchange: 3/deal.h and 3/deal.cpp.              *)
(*                                                                         *)
(* BuyDeal and SellDeal differ only in the direction of their comparisons, *)
(* so one record type stands for both and carries the class as "type".     *)
(* The field "id" is a ghost: the position of the order in the sequence of *)
(* all orders ever submitted.  No definition of this module reads it; the  *)
(* properties use it to follow one order through the book.                 *)
(* std::chrono time points are integers, my_long is an unbounded integer   *)
(* (the width is abstracted: see the README).                              *)
(***************************************************************************)
EXTENDS Integers, Sequences

Sides == {"buy", "sell"}

\* A BuyDeal or SellDeal object.
DealType == [id : Nat, type : Sides, uid : Nat, volume : Int, price : Int,
             time : Int, isClosed : BOOLEAN]

\* The constructors: a deal is open when it is built, from explicit arguments
\* or by copying another one.
NewDeal(id, type, uid, volume, price, time) ==
    [id |-> id, type |-> type, uid |-> uid, volume |-> volume,
     price |-> price, time |-> time, isClosed |-> FALSE]

\* The copy constructors pass every field on except isClosed.
CopyOf(deal) == [deal EXCEPT !.isClosed = FALSE]

-----------------------------------------------------------------------------
(* Faulty variants of the operators below, one slip each.  No definition uses *)
(* them: the mutation runs put one in the place of the operator it varies.    *)

LessYoungest(a, b) ==      \* the younger order first
    \/ IF a.type = "buy" THEN a.price > b.price ELSE a.price < b.price
    \/ a.price = b.price /\ a.time > b.time
    \/ a.price = b.price /\ a.time = b.time /\ a.uid < b.uid
LessDearest(a, b) ==       \* the comparison of buys copied to sells
    \/ a.price > b.price
    \/ a.price = b.price /\ a.time < b.time
    \/ a.price = b.price /\ a.time = b.time /\ a.uid < b.uid
IsCompatibleStrict(buy, sell) == buy.price > sell.price
getDealPriceYoungest(buy, sell) ==
    IF buy.time > sell.time THEN buy.price ELSE sell.price
getDealVolumeOfBuy(buy, sell) == buy.volume
ReducedUntouched(deal, minVolume) ==
    IF deal.volume = minVolume THEN [deal EXCEPT !.isClosed = TRUE] ELSE deal

-----------------------------------------------------------------------------
(* Comparisons *)

\* BuyDeal::operator< and SellDeal::operator<: the order of the two books.
\* The better price goes first, then the older order, then the smaller uid.
Less(a, b) ==
    \/ IF a.type = "buy" THEN a.price > b.price ELSE a.price < b.price
    \/ a.price = b.price /\ a.time < b.time
    \/ a.price = b.price /\ a.time = b.time /\ a.uid < b.uid

\* BuyDeal::IsCompatible and SellDeal::IsCompatible.
IsCompatible(buy, sell) == buy.price >= sell.price

-----------------------------------------------------------------------------
(* One fill between a buy order and a sell order *)

\* The price of the older order; the seller's when both have the same time.
getDealPrice(buy, sell) ==
    IF buy.time < sell.time THEN buy.price ELSE sell.price

getDealVolume(buy, sell) ==
    IF sell.volume < buy.volume THEN sell.volume ELSE buy.volume

\* What completeDeals leaves of one order: closed when it is filled whole (its
\* volume is not touched then), reduced otherwise.
Reduced(deal, minVolume) ==
    IF deal.volume = minVolume THEN [deal EXCEPT !.isClosed = TRUE]
                               ELSE [deal EXCEPT !.volume = @ - minVolume]

\* The record of the fill that goes to one side's history.
Filled(deal, minVolume, dealPrice) ==
    [deal EXCEPT !.volume = minVolume, !.price = dealPrice, !.isClosed = TRUE]

\* completeDeals: the two orders after the fill, and the two fill records.
completeDeals(buy, sell) ==
    LET minVolume == getDealVolume(buy, sell)
        dealPrice == getDealPrice(buy, sell)
    IN  [buy    |-> Reduced(buy, minVolume),
         sell   |-> Reduced(sell, minVolume),
         first  |-> Filled(buy, minVolume, dealPrice),
         second |-> Filled(sell, minVolume, dealPrice)]

=============================================================================
