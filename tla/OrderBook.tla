------------------------------ MODULE OrderBook ------------------------------
(***************************************************************************)
(* The two order books of 1/Order.h, OrderBookVector and OrderBookMultiset,*)
(* given the same calls, as run.cpp and OrderBookTester give them.  The    *)
(* books share nothing, so a call on one and the same call on the other    *)
(* are one step here, and the two can be compared after every call.        *)
(*                                                                         *)
(* A position is an index into a book as it is at the moment of the call.  *)
(* The vector is in order of arrival until displayTopOrders sorts it; the  *)
(* multiset is always in order of price.                                   *)
(***************************************************************************)
EXTENDS Integers, Sequences, SequencesExt

CONSTANTS Prices,     \* prices of orders
          Top,        \* how many orders displayTopOrders shows: 10 in the code
          MaxOrders   \* bound on the number of orders made

ASSUME OrderBookAssumption ==
    /\ Prices \subseteq Int
    /\ Top \in Nat \ {0}
    /\ MaxOrders \in Nat

VARIABLES vector,    \* OrderBookVector::orders
          multiset,  \* OrderBookMultiset::orders, in iteration order
          shown,     \* what the last displayTopOrders of each book printed
          made,      \* number of orders made so far
          status,    \* "running"; "thrown" out of main; "undefined" behaviour met
          aligned    \* ghost: positions have only been used on a sorted vector

bookVars == <<vector, multiset, shown, made, status, aligned>>

\* An order has a price and the rest: its number stands for volume and type, which
\* the books keep and never look at.
Order(price, number) == [price |-> price, number |-> number]

OrderBookInit ==
    /\ vector = <<>> /\ multiset = <<>>
    /\ shown = [vector |-> <<>>, multiset |-> <<>>]
    /\ made = 0
    /\ status = "running"
    /\ aligned = TRUE

-----------------------------------------------------------------------------
(* The multiset *)

Compare(a, b) == a.price > b.price

\* Faulty variant of Inserted: hinted insertion, before the orders of its price.
InsertedLowerBound(book, order) ==
    LET k == CHOOSE k \in 0 .. Len(book) :
                /\ \A i \in 1 .. k : Compare(book[i], order)
                /\ \A i \in (k + 1) .. Len(book) : ~Compare(book[i], order)
    IN  InsertAt(book, k + 1, order)

\* std::multiset::insert: behind every order that need not come after it.
Inserted(book, order) ==
    LET k == CHOOSE k \in 0 .. Len(book) :
                /\ \A i \in 1 .. k : ~Compare(order, book[i])
                /\ \A i \in (k + 1) .. Len(book) : Compare(order, book[i])
    IN  InsertAt(book, k + 1, order)

\* Faulty variant of ModifyAt: the new order is inserted in any case.
ModifyAtOrAdd(book, index, order) ==
    IF index < Len(book) THEN Inserted(RemoveAt(book, index + 1), order)
                         ELSE Inserted(book, order)

\* OrderBookMultiset::modifyOrder: erased and inserted, ignored out of range.
ModifyAt(book, index, order) ==
    IF index < Len(book) THEN Inserted(RemoveAt(book, index + 1), order) ELSE book

\* OrderBookMultiset::deleteOrder: ignored out of range.
DeleteAt(book, index) == IF index < Len(book) THEN RemoveAt(book, index + 1) ELSE book

-----------------------------------------------------------------------------
(* The vector *)

\* The comparison of displayTopOrders.
Sorted(book) == \A i, j \in DOMAIN book : i < j => book[i].price >= book[j].price

\* Faulty variant of Arrangements: with >= for a comparison, what is left is undefined,
\* an order twice and another not at all for example.
ArrangementsNotStrict(book) == {s \in [DOMAIN book -> ToSet(book)] : Sorted(s)}

\* What std::sort may leave: any arrangement in order, orders of one price in any
\* order among themselves.  The orders of a book are distinct, so an arrangement
\* of them is one without repetition.
Arrangements(book) == {s \in [DOMAIN book -> ToSet(book)] : Sorted(s) /\ IsInjective(s)}

\* Faulty variant of Shown: the first line is skipped.
ShownFromSecond(book) == SubSeq(book, 2, IF Len(book) < Top THEN Len(book) ELSE Top)

\* The lines displayTopOrders prints.
Shown(book) == SubSeq(book, 1, IF Len(book) < Top THEN Len(book) ELSE Top)

-----------------------------------------------------------------------------
(* The calls *)

addOrder(price) ==
    /\ status = "running"
    /\ made < MaxOrders
    /\ made' = made + 1
    /\ vector' = Append(vector, Order(price, made'))
    /\ multiset' = Inserted(multiset, Order(price, made'))
    /\ UNCHANGED <<shown, status, aligned>>

\* std::vector::at throws out_of_range, which nothing catches.
modifyOrder(index, price) ==
    /\ status = "running"
    /\ made < MaxOrders
    /\ made' = made + 1
    /\ IF index < Len(vector)
       THEN /\ vector' = [vector EXCEPT ![index + 1] = Order(price, made')]
            /\ UNCHANGED status
       ELSE status' = "thrown" /\ UNCHANGED vector
    /\ multiset' = ModifyAt(multiset, index, Order(price, made'))
    /\ aligned' = (aligned /\ Sorted(vector))
    /\ UNCHANGED shown

\* erase(begin() + index) is defined for a position of the vector only.
deleteOrder(index) ==
    /\ status = "running"
    /\ IF index < Len(vector)
       THEN vector' = RemoveAt(vector, index + 1) /\ UNCHANGED status
       ELSE status' = "undefined" /\ UNCHANGED vector
    /\ multiset' = DeleteAt(multiset, index)
    /\ aligned' = (aligned /\ Sorted(vector))
    /\ UNCHANGED <<shown, made>>

displayTopOrders ==
    /\ status = "running"
    /\ vector' \in Arrangements(vector)
    /\ shown' = [vector |-> Shown(vector'), multiset |-> Shown(multiset)]
    /\ UNCHANGED <<multiset, made, status, aligned>>

OrderBookNext ==
    \/ \E price \in Prices : addOrder(price)
    \/ \E index \in 0 .. MaxOrders, price \in Prices : modifyOrder(index, price)
    \/ \E index \in 0 .. MaxOrders : deleteOrder(index)
    \/ displayTopOrders

OrderBookSpec == OrderBookInit /\ [][OrderBookNext]_bookVars

-----------------------------------------------------------------------------
(* Properties *)

Orders == [price : Prices, number : 1 .. MaxOrders]

\* Every variable has its type, and no order is in a book twice (Order.h:34).
OrderBookTypeOK ==
    /\ vector \in Seq(Orders) /\ IsInjective(vector)
    /\ multiset \in Seq(Orders) /\ IsInjective(multiset)
    /\ shown.vector \in Seq(Orders) /\ shown.multiset \in Seq(Orders)
    /\ made \in 0 .. MaxOrders
    /\ status \in {"running", "thrown", "undefined"}
    /\ aligned \in BOOLEAN

\* The multiset is by price and, at one price, by arrival, where an order that has
\* been modified arrives anew: orders of one price keep their turn through
\* any insertions and removals around them (Order.h:66-94).
PriceThenArrival ==
    \A i, j \in DOMAIN multiset : i < j =>
        \/ multiset[i].price > multiset[j].price
        \/ /\ multiset[i].price = multiset[j].price
           /\ multiset[i].number < multiset[j].number

PriceCount(book, price) == Cardinality({i \in DOMAIN book : book[i].price = price})

\* Books that were given the same calls are of one size, whatever positions were
\* used: the three treatments of a position out of range (Order.h:45, 49, 80, 89)
\* never make one book longer.  They hold the same prices too, if every position
\* was used while the vector was sorted, right after displayTopOrders for
\* example: then a position means the same price in both, though equal prices
\* may stand in a different order (Order.h:44-53, 79-94).
BooksAgree ==
    status # "undefined" =>
        /\ Len(vector) = Len(multiset)
        /\ aligned => \A price \in Prices :
              PriceCount(vector, price) = PriceCount(multiset, price)

\* The lines are as many as there can be, all from the book, and no order that is
\* left out has a better price than any of them.
IsBest(lines, book) ==
    /\ Len(lines) = (IF Len(book) < Top THEN Len(book) ELSE Top)
    /\ \A i \in DOMAIN lines :
          /\ lines[i] \in ToSet(book)
          /\ \A order \in ToSet(book) \ ToSet(lines) : lines[i].price >= order.price

\* No order is displayed in place of a better one, in either book and after any
\* history of changes to an unsorted vector (Order.h:52-58, 96-102).
BestShown ==
    [][displayTopOrders => IsBest(shown'.vector, vector) /\ IsBest(shown'.multiset, multiset)]_bookVars

=============================================================================
