# Verification of company-task

The repository is a collection of small C++ programs. Two of them keep state that
is shared, ordered and long-lived: the currency exchange in `3/` and the threaded
HTTP server in `7/`. Three more keep state that a sequence of calls can bring into a
bad shape: the order books of `1/`, the array of `6/`, and the response parser of the
message library in `7/server_full/`. This directory holds TLA+ models of them, TLC
configurations that check the models on small instances, and theorems whose proofs
TLAPS checks. Paths below are relative to the repository's root.

## 1. Inventory

| part | source | state | operations | status |
|---|---|---|---|---|
| exchange core | `3/core.*`, `3/deal.*`, `3/User.*` | two `multiset`s of orders, histories of fills per user, accounts by uid and uids by login | `RegisterNewUser`, `TryLogin`, `TryBuy`, `TrySell`, four queries | modelled |
| exchange connections | `3/Server.cpp` | session objects, the operations pending in `io_service`, sockets | `handle_accept`, `handle_read`, `handle_write` with and without an error | modelled |
| exchange client | `3/Client.cpp` | uid, one request at a time | connect, menus, `SendMessage`, `ReadMessage` | modelled |
| thread pool | `7/Server.h:37-88` (the same text in `7/server_full/include/Threadpool.h`) | mutex, condition variable, queue, stop flag, threads | worker loop, `Enqueue`, destructor | modelled |
| HTTP server | `7/Server.h:90-270` | listening and client descriptor, shared map of hit counters | accept loop, receive, reply, queue, the queued closure, `CountHits` | modelled |
| HTTP client | `7/Client.cpp` | a socket, requests done | connect, send in two parts, read once, close | modelled |
| order book exercise | `1/Order.h` | a vector and a `multiset` of orders by price | add, modify and delete by position, show the ten best | modelled |
| array exercise | `6/main.cpp` | `CTestArray`: buffer, length, capacity | add, take, insert, delete, read, clear, sort | modelled |
| HTTP message library | `7/server_full/` | headers, cookies, body of a response | parse | partly |
| curves, shapes | `2/run.cpp`, `5/` | none that lasts | geometry, drawing | no |
| build, tests, vendored code | `CMakeLists.txt`, tests, JSON and `doctest` headers | none | none | no |

### How the parts interact

The exchange server is one thread in `io_service::run()`. It calls the core from
`handle_read`, so calls of the core never overlap. The handlers of different
sessions interleave freely, and each is an action of its own. Clients and server
are separate processes that share two byte streams per connection.

The HTTP server is one accept thread that receives, answers and queues each GET
request, and five workers of the pool that run the queued closures. They share
the pool's queue (under the mutex), the counters (under no lock) and, through
captured references, local variables of the accept thread's stack. Its clients are
processes of their own, each with one connection at a time, which the accept thread
serves one after the other.

The order books, the array and the message library are called from one thread.
`1/run.cpp` and the tester give the two order books the same calls.

### What is hard, and what correct means

* **Core.** Everything hard is in the loop inside one call. Each iteration takes the
  first order off the opposite book, moves money, writes two histories and may put
  a copy of the rest back into a `multiset`; an early return may leave the loop in
  the middle. Correct: books stay in order and never cross, nobody's volume is
  lost or doubled over any number of partial fills, older and better orders go
  first, the price is the resting order's, balances equal what the shown deals
  explain, the two account maps agree, every call returns.
* **Connections and client.** Session objects are raw pointers that handlers delete.
  TCP does not keep message borders, clients vanish at any moment, accepts fail.
  Correct: no handler on a deleted object, one pending operation each, no client
  loses its session, no request is run twice, no order is lost or placed for another
  account, no client is let in as somebody else, every request is answered.
* **Pool.** Little state, many interleavings: notification against sleep, shutdown
  against a full queue, `Enqueue` against the destructor. Correct: tasks run once
  and start in order, no wakeup is lost, nothing accepted is left behind, the
  destructor returns.
* **HTTP server and clients.** Lifetime of what a closure refers to, unlocked
  counters, early returns that have to close a descriptor, one thread that a slow
  client can hold up, one descriptor that is closed up to three times. Correct:
  descriptors are closed and no other is, a client is told "queued" only for what is
  queued once, what is counted is what came, everybody is served.
* **Order books.** A position means something else in a vector that is not sorted, and
  each book treats one out of range in its own way. Correct: the books agree as far
  as positions allow, and neither shows an order in place of a better one.
* **Array.** Growth and shifting in raw memory. Correct: what a list would do.
* **Message library.** Loops that advance by what they match, an assertion on input.
  Correct: the parser hands on what a server writes as it was written, and ends with
  any text.

`PROJECT.json` lists each hazard at its line with the properties that cover it.

## 2. Modules

```
Deal -----+
          +--- Core --- CoreProperties --- CoreProofs ------------------ LedgerProofs
UserTable-+     |          |      |                                            |
                |       MCCore  Clearing (refined, INSTANCE)                   |
                |                                                              |
                +-- Exchange ------------------------------------------ ExchangeProofs
Sessions -------+

Threadpool --- HttpServer --- HttpTraffic          OrderBook --- OrderBookProofs
  |     \                          |
  |   TaskQueue (refined)          |               CTestArray --- ArrayProofs
  |                                |                   |
ThreadpoolProofs ------------- HttpProofs           IntList (refined)

HttpMessage --- MCHttpMessage
     |
MessageProofs          Exercises = OrderBook, CTestArray and MCHttpMessage, side by side
```

| module | models | remarks |
|---|---|---|
| `Deal` | `3/deal.h`, `3/deal.cpp` | `BuyDeal` and `SellDeal` are one record with the class in `type`; `Less` is both `operator<`, `completeDeals` the fill |
| `UserTable` | `3/User.h`, `3/User.cpp` | two functions, `users` and `logins`; `Credit` is one `AddUsdToUser` followed by one `AddRubToUser` |
| `Core` | `3/core.h`, `3/core.cpp` | a `multiset` is a sequence in iteration order, `Insert` puts a deal where `multiset::insert` does |
| `CoreProperties` | - | the properties, and the mapping to `Clearing` |
| `Clearing` | - | abstract specification: accounts, a set of open orders, trades that are one step |
| `MCCore` | - | sets a cfg cannot write |
| `CoreProofs` | - | the order books as ordered sequences; what is in them; whom the loops serve and at what price; `Core` implements `Clearing` |
| `LedgerProofs` | - | sums: balances, volumes, turnover |
| `ExchangeProofs` | - | theorems about `Sessions` and `Exchange`; everything proved of `Core` holds in the exchange |
| `Threadpool` | `7/Server.h:37-88` | a program counter per thread, mutex, sleepers, spurious wakeups |
| `TaskQueue` | - | abstract specification: a bounded number of tasks in progress, no threads |
| `ThreadpoolProofs` | - | theorems about `Threadpool` |
| `Sessions` | `3/Server.cpp`, `3/Client.cpp` | pending operations as a set of pairs, bytes as pieces of messages |
| `Exchange` | `3/Server.cpp:42-106` and `3/Client.cpp` with `3/core.cpp` | `Core` composed with `Sessions`: what each request says and what the engine does with it |
| `HttpServer` | `7/Server.h:90-270` | EXTENDS `Threadpool`: the accept thread is its only producer and the closures are its tasks |
| `HttpTraffic` | `7/Client.cpp` with `7/Server.h` | `HttpServer` with clients and the connections between them |
| `HttpProofs` | - | theorems about `HttpServer` and `HttpTraffic`, on top of `ThreadpoolProofs` |
| `OrderBook` | `1/Order.h` | both books under the same calls |
| `OrderBookProofs` | - | theorems about `OrderBook` |
| `CTestArray` | `6/main.cpp` | the block of memory, cell by cell |
| `ArrayProofs` | - | theorems about `CTestArray` |
| `IntList` | - | abstract specification: a list of values |
| `HttpMessage` | `7/server_full/` | the response parser, a text as a sequence of tokens |
| `MCHttpMessage` | - | the texts it is checked with |
| `MessageProofs` | - | where the parser's scans stop; every message is read as it was written |
| `Exercises` | - | a behaviour of one of the three sequential programs, for one run that checks them all |

### Core

| code | model |
|---|---|
| `RegisterNewUser`, `TryLogin` | an action each |
| the lines of `TryBuy` before its loop (`core.cpp:37-38`) | `TryBuy`, which makes the order `incoming` |
| one iteration that goes through (`:39-59`) | `MatchBuy` |
| the iteration that returns early (`:46-51`) | `RejectBuy`: the resting order is already erased and, when only the maker is unknown, the taker is already credited |
| after the loop (`:61-65`) | `FinishBuy` |
| `TrySell` (`:70-100`) | `TrySell`, `MatchSell`, `RejectSell`, `FinishSell` |
| queries (`:102-141`) | operators `GetUserBalance`, `GetUserActiveDeals`, `GetUserClosedDeals`, `GetBestPrices` |

A call is split into its iterations on purpose: an invariant of the model holds
after every prefix of the loop and not only when the call has returned. The clock
is a variable that moves by a member of `Ticks` between two orders: `{1}` is a
clock fine enough to tell orders apart, `{-1, 0, 1}` one that stands still or is
set back, as `system_clock` may be. `orders` and the field `id` are ghosts by which
properties follow one order; no action reads them except to number orders and to
apply the bound.

### Threadpool

A thread holds the mutex from the step that acquires it to the step that reads or
writes the queue, and that step releases it; between those two steps nothing
observable happens. `condition_variable::wait` is three steps: give up the mutex
and sleep, wake up (notified or not), acquire again. The task that `Enqueue`
accepts n-th is n. `DestroyJoin` waits for the workers and for nobody else, as the
code does. A call of `Enqueue` may overlap the destructor, also its end: its caller
has to keep the members alive until the call is over. It does not begin after the
flag is set, which would be a fault of the caller.

### Sessions

`pending` is what the server has asked of `io_service`; a handler is an action
enabled by its operation being pending and its event having come. When no operation
is left, `io_service::run()` returns and `main` ends (`Complete`): a failed accept
arms nothing, so the end of the last session is then the end of the process.

Bytes travel in pieces. The network may cut every request and every reply in two, and
a read takes any prefix of what has arrived, of one message or of several.
`HandleRead` is for a prefix that is one message; any other reaches `json::parse`, whose
exception leaves `io_service::run` and ends the process (`HandleReadThrows`). On the
other side `ReadMessage` gives `read_until` the delimiter `"\0"`, an empty C string,
so that it is content with what its first read brings. What happens next depends on what
the client had asked: a reply to an order is compared with `"ok"` and taken whatever it
is, every other reply is parsed, and what is not a JSON object ends the client
(`Parses`). Hence `shown`, the number of the request whose reply was taken last, may
stay behind `asked`. The engine's work inside `handle_read` is `Core`, and here only
counted.

### Exchange

`Exchange` joins the actions of `Core` and `Sessions` by conjunction. A request that
registers, logs in or asks is one step: `HandleRead` of the session and the engine's
action, with the answer the engine gives. A request that buys or sells is as many
steps as the call has iterations (`StartOrder`, `MatchOrder`, `EndOrder`); `serving`
keeps other handlers out meanwhile, as the one thread does, while clients go on and
may leave. What the messages on the wires say is kept beside them, by their number:
`said` is what a client wrote in its requests and `answered` what the engine answered.
`TakeReply` takes the uid from the message that was read, not from the one that was
due. `owner` is a ghost, the login that was typed.

### HttpServer

The accept thread has its own program counter `at`. `Frame` is the request whose
local strings exist; `Deref` is a read through a captured reference, which yields
the right string while the frame exists and any earlier string or junk when it
does not (undefined behaviour as a choice). `CountHits` is a read and, later, a
write. What the data race could do to the buckets of the map itself is not
modelled: only the value that is lost. `socket` holds the descriptors that are open,
and `accept` takes the lowest free one; every call of `close` is there (`Closing`),
up to three for a connection whose reply was not sent (`Server.h:234, 238, 260`), and
`closes` counts them, so that a close that met a descriptor given to another
connection would show. Alone, `HttpServer` lets any request come and
any operation fail; `HttpTraffic` says when they do.

### HttpTraffic

A connection is a record in the order of `connect`: whether the whole request has
been sent, whether the client has left, whether a reply was written, whether the
server has closed. `Connect`, `Send` and `ReadAndClose` are the client's calls of one
request; the last request of a client is the POST. `Kill` ends the process of a client
of `Mortal` in the middle of a request. `Receive` waits for the empty line or the end
of the stream, and a reply fails only when the client has left.

### OrderBook

A call is one step for both books. `std::sort` may leave orders of one price in any
order, so `displayTopOrders` chooses among all arrangements (`Arrangements`). A position
out of range makes the vector throw (`modifyOrder`), meets undefined behaviour
(`deleteOrder`, which erases what is not there), and is ignored by the multiset;
after the first two the process is not followed any further. `aligned` is a ghost: it
says that every position so far was used while the vector was sorted.

### CTestArray

`cells` is the block; a cell nobody has written holds `Nothing`. Each method is an
operator and an action; `operator[]` returns a reference and is two, `At` and `Assign`.
The loops of `Insert` and `Delete` are functions that give the block after each turn
(`ShiftedUp`, `ShiftedDown`), so that a wrong direction would overwrite cells not yet
moved. Outside the block, behaviour is undefined and the model stops; a failed test of
an index stops too, by `exit(0)`. `ImplementsList` maps the first `m_length` cells to the
list of `IntList` and asks for each method to be the list operation of its name. The
list always has room: a block that is constructed with none is not a list, and
`TestSpec`, which begins as `main` does, has a run of its own (section 3).
`std::sort` is known by what it promises: its result is in order and has every value as
often as before (`Sortings`).

### HttpMessage

The parser looks for a handful of characters and passes over the rest, so a text is a
sequence of these characters and of words. `Until`, `While`, `CrLf` and `Separator`
return the position at which the scan of that loop ends. One turn of the loop over
headers and one turn of the loop over a cookie's flags are a step each. What the
parser makes of a text is the arguments with which it calls the setters of `Response`,
in order: `calls` and `data`. The setters are declared in `Response.h:70-75` and have no
definition in the repository, so nothing is said of what a `Response` keeps. Some
initial states are messages a server writes, kept beside their text as a ghost, and
the others are arbitrary texts.

### Exercises

The order books, the array and the parser share nothing. `Exercises` begins as one of
them and leaves the other two alone; it adds no behaviour, and lets one run check all
three under their own specifications.

### Faulty variants

Some modules hold operators marked "Faulty variant of ...". No definition uses
them. Each is the operator it names with one slip (a direction swapped, a reset
forgotten, one sleeper notified instead of all). The entries under "mutants" in
`PROJECT.json` put one in the place of the original; the property named with it
then fails under the same configuration, which shows that it can tell that slip.

## 3. What the runs show

| run | instance | states | result |
|---|---|---|---|
| `core_market` | 1 user and an unknown uid, 4 orders, 2 prices, volumes 0, 1 and 2, advancing clock | 2,284 k | `TypeOK`, `NotCrossed`, `WithinTurnover`, `PriceTimePriority`, `MakerPrice`, `CallReturns` |
| `core_ledger` | 2 users, 3 orders, volumes -1 and 2, a clock that moves by -1, 0 or 1 | 2,440 k | `BooksSorted`, `LedgerMatchesDeals`, `VolumeAccounted`, `AccountIndex`, `BestQuotes`, and `ImplementsClearing`: the engine refines `Clearing` |
| `pool` | 3 workers, 2 enqueuing threads, 2 tasks, a destructor at any moment | 15 k | `PoolTypeOK`, `StartedInOrder`, `RunOnce`, `NoLostWakeup`, `DrainedWhenGone`, `EveryTaskRuns`, `DestructorReturns`, and `ImplementsTaskQueue`: the pool refines `TaskQueue` |
| `exchange` | 2 clients, 2 accounts, up to 3 requests each and 4 in all, every message cut in two, failing accepts, vanishing clients, the engine's loops | 1,373 k | `SessionsTypeOK`, `OneOperationEach`, `SessionForClient`, `RepliesInStep`, `OwnAccount`, `MoneyConserved`, `OrdersAreTyped`, `EveryRequestAnswered` |
| `http` | 2 clients with a GET and the POST each, one of which may be killed, 2 workers | 482 k | `HttpTypeOK`, `ConnectionsClosed`, `QueuedIsTrue`, `EverybodyServed` |
| `exercises` | 5 orders, 3 prices, 2 lines shown, positions in and out of range; 2 values, up to 5 elements, capacities 1 and 3, every index from -1 on; 3,600 messages of up to two lines, 10,000 other texts | 1,042 k | `OrderBookTypeOK`, `PriceThenArrival`, `BooksAgree`, `BestShown`; `ArrayTypeOK` and `ImplementsList`: the array refines `IntList`; `ParsedAsSent`, `ParserReturns` |
| `core_unknown_uid` | 1 user and an unknown uid, 2 orders | | violates `LedgerMatchesDeals` |
| `sessions_split` | 2 clients, requests in two pieces | | violates `ServerStaysUp` |
| `client_out_of_step` | 1 client, 3 requests, replies in two pieces | | violates `ShownIsLast` |
| `http_captures` | 2 workers, 2 requests | | violates `CapturesAlive` |
| `http_hits` | 2 workers, 2 requests | | violates `HitsExact` |
| `array_default` | capacity 0, `Push_back` only | | violates `PushKeeps` |

### Why the bounds are enough

* **Core.** Priority needs four orders: one that is filled in part and put back, one
  behind it, and two takers. Volumes 1 and 2 give whole and partial fills on either
  side, volume 0 a fill of nothing and -1 one that adds to what it fills; prices
  {1, 2} give better, equal and incompatible prices. One user on both
  sides of the market is enough for priority, because the book does not look at
  owners as long as the clock advances. Two users are what the ledger needs to tell
  "moved to the other side" from "created". For every safety property of the engine
  theorems take the bounds away (section 4).
* **Pool.** Three workers so that one can sleep while two compete; two producers so
  that two notifications may be under way; two tasks so that order means something.
  The invariants are proved for every number of each.
* **Exchange.** Two clients so that one client's failure can be seen by another, and
  so that one account can be used from two connections. Four requests in all: one
  client can take an account and two orders, so that it falls behind by a reply,
  and two clients an account and an order each, so that a fill has two owners. A
  message in two pieces of which a read may take both is also a message in one, and
  `sessions_split` and `client_out_of_step` have both kinds. One price and one
  volume: matching is `core_market`'s question.
  `ExchangeAssumption` asks for `MaxOrders` to be no obstacle to any client.
* **Order books.** Five orders, so that a modified order can pass two others of its
  price; a display of two, so that it is shorter than the book.
* **Array.** Capacities 1 and 3 grow at different lengths, the first one three times.
* **Messages.** Two lines, so that a header follows a cookie and a cookie one of its
  own name; other texts are up to five tokens behind a valid beginning, so that
  every branch meets every token and the end of the text.
* **HTTP server.** Two workers, so that a closure can run while the frame it refers to
  is gone or belongs to the next request. A second client gives the queue of
  connections behind one that is held up; `Mortal` has one client, as a killed client
  must not harm one that is not. `Junk` stands for what a dangling reference may
  read; in `http` it is the empty string, which is also the one `User-Agent`, to keep
  the instance small.

`MaxOrders`, `MaxTasks`, `MaxRequests`, `MaxInAll`, `Gets`, `MaxLength` and `Mortal` are
the only bounds in guards; `Gets` is 5 in the code, and none of the others is in it. Deadlock
is checked where the system cannot stop. It can in five runs: in `exchange`,
`sessions_split` and `client_out_of_step` the server's process may end, by an exception
or because nothing is left to wait for, and the clients may all have ended or
have nothing more to ask; in `exercises` and `array_default` the process has ended or
its behaviour is undefined.
`PoolGone` and `Returned` stand for a pool that no longer exists and a parser that has
returned. In `Core` clients may always ask to log in.

### Fairness

* `FairSpec` of `Core`: a running handler is not suspended for ever. Nothing makes
  clients call.
* `PoolFairSpec`: every thread that can run does run (weak), a thread that keeps
  asking for the mutex gets it in the end (strong, because others may take it in
  between), and a task returns. Spurious wakeups, `Enqueue` and the destructor are
  not fair: nobody is obliged to them.
* `ExchangeFairSpec`: `io_service::run()` does something as long as a handler is ready
  (one weak fairness for all handlers: requests are finitely many and each handler
  uses up an event), and a client that waits for a reply reads it or learns that the
  server is gone. Nobody has to connect, to ask or to leave.
* `TrafficFairSpec`: every thread of the server runs in the end, also when others take
  the mutex in between (strong fairness for the accept thread and each worker), and a
  client goes on until it ends or is killed. Nobody has to be killed, to be woken
  without cause or to destroy the pool. A client that stays silent for ever with its
  connection open is left out: it does hold up everybody else.
* `MessageSpec`, and `ExercisesSpec` for its parser: the one thread that parses goes on.

### Disagreements between code and documents

1. **A request with an unknown uid settles half a deal** (`core_unknown_uid`,
   `3/core.cpp:46`). The resting order is erased and one side credited before the
   other side is found to have no account; the return records no deal, so the
   balance shown is no longer what the deals shown explain.
2. **A request in two pieces ends the server** (`sessions_split`, `3/Server.cpp:62`).
   One `async_read_some` is parsed as a whole message, and the exception of the
   parser reaches `main`.
3. **A client falls out of step** (`client_out_of_step`, `3/Client.cpp:39`). "Returns the
   string with the server's answer to the last request", says the comment on
   `ReadMessage`. When the reply to an order arrives in two pieces, the first is taken
   for the reply and the second for the reply to the next order, and so on; a question
   then ends the client. What still holds is `RepliesInStep`.
4. **Closures outlive what they refer to** (`http_captures`, `7/Server.h:245`).
   `[&]` captures locals of `ProcessRequest`, which returns after `Enqueue`.
5. **Hits are lost** (`http_hits`, `7/Server.h:158`). `CountHits` reads and writes a
   shared map without a lock.
6. **An array constructed by default has no room** (`array_default`, `6/main.cpp:40`). The
   default capacity is 0 and doubling it leaves it 0, so the first `Push_back` writes
   behind the block. The program's own test does just that and asserts the length
   and the elements (`6/main.cpp:149-172`).

Seen in the models and left without a run, because no document says otherwise:

* One failed accept ends accepting: the error branch of `handle_accept` deletes the
  session and arms nothing (`3/Server.cpp:136`).
* A reply to a question that the network cuts, as it does a list of deals longer than one
  read, ends the client (`3/Client.cpp:39, 168`).
* The HTTP client prints the reply to an earlier request when the server closes
  without a reply, which it does with every POST (`7/Client.cpp:76`).
* Positions used on the unsorted vector mean other orders than in the multiset: the
  calls of the tester leave the two order books with different orders
  (`1/OrderBookTester.h`).
* A reply of the HTTP server that cannot be sent has its descriptor closed three times.
  No other connection is open meanwhile, so that no other is hit
  (`7/Server.h:234, 238, 260`).
* The response parser takes the next line as the value of a header that has none, the
  first header as part of an empty reason phrase, drops white space at the
  beginning of the body, ends a cookie's value at a `=`, takes the flag after a `Path`
  without a value as its value. `ParsedAsSent` is about messages without these. It ends
  the process by an assertion when there is white space in a cookie's name, as
  `ParsedAsSent` says.
* `7/readme.md:18-19` speaks of a count of hits and of a count of this thread, where
  the code has one map for all threads (`7/Server.h:268`).

## 4. What is proved

TLAPS checks every proof to its leaves. The theorems hold for all values of the
constants that satisfy the named assumptions, which TLC evaluates on every run:

* `CoreAssumption`: volumes, prices and ticks are sets of integers (also negative,
  also infinite), unknown uids and the bound are naturals. There is no assumption
  on logins and passwords, and none on the clock.
* `SessionsAssumption`, `ExchangeAssumption`: a message comes in one or two pieces;
  there are finitely many clients, the bound on orders is no obstacle to any of them,
  and no request carries the uid of no account, as the repository's client has its
  uid from the server (`ForeignUids = {}`).
* `PoolAssumption`: the owner, the workers and the producers are different threads,
  there is at least one worker and there are finitely many, and `Free` is none of them.
* `HttpAssumption`, `TrafficAssumption`: the accept thread is the only producer; the
  pool's bound on tasks is no obstacle to the clients' GETs.
* `OrderBookAssumption`, `ArrayAssumption`: prices and values are integers, a display has
  at least one line, lengths and capacities are naturals.
* `MessageAssumption`: what may stand in a message. A header has a name and a value, the name
  has no `:`, the value does not end early in a `cr`, and neither begins with white
  space; a cookie has a name, and no part of it holds what its scan stops at or begins
  with white space, except that there may be some inside a cookie's name; the body
  does not begin with a space or a line feed. The number of headers and the length of
  each text are free, and there is no assumption on the texts that are no messages
  (`Noise`). An empty name is no header; every other clause
  excludes a text that the parser reads as something else (section 3).

Seven theorems have a condition more, which the table names.

| theorem | states | if |
|---|---|---|
| `CoreProofs!TypeCorrect` | `Spec => []TypeOK` | |
| `CoreProofs!BooksStaySorted` | `Spec => []BooksSorted` | |
| `CoreProofs!NeverCrossed` | `Spec => []NotCrossed` | |
| `CoreProofs!AccountsIndexed` | `Spec => []AccountIndex` | |
| `CoreProofs!FilledInTurn` | `Spec => PriceTimePriority` | the clock advances between orders |
| `CoreProofs!FilledAtMakersPrice` | `Spec => MakerPrice` | the clock advances between orders |
| `CoreProofs!CoreImplementsClearing` | `Spec => ImplementsClearing` | `ForeignUids = {}` |
| `LedgerProofs!BalancesExplained` | `Spec => []LedgerMatchesDeals` | `ForeignUids = {}` |
| `LedgerProofs!OrdersAreAccounted` | `Spec => []VolumeAccounted` | `ForeignUids = {}` |
| `LedgerProofs!QuotesAreBest` | `Spec => []BestQuotes` | |
| `LedgerProofs!BalancesStayWithinTurnover` | `Spec => []WithinTurnover` | volumes and prices are naturals |
| `ExchangeProofs!SessionsTypeCorrect` | `SessionsSpec => []SessionsTypeOK` | |
| `ExchangeProofs!OneOperationAtATime` | `SessionsSpec => []OneOperationEach` | |
| `ExchangeProofs!SessionsBelongToClients` | `SessionsSpec => []SessionForClient` | |
| `ExchangeProofs!RepliesInOrder` | `SessionsSpec => []RepliesInStep` | |
| `ExchangeProofs!ExchangeKeepsSessions` | `ExchangeSpec => SessionsSpec` | |
| `ExchangeProofs!ExchangeDrivesCore` | `ExchangeSpec => Spec` | |
| `ExchangeProofs!ExchangeClears` | `ExchangeSpec => ImplementsClearing` | |
| `ExchangeProofs!ClientsHoldTheirAccounts` | `ExchangeSpec => []OwnAccount` | |
| `ExchangeProofs!MoneyStaysInTheExchange` | `ExchangeSpec => []MoneyConserved` | |
| `ExchangeProofs!AccountsHaveWhatIsTyped` | `ExchangeSpec => []OrdersAreTyped` | |
| `ThreadpoolProofs!PoolTypeCorrect` | `PoolSpec => []PoolTypeOK` | |
| `ThreadpoolProofs!TasksStartInOrder` | `PoolSpec => []StartedInOrder` | |
| `ThreadpoolProofs!TasksRunOnce` | `PoolSpec => []RunOnce` | |
| `ThreadpoolProofs!WakeupsAreNotLost` | `PoolSpec => []NoLostWakeup` | |
| `ThreadpoolProofs!NothingIsLeftBehind` | `PoolSpec => []DrainedWhenGone` | |
| `ThreadpoolProofs!PoolImplementsTaskQueue` | `PoolSpec => ImplementsTaskQueue` | |
| `HttpProofs!HttpTypeCorrect` | `HttpSpec => []HttpTypeOK` | |
| `HttpProofs!NoConnectionLeaks` | `HttpSpec => []ConnectionsClosed` | |
| `HttpProofs!TrafficImplementsServer` | `TrafficSpec => HttpSpec` | |
| `HttpProofs!RepliesAreTrue` | `TrafficSpec => []QueuedIsTrue` | |
| `OrderBookProofs!BooksTypeCorrect` | `OrderBookSpec => []OrderBookTypeOK` | |
| `OrderBookProofs!TurnIsKept` | `OrderBookSpec => []PriceThenArrival` | |
| `OrderBookProofs!BooksStayAlike` | `OrderBookSpec => []BooksAgree` | |
| `OrderBookProofs!DisplayIsBest` | `OrderBookSpec => BestShown` | |
| `ArrayProofs!ArrayTypeCorrect` | `ArraySpec => []ArrayTypeOK` | |
| `ArrayProofs!ArrayIsAList` | `ArraySpec => ImplementsList` | `0 \notin Capacities` |
| `MessageProofs!MessagesAreReadBack` | `MessageSpec => []ParsedAsSent` | |

The conditions are those under which the code keeps the promise. A clock that does
not advance lets two orders share a time, and then ids no longer say whose turn it
is. With an unknown uid `BalancesExplained` is false, as the run `core_unknown_uid`
shows. Nothing in the code refuses a negative volume or price; `BalancesStayWithinTurnover`
claims nothing of these, all other theorems hold with them too. An array constructed with
capacity 0 is no list, as the run `array_default` shows.

### The arguments

**Books.** `NotCrossed` is not inductive. `FinishBuy` books the remainder because the
first resting sell does not match it; that the others do not match either follows
only when the book is sorted, and that the book is sorted needs types. Hence
`IInv == TypeOK /\ BooksSorted /\ NotCrossed`. The first part of `CoreProofs` shows
that `Less` is a strict weak order on deals of one class, that the `CHOOSE` in
`UpperBound` has a witness in a sorted book (by the least element of a set of
naturals), and that `Insert` keeps the book sorted and adds exactly the one deal.
There is a lemma for each action, and `AccountsIndexed` is a second induction on top.

**Priority and price.** A fill is recorded under an id, so a statement about who was
filled needs to know which order an id stands for, now and when it was submitted.
`OrdersFollowed` says that what rests or is in flight has the class, owner, limit and
time of its submission and is in one place; `OrdersInTime` that ids are in order of
time when the clock advances. Both are inductive relative to `IInv`.

**Clearing.** The mapping takes the deals of both books and the one in flight to a set
of open orders. A loop's iteration is one `Trade` of it (`MatchBuySettles`,
`MatchSellSettles`), a step before or after a loop none at all, or the opening of an
order. It rests on `OrdersFollowed`, for an order in two places would be one order of
the set, and on `OrdersOwned`: with no unknown uids no loop is left early.

**Sums.** The properties about money are sums over histories and accounts, and
`SumFunctionOnSet` is a recursion that takes its terms in no known order. The first
part of `LedgerProofs` shows what it comes to: the recursion has a solution, the sum
does not depend on the order, and it follows its terms when one is added, changed
or removed (`SumAdded`, `SumChanged`, `SumRemove`). The library's induction theorems
cannot be instantiated here, so an induction is over the set of the numbers for
which the claim holds (`NatSetInduction`, `SetInduction`, from the least element of
a set of naturals). On this rest `Explained` (a balance is what the history comes
to), `VolumesKept` (what is left of an order and what was filled of it) and
`Conserved`, each inductive by way of one fact: an iteration of a loop is one trade
and its two records (`Settles`). The turnover must also stand an early return, so it
has an account of its own: whatever a step moves, it takes from two orders that
agree on a price (`Turns`), and balances are covered by the filled parts of the orders
(`Covered`).

**Connections and exchange.** `SessionsIInv` says where everything is: a session waits
for one operation (`EachWaits`), a client has one place among backlog and sessions
(`OnePlace`, `Placed`), and the two streams of a client are the ends of streams of
messages that follow each other piece by piece (`Stream`, `Successive`). `InTransit`
says which: of the requests sent, those run have their replies behind what the client
has read, the others are still on the way there; whoever goes on from an account or a
question has nothing left in its socket; and only an order can have been followed by
another request before its reply was read (`KindOf`). `RepliesInStep` follows. A read is
a prefix of such a stream, and what it leaves is one again. `ExchangeIInv` adds the notes:
`said` and `answered` are as long as `asked` and `served` (`Recorded`), what a client said
is of the kind it wants (`AskedIs`), an answer with a uid is for the login in the request
of its number (`AnsweredIs`), and the request of a running loop is still in its socket
(`ServingOrder`). From it a step of the exchange is a step of `Sessions` and a step of
`Core`, which carries every theorem of either over. `Delivered` compares two sets, the
orders in the engine and the requests taken that placed them (`PlacedOf`, `TakenOf`): each
step leaves both alone or adds one to both.

**Pool.** `DrainedWhenGone` looks at the end of a long history. It follows from
`PoolIInv`, which adds to the types, `StartedInOrder`, `RunOnce` and `NoLostWakeup`
three facts: `ExitedWhenDrained` (once a worker has left, the pool is stopped and the
queue stays empty, because no push passes the flag), `DoneWasStarted` and
`GoneWhenJoined`. Steps that change only one thread's `pc` and the mutex share one
lemma, `MovePreservesIInv`. The steps of `TaskQueue` are those that push, take,
finish and destroy; all others are stutters of it.

**HTTP server.** `HttpIInv` is `PoolIInv`, the types, and two facts: where the accept
thread is in `Server::Run` determines where it is in `Enqueue` and how many requests are queued
(`CallInHand`), and nobody destroys the pool meanwhile (`PoolInUse`). `ConnectionsClosed`
is inductive as it stands, with the calls of `close` counted: a connection is accepted
only when none is open. `TakenInHand`
adds the connection being served: a reply is on its way only to a GET that arrived
whole. A step of `HttpTraffic` is a step of `HttpServer` or leaves it alone.

**Order books.** The books hold orders in different places, so `BooksIInv` has a pairing
of positions that respects the price (`Paired`), kept while `aligned`, besides the
turn in the multiset (`InTurn`). Every call is an order taken out or put in, and the
positions behind it move by one (`Longer`). That no better order is left out of a
display is a statement about the first `Top` positions of a sorted sequence.

**Array.** `ArrayIInv` says that the elements are inside the block and have been written.
Each call has a lemma that compares the next block and the next list place by place
(`PushIsAdd`, `InsertIsInsertBefore`, ...). The loops that shift are inductions on their
turns (`LoweredOnce`, `RaisedOnce`): after each turn the cells passed have their new
value and the others their old one, so that each cell is read before it is overwritten
(`ShiftedDownIs`, `ShiftedUpIs`). That a block constructed with room keeps some is part
of the induction.

**Response parser.** `ParsedAsSent` is about the end of two nested loops over a text of any
length. Two lemmas say all that is needed of a scan: it stops at a position when
nothing before it stops it (`UntilAt`, `WhileAt`). So the rest is where things are. A
text is the concatenation of its parts, and a part begins where those before it end
(`FlattenParts`, an induction on their number); a line or a flag holds no token that would
stop a scan earlier, and the next one begins with no white space that would carry it
further (`MessageParts`, `CookieParts`). From this follows what each turn of a loop reads
(`LineTurn`, `PathRead`, `FlagRead`, `NameRead`). The inductive invariant is `Reading`: the
parser is at the beginning of line k+1 and has made the calls for k lines, or is in the
cookie of line k between two of its flags with the fields that come before, or has been
aborted there because of white space in its name, or is done with everything. It names the message and the positions
of its lines as witnesses and holds trivially of a text that is no message. TLC checked
it on the texts of `exercises` before the proof was begun.

### What is only model-checked

* Liveness: `CallReturns`, `EveryTaskRuns`, `DestructorReturns`, `EveryRequestAnswered`,
  `EverybodyServed`, `ParserReturns`. Liveness under fairness and `ENABLED` are out of
  this prover's reach.

Every safety property and every refinement the passing runs check has a theorem. No
module declares a `RECURSIVE` operator; the deals of one user are taken from a book by
a recursive function (`Owned`), and `std::sort` is a set of arrangements in both
exercises, because the library's `SelectSeq` and `SortSeq` have no definition the
prover can expand.

## 5. What is not modelled, and why

* The width of `my_long` (64 bits): integers are unbounded. `WithinTurnover` shows that
  balances never leave what has been traded, so they fit when the turnover does.
* The lifetime of the reply string in `Server.cpp:90`: it matters when the socket
  does not take the reply at once, which needs a reply larger than its buffer.
* The terminator written behind a read that fills the whole buffer of a session.
* JSON text, number parsing, regular expressions, SHA1, output and the wording of
  menus and answers. That parsing can fail is modelled.
* An `accept` of the HTTP server that fails, which prints and goes round the loop.
  A constructor of the pool that fails between two threads, and a task that throws, which
  ends the process (`7/Server.h:53`). What an `Enqueue` that overlaps the end of the
  destructor finds of the pool's members: its caller has to keep them. The pause of the
  HTTP client between two requests.
* The destruction of `CTestArray`, which leaks its block, and of the HTTP server's
  members, whose order no running request can see.
* Of the message library: what a `Response` does with what the parser hands it. All its
  setters and the getters of headers and cookies are declared (`Response.h:67-75`) and
  defined nowhere. Also the numeric status, and `Request`, `Uri`, `Authority` and `Http`,
  which are declarations or plain setters, some without a definition anywhere.
* The exercises 2 and 5 compute geometry once and draw it: no state, nothing that
  interleaves. The tester of 1 measures time.
* Vendored code. Two copies of a JSON library and two of a test framework are more
  than nine tenths of the repository's lines; none of it is this project's own, so the
  share of all lines that the models stand for is small however much of the
  project's own code they cover.

## 6. Plan

1. *Done.* `Core` with its abstract specification, `Threadpool`, `Sessions`,
   `HttpServer`; type correctness and the main invariants of core and pool proved.
2. *Done.* `OrderBook`, `CTestArray` with `IntList`, `HttpMessage`; `Exchange` composes
   `Core` with `Sessions`, `HttpTraffic` composes `HttpServer` with its clients;
   `TaskQueue`, which `Threadpool` refines.
3. *Done.* The remaining safety properties of engine, exchange, HTTP server, order
   books and array, and the three refinements, proved.
4. *Done.* The response parser: where its scans stop, where the parts of a message are
   in its text, and that every message is read as it was written.

What is left is liveness, which stays with TLC, and the parts of section 5.

Each passing run takes between a few seconds and about three minutes on two workers; the
violation runs are small.
