\* Two clients, each with one GET and the POST, and two workers.
\* A dangling reference to the path may read as the empty string.
CONSTANTS
    Workers = {w1, w2}
    Producers = {main}
    Acceptor = main
    Owner = owner
    Free = free
    MaxTasks = 2
    Paths = {"/"}
    Agents = {""}
    Junk = ""
    Clients = {c1, c2}
    Mortal = {c1}
    Gets = 1
SPECIFICATION TrafficFairSpec
INVARIANTS HttpTypeOK ConnectionsClosed QueuedIsTrue
PROPERTIES EverybodyServed
