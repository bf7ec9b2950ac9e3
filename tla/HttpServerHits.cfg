\* Two workers in CountHits at once.
CONSTANTS
    Workers = {w1, w2}
    Producers = {main}
    Acceptor = main
    Owner = owner
    Free = free
    MaxTasks = 2
    Paths = {"/a"}
    Agents = {"curl"}
    Junk = "junk"
SPECIFICATION HttpSpec
INVARIANTS HitsExact
