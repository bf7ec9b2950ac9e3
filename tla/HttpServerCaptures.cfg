\* A closure that outlives the frame it refers to.
CONSTANTS
    Workers = {w1, w2}
    Producers = {main}
    Acceptor = main
    Owner = owner
    Free = free
    MaxTasks = 2
    Paths = {"/a"}
    Agents = {"curl"}
    Junk = "junk"
SPECIFICATION HttpSpec
INVARIANTS CapturesAlive
