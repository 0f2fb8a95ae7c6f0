CONSTANTS
    Clients = {c1, c2, c3, c4}
    Talkative = {c4}
    Workers = {w1, w2}
    QueueSize = 2
    None = None
SPECIFICATION Spec
CHECK_DEADLOCK FALSE
INVARIANTS
    OneOwner
    TasksBalanced
    StopLeavesAtMostOne
PROPERTIES
    AcceptedIsClosed
    ThreadsEnd
