\* A run of three events and two clients, one of which may break off.
CONSTANTS
    Clients = {c1, c2}
    NumEvents = 3
    QueueSize = 2
    MaxJoins = 3
    MaxLeaves = 1
SPECIFICATION FairSpec
INVARIANTS NoGap
PROPERTIES ServedToTheEnd
CHECK_DEADLOCK FALSE
