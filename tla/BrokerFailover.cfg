SPECIFICATION Spec
CONSTANTS
    c1 = c1
    c2 = c2
    p1 = p1
    p2 = p2
    g1 = g1
    g2 = g2
    e1 = e1
    e2 = e2
    NoTopic = NoTopic
    NoId = NoId
    NoRec = NoRec
    Ids = {e1, e2}
    Topics = {"activity"}
    Dlq <- OneTopic
    NumPartitions = 2
    NumBrokers = 2
    Producers = {p1, p2}
    Consumers = {}
    Mode <- Empty
    SubTopic <- Empty
    Groups = {}
    GroupOf <- Empty
    Subscribers = {"s1"}
    BufSize = 1
    Keys = {"ivan", "olga"}
    Hash <- KeyHash
    Events <- SplitEvents
    Targets = {"activity"}
    MaxGen = 1
    MaxPub = 2
    MaxStops = 0
    Mortal = {0}
INVARIANTS AckedReadable KeyOrder
CHECK_DEADLOCK FALSE
