SPECIFICATION Spec
CONSTANTS
    c1 = c1
    c2 = c2
    p1 = p1
    p2 = p2
    g1 = g1
    g2 = g2
    e1 = e1
    e2 = e2
    NoTopic = NoTopic
    NoId = NoId
    NoRec = NoRec
    Ids = {e1, e2}
    Topics = {"activity", "dlq"}
    Dlq <- WithDlq
    NumPartitions = 2
    NumBrokers = 2
    Producers = {p1}
    Consumers = {c1}
    Mode <- LoneMode
    SubTopic <- LoneTopic
    Groups = {g1}
    GroupOf <- LoneGroup
    Subscribers = {}
    BufSize = 1
    Keys = {"ivan", "olga"}
    Hash <- KeyHash
    Events <- LoneEvents
    Targets = {"activity"}
    MaxGen = 1
    MaxPub = 2
    MaxStops = 1
    Mortal = {0}
INVARIANTS AppliedOnce DlqOnlyFailures DlqKeepsFailures AckedReadable KeyOrder
PROPERTIES OffsetsAdvance
