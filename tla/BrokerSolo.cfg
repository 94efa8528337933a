SPECIFICATION Spec
CONSTANTS
    c1 = c1
    c2 = c2
    p1 = p1
    p2 = p2
    g1 = g1
    g2 = g2
    e1 = e1
    e2 = e2
    NoTopic = NoTopic
    NoId = NoId
    NoRec = NoRec
    Ids = {e1, e2}
    Topics = {"activity", "dlq"}
    Dlq <- WithDlq
    NumPartitions = 2
    NumBrokers = 1
    Producers = {p1}
    Consumers = {c1, c2}
    Mode <- SoloMode
    SubTopic <- SoloTopic
    Groups = {g1, g2}
    GroupOf <- SoloGroup
    Subscribers = {}
    BufSize = 1
    Keys = {"ivan", "olga"}
    Hash <- KeyHash
    Events <- DupRawEvents
    Targets = {"activity"}
    MaxGen = 1
    MaxPub = 2
    MaxStops = 1
    Mortal = {}
INVARIANTS AppliedOnce DlqOnlyFailures DlqKeepsFailures
PROPERTIES OffsetsAdvance
