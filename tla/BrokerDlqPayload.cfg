SPECIFICATION Spec
CONSTANTS
    c1 = c1
    c2 = c2
    p1 = p1
    p2 = p2
    g1 = g1
    g2 = g2
    e1 = e1
    e2 = e2
    NoTopic = NoTopic
    NoId = NoId
    NoRec = NoRec
    Ids = {e1, e2}
    Topics = {"activity", "dlq"}
    Dlq <- WithDlq
    NumPartitions = 1
    NumBrokers = 1
    Producers = {p1}
    Consumers = {c1, c2}
    Mode <- SoloMode
    SubTopic <- SoloTopic
    Groups = {g1, g2}
    GroupOf <- SoloGroup
    Subscribers = {}
    BufSize = 1
    Keys = {"ivan"}
    Hash <- OneKey
    Events <- RawEvents
    Targets = {"activity"}
    MaxGen = 1
    MaxPub = 1
    MaxStops = 0
    Mortal = {}
INVARIANTS DlqHasPayload
