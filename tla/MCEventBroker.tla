--------------------------- MODULE MCEventBroker ---------------------------
(* Small instances of EventBroker for TLC.                                 *)
EXTENDS EventBroker

CONSTANTS c1, c2, p1, p2, g1, g2, e1, e2

\* learner.activity with its dead-letter topic, and an unrelated topic.
OneTopic == [t \in {"activity"} |-> NoTopic]
WithDlq == [t \in {"activity", "dlq"} |-> IF t = "activity" THEN "dlq" ELSE NoTopic]
TwoTopics == [t \in {"activity", "audit"} |-> NoTopic]

\* Two learners; one partition takes both keys, two partitions split them.
KeyHash == [k \in {"ivan", "olga"} |-> IF k = "ivan" THEN 4 ELSE 7]
OneKey == [k \in {"ivan"} |-> 4]

Ev(k, i) == [key |-> k, id |-> i, json |-> TRUE]
TwoEvents == {Ev("ivan", e1), Ev("ivan", e2)}
SplitEvents == {Ev("ivan", e1), Ev("olga", e2)}
MixedEvents == {Ev("ivan", e1), Ev("ivan", NoId)}
\* The same event ID published under two keys.
DupEvents == {Ev("ivan", e1), Ev("olga", e1), Ev("olga", NoId)}
LoneEvents ==
    {Ev("ivan", e1), Ev("olga", e1), [key |-> "olga", id |-> NoId, json |-> FALSE]}
DupRawEvents == DupEvents \union {[key |-> "olga", id |-> NoId, json |-> FALSE]}
OneEvent == {Ev("ivan", e1)}
RawEvents == {Ev("ivan", e1), [key |-> "ivan", id |-> NoId, json |-> FALSE]}

\* Two RunConsumer goroutines of one group on the activity topic.
PairTopic == [c \in {c1, c2} |-> "activity"]
PairGroup == [c \in {c1, c2} |-> g1]
PairMode == [c \in {c1, c2} |-> "run"]

\* A RunConsumer on the activity topic and a ConsumeAll reader of the DLQ,
\* each alone in its group.
SoloTopic == [c \in {c1, c2} |-> IF c = c1 THEN "activity" ELSE "dlq"]
SoloGroup == [c \in {c1, c2} |-> IF c = c1 THEN g1 ELSE g2]
SoloMode == [c \in {c1, c2} |-> IF c = c1 THEN "run" ELSE "all"]

\* One group reading two topics.
SharedTopic == [c \in {c1, c2} |-> IF c = c1 THEN "activity" ELSE "audit"]

\* A RunConsumer on the activity topic, alone in its group.
LoneTopic == [c \in {c1} |-> "activity"]
LoneGroup == [c \in {c1} |-> g1]
LoneMode == [c \in {c1} |-> "run"]

\* No consumers at all.
Empty == [c \in {} |-> 0]
=============================================================================
