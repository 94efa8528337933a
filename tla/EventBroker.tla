---------------------------- MODULE EventBroker ----------------------------
(***************************************************************************)
(* The in-memory event broker of services/api/internal/event: topics made  *)
(* of partition logs, simulated brokers with one leader per partition,     *)
(* consumer groups with committed offsets, an idempotency log per group,   *)
(* best-effort subscriber channels, and the RunConsumer worker that routes *)
(* failures to a dead-letter topic.                                        *)
(*                                                                         *)
(* Every step is one critical section of the Go code (one lock held), so   *)
(* what two goroutines may interleave in the code they interleave here.    *)
(* Critical sections that commute with every other step are merged with    *)
(* their neighbour; the comment on the action says which.                  *)
(***************************************************************************)
EXTENDS Naturals, Sequences

CONSTANTS
    Topics,         \* topic names
    Dlq,            \* Dlq[t]: the name t + ".dlq", or NoTopic if never created
    NoTopic,
    NumPartitions,  \* partitions per topic (the tests create both topics alike)
    NumBrokers,     \* NewBroker(numBrokers)
    Producers,      \* goroutines calling PublishActivityEvent / Publish
    Consumers,      \* goroutines calling RunConsumer or ConsumeAll
    Mode,           \* Mode[c]: "run" (RunConsumer) or "all" (ConsumeAll)
    SubTopic,       \* SubTopic[c]: the topic a consumer reads
    Groups,
    GroupOf,        \* GroupOf[c]: its group ID
    Subscribers,    \* callers of Subscribe
    BufSize,        \* capacity of a subscriber channel
    Keys,
    Hash,           \* Hash[k]: the FNV-1a sum of a key (hash/fnv)
    Ids,            \* event IDs
    NoId,           \* no event_id in the payload, or the empty one
    Events,         \* what producers publish: [key, id, json]
    Targets,        \* topics producers publish to
    NoRec,          \* the zero Record
    MaxGen,         \* bound: how often CreateTopic is called on one name
    MaxPub,         \* bound: publishes per producer
    MaxStops,       \* bound: how often the done channel is closed
    Mortal          \* bound: the brokers that may be killed

Gens == 1..MaxGen
Parts == 0..(NumPartitions - 1)
Brokers == 0..(NumBrokers - 1)
Threads == Producers \union Consumers

\* One partition of one incarnation of a topic.  CreateTopic on an existing
\* name puts a new object in the map; goroutines that looked the old one up
\* keep using it.
Logs == Topics \X Gens \X Parts

ASSUME SizesAssumption ==
    /\ NumPartitions \in Nat \ {0}
    /\ NumBrokers \in Nat \ {0}
    /\ MaxGen \in Nat \ {0}
    /\ MaxPub \in Nat /\ MaxStops \in Nat /\ BufSize \in Nat
    /\ Mortal \subseteq Brokers

ASSUME NamesAssumption ==
    /\ Dlq \in [Topics -> Topics \union {NoTopic}]
    /\ NoTopic \notin Topics
    /\ NoId \notin Ids
    /\ Targets \subseteq Topics
    /\ Producers \intersect Consumers = {}

ASSUME RolesAssumption ==
    /\ SubTopic \in [Consumers -> Topics]
    /\ GroupOf \in [Consumers -> Groups]
    /\ Mode \in [Consumers -> {"run", "all"}]
    /\ Hash \in [Keys -> Nat]

\* An unparsable payload has no event ID (json.Unmarshal fails).
ASSUME EventsAssumption ==
    /\ Events \subseteq [key : Keys, id : Ids \union {NoId}, json : BOOLEAN]
    /\ \A e \in Events : ~e.json => e.id = NoId

VARIABLES
    cur,      \* b.topics: the current incarnation of each topic, 0 if absent
    log,      \* partition.records of every incarnation
    leader,   \* topic.leaderMap of every incarnation
    killed,   \* b.killedBrokers
    offsets,  \* consumerGroupState.offsets: keyed by partition only
    idem,     \* b.idempotencyLog
    subs,     \* b.subscribers: topic -> channels in registration order
    chan,     \* contents of each subscriber channel
    pub,      \* each goroutine's Publish call in progress
    cons,     \* each consumer's RunConsumer/ConsumeAll call in progress
    sent,     \* publishes started by each goroutine (numbers its records)
    stops     \* done channels closed so far

\* History variables: what was handed out, executed and acknowledged.
VARIABLES
    handed,   \* <<group, topic, gen, partition, offset>> Consume returned
    applied,  \* applied[g][id]: successful handler runs per event ID
    failed,   \* [by, num, rec, gen]: consumer by's num-th handler error, on rec,
              \* when its dead-letter topic had incarnation gen (0: none)
    acked     \* <<topic, gen, partition, offset, src, seq>> Publish returned

vars == <<cur, log, leader, killed, offsets, idem, subs, chan, pub, cons,
          sent, stops, handed, applied, failed, acked>>

\* A stored record.  src and seq number the publishes of each goroutine; orig
\* names the record a DLQEvent wraps, <<>> when the value holds none.
Record == [key : Keys, id : Ids \union {NoId}, json : BOOLEAN,
           src : Threads, seq : Nat, orig : {<<>>} \union (Threads \X Nat)]

Ref(r) == <<r.src, r.seq>>

\* No Publish call in progress (at = "idle"), or one that returned.
PubAt(res) == [at |-> res, topic |-> NoTopic, gen |-> 0, part |-> 0,
               leader |-> 0, rec |-> NoRec, off |-> 0, todo |-> <<>>]
PubIdle == PubAt("idle")

ConsIdle == [at |-> "idle", gen |-> 0, part |-> 0, off |-> 0, rec |-> NoRec,
             done |-> FALSE]

\* Mutant of partitionFor (KeyOrder): a key moves to the next partition while
\* its usual broker is down.
partitionForAlive(key) ==
    (IF (Hash[key] % NumBrokers) \in killed THEN Hash[key] + 1 ELSE Hash[key])
        % NumPartitions

\* partitionFor: the key's hash modulo the number of partitions.
partitionFor(key) == Hash[key] % NumPartitions

Init ==
    /\ cur = [t \in Topics |-> 0]
    /\ log = [o \in Logs |-> <<>>]
    /\ leader = [o \in Logs |-> o[3] % NumBrokers]
    /\ killed = {}
    /\ offsets = [g \in Groups |-> [p \in Parts |-> 0]]
    /\ idem = [g \in Groups |-> {}]
    /\ subs = [t \in Topics |-> <<>>]
    /\ chan = [s \in Subscribers |-> <<>>]
    /\ pub = [th \in Threads |-> PubIdle]
    /\ cons = [c \in Consumers |-> ConsIdle]
    /\ sent = [th \in Threads |-> 0]
    /\ stops = 0
    /\ handed = {}
    /\ applied = [g \in Groups |-> [i \in Ids |-> 0]]
    /\ failed = {}
    /\ acked = {}

----------------------------------------------------------------------------
(* Cluster administration.                                                 *)

\* CreateTopic: a fresh topic object replaces whatever the map held.  Its
\* partitions are empty and its leaders spread over the brokers (Init gives
\* every incarnation newTopic's initial value).
CreateTopic(t) ==
    /\ cur[t] < MaxGen
    /\ cur' = [cur EXCEPT ![t] = @ + 1]
    /\ UNCHANGED <<log, leader, killed, offsets, idem, subs, chan, pub, cons,
                   sent, stops, handed, applied, failed, acked>>

\* KillBroker.
KillBroker(b) ==
    /\ b \in Mortal \ killed
    /\ killed' = killed \union {b}
    /\ UNCHANGED <<cur, log, leader, offsets, idem, subs, chan, pub, cons,
                   sent, stops, handed, applied, failed, acked>>

\* The first alive broker after the current leader in cyclic order, tried for
\* i = 1 .. numBrokers - 1; the leader itself is never a candidate.
Candidates(old) ==
    {i \in 1..(NumBrokers - 1) : ((old + i) % NumBrokers) \notin killed}

\* ElectNewLeader.  Brokers never come back, so the candidates found dead
\* while t.mu is held are still dead when the first alive one is found: the
\* scan is one step.  With no candidate the call returns an error and changes
\* nothing.
ElectNewLeader(t, p) ==
    /\ cur[t] > 0
    /\ LET o == <<t, cur[t], p>>
       IN \E i \in Candidates(leader[o]) :
            /\ \A j \in Candidates(leader[o]) : i <= j
            /\ leader' = [leader EXCEPT ![o] = (@ + i) % NumBrokers]
    /\ UNCHANGED <<cur, log, killed, offsets, idem, subs, chan, pub, cons,
                   sent, stops, handed, applied, failed, acked>>

\* Subscribe registers a channel of capacity BufSize with a topic name.
Subscribe(s, t) ==
    /\ \A u \in Topics : \A i \in 1..Len(subs[u]) : subs[u][i] # s
    /\ subs' = [subs EXCEPT ![t] = Append(@, s)]
    /\ UNCHANGED <<cur, log, leader, killed, offsets, idem, chan, pub, cons,
                   sent, stops, handed, applied, failed, acked>>

\* A subscriber takes the oldest record from its channel.
Receive(s) ==
    /\ chan[s] # <<>>
    /\ chan' = [chan EXCEPT ![s] = Tail(@)]
    /\ UNCHANGED <<cur, log, leader, killed, offsets, idem, subs, pub, cons,
                   sent, stops, handed, applied, failed, acked>>

----------------------------------------------------------------------------
(* Publish, called by producers and by RunConsumer for the DLQ.            *)

\* Publish up to the leader read.  The map lookup and the read of leaderMap
\* are separate critical sections that commute with every step in between
\* (a lookup of an older incarnation reads that incarnation's leader), so
\* they are one step.  A name missing from the map is an error.
StartPublish(th, t, r) ==
    IF t = NoTopic \/ (t # NoTopic /\ cur[t] = 0)
    THEN pub' = [pub EXCEPT ![th] = PubAt("err")]
    ELSE LET p == partitionFor(r.key)
         IN pub' = [pub EXCEPT ![th] =
                [at |-> "check", topic |-> t, gen |-> cur[t], part |-> p,
                 leader |-> leader[<<t, cur[t], p>>], rec |-> r, off |-> 0,
                 todo |-> <<>>]]

\* A producer begins PublishActivityEvent (which marshals but does not call
\* Validate) or publishes a raw payload: any event, with or without an ID.
Publish(th) ==
    /\ pub[th].at = "idle"
    /\ sent[th] < MaxPub
    /\ \E e \in Events, t \in Targets :
        StartPublish(th, t, [key |-> e.key, id |-> e.id, json |-> e.json,
                             src |-> th, seq |-> sent[th] + 1, orig |-> <<>>])
    /\ sent' = [sent EXCEPT ![th] = @ + 1]
    /\ UNCHANGED <<cur, log, leader, killed, offsets, idem, subs, chan, cons,
                   stops, handed, applied, failed, acked>>

\* The killed check, on the leader read earlier and under another lock.
PublishCheck(th) ==
    /\ pub[th].at = "check"
    /\ pub' = [pub EXCEPT ![th] =
                IF @.leader \in killed THEN PubAt("err")
                                       ELSE [@ EXCEPT !.at = "append"]]
    /\ UNCHANGED <<cur, log, leader, killed, offsets, idem, subs, chan, cons,
                   sent, stops, handed, applied, failed, acked>>

\* Mutant of PublishAppend (AckedReadable): the length is taken after the append.
PublishAppendLate(th) ==
    /\ pub[th].at = "append"
    /\ LET o == <<pub[th].topic, pub[th].gen, pub[th].part>>
       IN /\ log' = [log EXCEPT ![o] = Append(@, pub[th].rec)]
          /\ pub' = [pub EXCEPT ![th].at = "subs", ![th].off = Len(log[o]) + 1]
    /\ UNCHANGED <<cur, leader, killed, offsets, idem, subs, chan, cons,
                   sent, stops, handed, applied, failed, acked>>

\* partition.append: the record's offset is the length of the log.
PublishAppend(th) ==
    /\ pub[th].at = "append"
    /\ LET o == <<pub[th].topic, pub[th].gen, pub[th].part>>
       IN /\ log' = [log EXCEPT ![o] = Append(@, pub[th].rec)]
          /\ pub' = [pub EXCEPT ![th].at = "subs", ![th].off = Len(log[o])]
    /\ UNCHANGED <<cur, leader, killed, offsets, idem, subs, chan, cons,
                   sent, stops, handed, applied, failed, acked>>

\* The subscriber slice is read once, then used without the lock.
PublishSubs(th) ==
    /\ pub[th].at = "subs"
    /\ pub' = [pub EXCEPT ![th].at = "notify", ![th].todo = subs[pub[th].topic]]
    /\ UNCHANGED <<cur, log, leader, killed, offsets, idem, subs, chan, cons,
                   sent, stops, handed, applied, failed, acked>>

\* One non-blocking send: a full channel drops the record.
PublishNotify(th) ==
    /\ pub[th].at = "notify"
    /\ pub[th].todo # <<>>
    /\ LET s == Head(pub[th].todo)
       IN chan' = IF Len(chan[s]) < BufSize
                  THEN [chan EXCEPT ![s] =
                         Append(@, <<pub[th].gen, pub[th].part, pub[th].off>>)]
                  ELSE chan
    /\ pub' = [pub EXCEPT ![th].todo = Tail(@)]
    /\ UNCHANGED <<cur, log, leader, killed, offsets, idem, subs, cons, sent,
                   stops, handed, applied, failed, acked>>

\* Publish returns the partition and the offset.
PublishReturn(th) ==
    /\ pub[th].at = "notify"
    /\ pub[th].todo = <<>>
    /\ pub' = [pub EXCEPT ![th] = PubAt("ok")]
    /\ acked' = acked \union
         {<<pub[th].topic, pub[th].gen, pub[th].part, pub[th].off,
            pub[th].rec.src, pub[th].rec.seq>>}
    /\ UNCHANGED <<cur, log, leader, killed, offsets, idem, subs, chan, cons,
                   sent, stops, handed, applied, failed>>

\* The producer goes on, whatever Publish returned.
ProducerResume(th) ==
    /\ pub[th].at \in {"ok", "err"}
    /\ pub' = [pub EXCEPT ![th] = PubIdle]
    /\ UNCHANGED <<cur, log, leader, killed, offsets, idem, subs, chan, cons,
                   sent, stops, handed, applied, failed, acked>>

PublishStep(th) ==
    \/ PublishCheck(th)
    \/ PublishAppend(th)
    \/ PublishSubs(th)
    \/ PublishNotify(th)
    \/ PublishReturn(th)

----------------------------------------------------------------------------
(* Consumers.                                                              *)

\* Mutant of NextPart (TypeOK): the sweep runs one partition too far.
NextPartTooFar(c) ==
    LET k == cons[c] IN
    IF k.part < NumPartitions
    THEN [ConsIdle EXCEPT !.at = "lookup", !.part = k.part + 1, !.done = k.done]
    ELSE IF Mode[c] = "run" THEN [ConsIdle EXCEPT !.at = "sweep", !.done = k.done]
    ELSE ConsIdle

\* The consumer's next iteration after partition p: RunConsumer sweeps the
\* partitions in order, testing done before each sweep; ConsumeAll returns
\* after the last one.
NextPart(c) ==
    LET k == cons[c]
        last == k.part + 1 = NumPartitions
    IN IF ~last THEN [ConsIdle EXCEPT !.at = "lookup", !.part = k.part + 1,
                                      !.done = k.done]
       ELSE IF Mode[c] = "run" THEN [ConsIdle EXCEPT !.at = "sweep", !.done = k.done]
       ELSE ConsIdle

\* Mutant of StartConsumer (OffsetsAdvance): a starting consumer resets its
\* group's offsets.
StartConsumerResets(c) ==
    /\ cons[c].at = "idle"
    /\ cons' = [cons EXCEPT ![c].at = IF Mode[c] = "run" THEN "sweep" ELSE "lookup"]
    /\ offsets' = [offsets EXCEPT ![GroupOf[c]] = [p \in Parts |-> 0]]
    /\ UNCHANGED <<cur, log, leader, killed, idem, subs, chan, pub,
                   sent, stops, handed, applied, failed, acked>>

\* RunConsumer or ConsumeAll is called (again).
StartConsumer(c) ==
    /\ cons[c].at = "idle"
    /\ cons' = [cons EXCEPT ![c].at = IF Mode[c] = "run" THEN "sweep" ELSE "lookup"]
    /\ UNCHANGED <<cur, log, leader, killed, offsets, idem, subs, chan, pub,
                   sent, stops, handed, applied, failed, acked>>

\* The caller closes the consumer's done channel.
CloseDone(c) ==
    /\ Mode[c] = "run"
    /\ cons[c].at # "idle"
    /\ ~cons[c].done
    /\ stops < MaxStops
    /\ cons' = [cons EXCEPT ![c].done = TRUE]
    /\ stops' = stops + 1
    /\ UNCHANGED <<cur, log, leader, killed, offsets, idem, subs, chan, pub,
                   sent, handed, applied, failed, acked>>

\* The select on done at the head of each sweep.
Sweep(c) ==
    /\ cons[c].at = "sweep"
    /\ cons' = [cons EXCEPT ![c] = IF @.done THEN ConsIdle
                                   ELSE [@ EXCEPT !.at = "lookup"]]
    /\ UNCHANGED <<cur, log, leader, killed, offsets, idem, subs, chan, pub,
                   sent, stops, handed, applied, failed, acked>>

\* Consume: the topic lookup; a missing topic yields no record.
ConsumeLookup(c) ==
    /\ cons[c].at = "lookup"
    /\ \/ /\ cur[SubTopic[c]] = 0
          /\ cons' = [cons EXCEPT ![c] = NextPart(c)]
       \/ /\ cur[SubTopic[c]] # 0
          /\ cons' = [cons EXCEPT ![c].at = "offset", ![c].gen = cur[SubTopic[c]]]
    /\ UNCHANGED <<cur, log, leader, killed, offsets, idem, subs, chan, pub,
                   sent, stops, handed, applied, failed, acked>>

\* Consume: the committed offset is read under gs.mu, which is released.
ConsumeOffset(c) ==
    /\ cons[c].at = "offset"
    /\ cons' = [cons EXCEPT ![c].at = "fetch",
                            ![c].off = offsets[GroupOf[c]][cons[c].part]]
    /\ UNCHANGED <<cur, log, leader, killed, offsets, idem, subs, chan, pub,
                   sent, stops, handed, applied, failed, acked>>

\* Mutant of AtEnd (EventuallyHanded): the last record is never read.
AtEndEarly(c) == cons[c].off + 1 >= Len(log[<<SubTopic[c], cons[c].gen, cons[c].part>>])

\* partition.read has nothing at the offset the consumer asks for.
AtEnd(c) == cons[c].off >= Len(log[<<SubTopic[c], cons[c].gen, cons[c].part>>])

\* Consume: partition.read at that offset; past the end yields no record.
ConsumeFetch(c) ==
    /\ cons[c].at = "fetch"
    /\ LET l == log[<<SubTopic[c], cons[c].gen, cons[c].part>>]
       IN \/ /\ AtEnd(c)
             /\ cons' = [cons EXCEPT ![c] = NextPart(c)]
          \/ /\ ~AtEnd(c)
             /\ cons' = [cons EXCEPT ![c].at = "commit", ![c].rec = l[cons[c].off + 1]]
    /\ UNCHANGED <<cur, log, leader, killed, offsets, idem, subs, chan, pub,
                   sent, stops, handed, applied, failed, acked>>

\* Mutant of NextOffset (NoSkip): the shared offset is incremented instead.
NextOffsetShared(c) == offsets[GroupOf[c]][cons[c].part] + 1

\* The offset committed for the record read.
NextOffset(c) == cons[c].off + 1

\* Consume: the offset is advanced from the value read two sections earlier,
\* and the record is returned.  ConsumeAll keeps it and asks for the next.
ConsumeCommit(c) ==
    /\ cons[c].at = "commit"
    /\ offsets' = [offsets EXCEPT ![GroupOf[c]][cons[c].part] = NextOffset(c)]
    /\ handed' = handed \union
         {<<GroupOf[c], SubTopic[c], cons[c].gen, cons[c].part, cons[c].off>>}
    /\ cons' = [cons EXCEPT ![c] =
                 IF Mode[c] = "run" THEN [@ EXCEPT !.at = "dispatch"]
                 ELSE [ConsIdle EXCEPT !.at = "lookup", !.part = cons[c].part]]
    /\ UNCHANGED <<cur, log, leader, killed, idem, subs, chan, pub, sent,
                   stops, applied, failed, acked>>

\* The incarnation of the consumer's dead-letter topic, 0 if there is none.
DlqGen(c) == IF Dlq[SubTopic[c]] = NoTopic THEN 0 ELSE cur[Dlq[SubTopic[c]]]

\* RunConsumer with a record in hand: the idempotency check, then the handler.
\* The handler is the caller's function (its outcome is not determined here);
\* it touches no broker state, so it runs in the step that passes the check.
\* An event with no ID is never skipped and never marked.
Dispatch(c) ==
    LET r == cons[c].rec
        g == GroupOf[c]
    IN
    /\ cons[c].at = "dispatch"
    /\ \/ /\ r.id # NoId /\ r.id \in idem[g]
          /\ cons' = [cons EXCEPT ![c] = NextPart(c)]
          /\ UNCHANGED <<applied, failed>>
       \/ /\ r.id \notin idem[g]
          /\ cons' = [cons EXCEPT ![c] = IF r.id = NoId THEN NextPart(c)
                                         ELSE [@ EXCEPT !.at = "mark"]]
          /\ applied' = IF r.id = NoId THEN applied
                        ELSE [applied EXCEPT ![g][r.id] = @ + 1]
          /\ UNCHANGED failed
       \/ /\ r.id \notin idem[g]
          /\ cons' = [cons EXCEPT ![c].at = "dlq"]
          /\ failed' = failed \union
               {[by |-> c, num |-> sent[c] + 1, rec |-> r, gen |-> DlqGen(c)]}
          /\ UNCHANGED applied
    /\ UNCHANGED <<cur, log, leader, killed, offsets, idem, subs, chan, pub,
                   sent, stops, handed, acked>>

\* Mutant of MarkProcessed (AppliedOnce): the idempotency log is not written.
MarkProcessedNot(c) ==
    /\ cons[c].at = "mark"
    /\ cons' = [cons EXCEPT ![c] = NextPart(c)]
    /\ UNCHANGED <<cur, log, leader, killed, offsets, idem, subs, chan, pub, sent,
                   stops, handed, applied, failed, acked>>

\* MarkProcessed after the handler succeeded.
MarkProcessed(c) ==
    /\ cons[c].at = "mark"
    /\ idem' = [idem EXCEPT ![GroupOf[c]] = @ \union {cons[c].rec.id}]
    /\ cons' = [cons EXCEPT ![c] = NextPart(c)]
    /\ UNCHANGED <<cur, log, leader, killed, offsets, subs, chan, pub, sent,
                   stops, handed, applied, failed, acked>>

\* Mutant of DlqRecord (DlqOnlyFailures): every DLQEvent is published under one
\* key.
DlqRecordOneKey(c, r) ==
    [key |-> CHOOSE k \in Keys : TRUE, id |-> NoId, json |-> r.json, src |-> c,
     seq |-> sent[c] + 1, orig |-> IF r.json THEN Ref(r) ELSE <<>>]

\* The DLQEvent for r.  Its JSON carries no event_id.  json.Marshal refuses a
\* RawMessage that is not valid JSON; the error is dropped and the nil bytes
\* are published in its place.
DlqRecord(c, r) ==
    [key |-> r.key, id |-> NoId, json |-> r.json, src |-> c,
     seq |-> sent[c] + 1, orig |-> IF r.json THEN Ref(r) ELSE <<>>]

\* The handler failed: the DLQEvent is published to the DLQ topic.
RouteToDlq(c) ==
    /\ cons[c].at = "dlq"
    /\ pub[c].at = "idle"
    /\ StartPublish(c, Dlq[SubTopic[c]], DlqRecord(c, cons[c].rec))
    /\ sent' = [sent EXCEPT ![c] = @ + 1]
    /\ UNCHANGED <<cur, log, leader, killed, offsets, idem, subs, chan, cons,
                   stops, handed, applied, failed, acked>>

\* Mutant of DlqReturn (DlqKeepsFailures): the worker does not wait for Publish,
\* which ends with it.
DlqReturnEarly(c) ==
    /\ cons[c].at = "dlq"
    /\ pub[c].at # "idle"
    /\ pub' = [pub EXCEPT ![c] = PubIdle]
    /\ cons' = [cons EXCEPT ![c] = NextPart(c)]
    /\ UNCHANGED <<cur, log, leader, killed, offsets, idem, subs, chan, sent,
                   stops, handed, applied, failed, acked>>

\* Publish's error is not looked at: the consumer moves on either way.
DlqReturn(c) ==
    /\ cons[c].at = "dlq"
    /\ pub[c].at \in {"ok", "err"}
    /\ pub' = [pub EXCEPT ![c] = PubIdle]
    /\ cons' = [cons EXCEPT ![c] = NextPart(c)]
    /\ UNCHANGED <<cur, log, leader, killed, offsets, idem, subs, chan, sent,
                   stops, handed, applied, failed, acked>>

\* One step of a running consumer goroutine.
ConsumerStep(c) ==
    \/ Sweep(c)
    \/ ConsumeLookup(c)
    \/ ConsumeOffset(c)
    \/ ConsumeFetch(c)
    \/ ConsumeCommit(c)
    \/ Dispatch(c)
    \/ MarkProcessed(c)
    \/ RouteToDlq(c)
    \/ PublishStep(c)
    \/ DlqReturn(c)

Next ==
    \/ \E t \in Topics : CreateTopic(t)
    \/ \E b \in Brokers : KillBroker(b)
    \/ \E t \in Topics, p \in Parts : ElectNewLeader(t, p)
    \/ \E s \in Subscribers, t \in Topics : Subscribe(s, t)
    \/ \E s \in Subscribers : Receive(s)
    \/ \E th \in Producers : Publish(th)
    \/ \E th \in Producers : PublishStep(th)
    \/ \E th \in Producers : ProducerResume(th)
    \/ \E c \in Consumers : StartConsumer(c)
    \/ \E c \in Consumers : CloseDone(c)
    \/ \E c \in Consumers : ConsumerStep(c)

Spec == Init /\ [][Next]_vars

\* A goroutine inside a call keeps running; nothing obliges anyone to call.
FairSpec ==
    /\ Spec
    /\ \A th \in Producers : WF_vars(PublishStep(th))
    /\ \A c \in Consumers : WF_vars(ConsumerStep(c))

----------------------------------------------------------------------------
(* Properties.                                                             *)

\* A Publish call: from the lookup on, it holds a topic incarnation and a record.
PubState ==
    [at : {"idle", "check", "append", "subs", "notify", "ok", "err"},
     topic : Topics \union {NoTopic}, gen : 0..MaxGen, part : Parts,
     leader : Brokers, rec : Record \union {NoRec}, off : Nat,
     todo : Seq(Subscribers)]

\* A consumer call: from the fetch on, it holds a topic incarnation.
ConsState ==
    [at : {"idle", "sweep", "lookup", "offset", "fetch", "commit",
           "dispatch", "mark", "dlq"},
     gen : 0..MaxGen, part : Parts, off : Nat,
     rec : Record \union {NoRec}, done : BOOLEAN]

\* Every variable has its type, and a call in progress holds what its next
\* section dereferences: a live topic incarnation, a record, an event ID.
TypeOK ==
    /\ cur \in [Topics -> 0..MaxGen]
    /\ log \in [Logs -> Seq(Record)]
    /\ leader \in [Logs -> Brokers]
    /\ killed \subseteq Brokers
    /\ offsets \in [Groups -> [Parts -> Nat]]
    /\ idem \in [Groups -> SUBSET Ids]
    /\ subs \in [Topics -> Seq(Subscribers)]
    /\ chan \in [Subscribers -> Seq(Gens \X Parts \X Nat)]
    /\ pub \in [Threads -> PubState]
    /\ cons \in [Consumers -> ConsState]
    /\ sent \in [Threads -> Nat]
    /\ stops \in Nat
    /\ applied \in [Groups -> [Ids -> Nat]]
    /\ \A th \in Threads : pub[th].at \in {"check", "append", "subs", "notify"} =>
         pub[th].topic \in Topics /\ pub[th].gen \in Gens /\ pub[th].rec \in Record
    /\ \A c \in Consumers :
         /\ cons[c].at \in {"offset", "fetch", "commit"} => cons[c].gen \in Gens
         /\ cons[c].at \in {"commit", "dispatch", "mark", "dlq"} => cons[c].rec \in Record
         /\ cons[c].at = "mark" => cons[c].rec.id \in Ids

\* The topics a group reads.
TopicsOf(g) == {SubTopic[c] : c \in {d \in Consumers : GroupOf[d] = g}}

\* At-least-once hand-out: a committed offset never passes over a record.
\* Every record below a group's committed offset in a partition it reads was
\* returned to one of its consumers, although Consume commits an offset it
\* read before releasing the lock (broker.go Consume).
NoSkip ==
    \A g \in Groups, p \in Parts : \A t \in TopicsOf(g) :
        cur[t] > 0 =>
            \A i \in 1..Len(log[<<t, cur[t], p>>]) :
                i <= offsets[g][p] => <<g, t, cur[t], p, i - 1>> \in handed

\* Idempotent consumption: no event ID is applied twice by one group.
AppliedOnce == \A g \in Groups, i \in Ids : applied[g][i] <= 1

\* A group's committed offset never moves backwards, so a partition's records
\* are handed out in log order.
OffsetsAdvance ==
    [][\A g \in Groups, p \in Parts : offsets[g][p] <= offsets'[g][p]]_vars

\* Ordering guarantee of the partition key: all records of one key that one
\* goroutine published to a topic lie in one partition, in publish order.
KeyOrder ==
    \A o1, o2 \in Logs : (o1[1] = o2[1] /\ o1[2] = o2[2]) =>
        \A i \in 1..Len(log[o1]), j \in 1..Len(log[o2]) :
            (log[o1][i].key = log[o2][j].key /\ log[o1][i].src = log[o2][j].src)
                => /\ o1 = o2
                   /\ i < j => log[o1][i].seq < log[o2][j].seq

\* Durability across failover: what Publish acknowledged stays readable at
\* the offset it returned in the topic's current incarnation.
AckedReadable ==
    \A a \in acked :
        /\ a[4] < Len(log[<<a[1], cur[a[1]], a[3]>>])
        /\ Ref(log[<<a[1], cur[a[1]], a[3]>>][a[4] + 1]) = <<a[5], a[6]>>

\* Entry i of log o is a letter of consumer c in its dead-letter topic.
LetterAt(c, o, i) == o[1] = Dlq[SubTopic[c]] /\ log[o][i].src = c

\* The dead-letter topic holds only failures, and no more than one letter for
\* each: the n-th record a RunConsumer worker published is in its dead-letter
\* topic and nowhere else, under the key of the record its handler failed on for
\* the n-th time, and wraps that record when it is JSON ("exactly one event must
\* be in DLQ").
DlqOnlyFailures ==
    \A o \in Logs : \A i \in 1..Len(log[o]) :
        LET d == log[o][i]
        IN d.src \in Consumers =>
            /\ LetterAt(d.src, o, i)
            /\ \E f \in failed :
                 /\ f.by = d.src /\ f.num = d.seq
                 /\ d.key = f.rec.key /\ d.json = f.rec.json
                 /\ d.orig = IF f.rec.json THEN Ref(f.rec) ELSE <<>>
            /\ \A o2 \in Logs : \A j \in 1..Len(log[o2]) :
                 Ref(log[o2][j]) = Ref(d) => o2 = o /\ j = i

\* Failure f is filed: a letter with its number is in the dead-letter topic.
Filed(f) ==
    \E o \in Logs : \E i \in 1..Len(log[o]) :
        LetterAt(f.by, o, i) /\ log[o][i].seq = f.num

\* Its worker still holds the failed record.
InHand(f) == cons[f.by].at = "dlq" /\ cons[f.by].rec = f.rec

\* No failure is lost while the brokers are up: if the dead-letter topic existed
\* when a handler failed, the letter for that failure is in it or its worker is
\* still about to publish it, whatever else happens in between.
DlqKeepsFailures ==
    killed = {} => \A f \in failed : f.gen # 0 => InHand(f) \/ Filed(f)

\* "routes failures to DLQ": every failure whose consumer has finished routing
\* it is in the dead-letter topic.
DlqComplete == \A f \in failed : InHand(f) \/ Filed(f)

\* "DLQ must include original payload": every letter wraps one.
DlqHasPayload ==
    \A o \in Logs : \A i \in 1..Len(log[o]) :
        log[o][i].src \in Consumers => log[o][i].orig # <<>>

\* A record is appended only while the partition's leader is up ("Returns an
\* error if the leader broker for that partition is down").
AppendOnlyIfLeaderUp ==
    [][\A o \in Logs : log'[o] # log[o] => leader[o] \notin killed]_vars

\* A group with a running consumer is eventually handed every record: a record
\* in a partition the group reads is handed out unless its consumers return.
Running(g, t) == \E c \in Consumers :
    GroupOf[c] = g /\ SubTopic[c] = t /\ Mode[c] = "run" /\ cons[c].at # "idle"

EventuallyHanded ==
    \A g \in Groups : \A t \in TopicsOf(g) : \A p \in Parts : \A i \in 1..MaxPub :
        (cur[t] = 1 /\ Len(log[<<t, 1, p>>]) >= i /\ Running(g, t))
            ~> (<<g, t, 1, p, i - 1>> \in handed \/ ~Running(g, t))
=============================================================================
