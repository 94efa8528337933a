------------------------- MODULE EventBrokerProofs -------------------------
(* Theorems about EventBroker for every number of brokers, partitions,     *)
(* producers, consumers, groups and topics, checked by TLAPS.              *)
EXTENDS EventBroker, TLAPS

\* partitionFor returns an index of the partition slice.
LEMMA PartitionInRange ==
    ASSUME NEW k \in Keys
    PROVE  partitionFor(k) \in Parts
BY SizesAssumption, RolesAssumption DEF partitionFor, Parts

\* The idle call states are well formed.
LEMMA IdleStates ==
    /\ PubIdle \in PubState /\ PubIdle.at = "idle"
    /\ PubAt("ok") \in PubState /\ PubAt("ok").at = "ok"
    /\ PubAt("err") \in PubState /\ PubAt("err").at = "err"
    /\ ConsIdle \in ConsState /\ ConsIdle.at = "idle"
BY SizesAssumption DEF PubAt, PubIdle, ConsIdle, PubState, ConsState, Parts, Brokers

\* Updating single fields of a Publish call keeps it well formed.
LEMMA PubUpdates ==
    ASSUME NEW q \in PubState
    PROVE  /\ \A n \in Nat : [q EXCEPT !.at = "subs", !.off = n] \in PubState
           /\ \A ss \in Seq(Subscribers) : [q EXCEPT !.todo = ss] \in PubState
BY DEF PubState

\* Moving on from a partition leaves a well-formed call with nothing in hand.
LEMMA NextPartTyped ==
    ASSUME TypeOK, NEW c \in Consumers
    PROVE  NextPart(c) \in ConsState /\ NextPart(c).at \in {"idle", "sweep", "lookup"}
<1>1. cons[c] \in ConsState
  BY DEF TypeOK
<1>2. cons[c].part \in Parts /\ cons[c].done \in BOOLEAN
  BY <1>1 DEF ConsState
<1>3. cons[c].part + 1 # NumPartitions => cons[c].part + 1 \in Parts
  BY <1>2, SizesAssumption DEF Parts
<1>4. CASE cons[c].part + 1 # NumPartitions
  BY <1>2, <1>3, <1>4, IdleStates DEF NextPart, ConsState, ConsIdle
<1>5. CASE cons[c].part + 1 = NumPartitions
  BY <1>2, <1>5, IdleStates DEF NextPart, ConsState, ConsIdle
<1>6. QED
  BY <1>4, <1>5

\* The initial state is well typed.
LEMMA InitTyped == Init => TypeOK
<1> SUFFICES ASSUME Init PROVE TypeOK
  OBVIOUS
<1>1. leader \in [Logs -> Brokers]
  BY SizesAssumption DEF Init, Logs, Brokers, Parts
<1>2. QED
  BY <1>1, IdleStates, SizesAssumption
  DEF Init, TypeOK, Parts, Gens

----------------------------------------------------------------------------
(* Type correctness.                                                       *)

\* StartPublish leaves the goroutine with a well-formed Publish call.
LEMMA StartPublishTyped ==
    ASSUME TypeOK, NEW th \in Threads, NEW t \in Topics \union {NoTopic},
           NEW r \in Record, StartPublish(th, t, r)
    PROVE  /\ pub' \in [Threads -> PubState]
           /\ \A x \in Threads : pub'[x].at \in {"check", "append", "subs", "notify"} =>
                pub'[x].topic \in Topics /\ pub'[x].gen \in Gens /\ pub'[x].rec \in Record
<1>1. CASE t = NoTopic \/ (t # NoTopic /\ cur[t] = 0)
  BY <1>1, IdleStates DEF StartPublish, TypeOK
<1>2. CASE ~(t = NoTopic \/ (t # NoTopic /\ cur[t] = 0))
  <2> DEFINE p == partitionFor(r.key)
             call == [at |-> "check", topic |-> t, gen |-> cur[t], part |-> p,
                      leader |-> leader[<<t, cur[t], p>>], rec |-> r, off |-> 0,
                      todo |-> <<>>]
  <2>1. p \in Parts
    BY PartitionInRange DEF Record
  <2>2. t \in Topics /\ cur[t] \in Gens /\ cur[t] \in 0..MaxGen
    BY <1>2, SizesAssumption DEF TypeOK, Gens
  <2>3. leader[<<t, cur[t], p>>] \in Brokers
    BY <2>1, <2>2 DEF TypeOK, Logs
  <2>4. call \in PubState
    BY <2>1, <2>2, <2>3 DEF PubState
  <2>5. pub' = [pub EXCEPT ![th] = call]
    BY <1>2 DEF StartPublish
  <2> HIDE DEF p
  <2>6. QED
    BY <2>2, <2>4, <2>5 DEF TypeOK
<1>3. QED
  BY <1>1, <1>2

\* The Publish sections shared by producers and consumers keep the types.
LEMMA PublishStepTyped ==
    ASSUME TypeOK, NEW th \in Threads, PublishStep(th)
    PROVE  TypeOK'
<1>1. pub[th] \in PubState
  BY DEF TypeOK
<1>2. CASE PublishCheck(th)
  BY <1>1, <1>2, IdleStates DEF PublishCheck, TypeOK, PubState, PubIdle
<1>3. CASE PublishAppend(th)
  <2> DEFINE o == <<pub[th].topic, pub[th].gen, pub[th].part>>
  <2>1. o \in Logs /\ pub[th].rec \in Record /\ log[o] \in Seq(Record)
    BY <1>1, <1>3 DEF PublishAppend, TypeOK, PubState, Logs
  <2>2. log' \in [Logs -> Seq(Record)]
    BY <1>3, <2>1 DEF PublishAppend, TypeOK
  <2>3. [pub[th] EXCEPT !.at = "subs", !.off = Len(log[o])] \in PubState
    <3>1. Len(log[o]) \in Nat
      BY <2>1
    <3> HIDE DEF o
    <3>2. QED
      BY <1>1, <3>1, PubUpdates
  <2>4. /\ pub' \in [Threads -> PubState]
        /\ \A x \in Threads : pub'[x].at \in {"check", "append", "subs", "notify"} =>
             pub'[x].topic \in Topics /\ pub'[x].gen \in Gens /\ pub'[x].rec \in Record
    BY <1>1, <1>3, <2>1, <2>3 DEF PublishAppend, TypeOK, PubState
  <2>5. QED
    BY <1>3, <2>2, <2>4 DEF PublishAppend, TypeOK
<1>4. CASE PublishSubs(th)
  <2>1. subs[pub[th].topic] \in Seq(Subscribers)
    BY <1>4 DEF PublishSubs, TypeOK
  <2>2. QED
    BY <1>1, <1>4, <2>1 DEF PublishSubs, TypeOK, PubState
<1>5. CASE PublishNotify(th)
  <2> DEFINE s == Head(pub[th].todo)
             m == <<pub[th].gen, pub[th].part, pub[th].off>>
  <2>1. s \in Subscribers /\ Tail(pub[th].todo) \in Seq(Subscribers)
    BY <1>1, <1>5 DEF PublishNotify, PubState
  <2>2. m \in Gens \X Parts \X Nat
    BY <1>1, <1>5 DEF PublishNotify, TypeOK, PubState
  <2>3. chan' \in [Subscribers -> Seq(Gens \X Parts \X Nat)]
    <3>1. CASE Len(chan[s]) < BufSize
      <4>1. chan' = [chan EXCEPT ![s] = Append(chan[s], m)]
        BY <1>5, <3>1 DEF PublishNotify
      <4> HIDE DEF s, m
      <4>2. QED
        BY <2>1, <2>2, <4>1 DEF TypeOK
    <3>2. CASE ~(Len(chan[s]) < BufSize)
      BY <1>5, <3>2 DEF PublishNotify, TypeOK
    <3>3. QED
      BY <3>1, <3>2
  <2>4. [pub[th] EXCEPT !.todo = Tail(pub[th].todo)] \in PubState
    BY <1>1, <2>1, PubUpdates
  <2>5. /\ pub' \in [Threads -> PubState]
        /\ \A x \in Threads : pub'[x].at \in {"check", "append", "subs", "notify"} =>
             pub'[x].topic \in Topics /\ pub'[x].gen \in Gens /\ pub'[x].rec \in Record
    BY <1>1, <1>5, <2>4 DEF PublishNotify, TypeOK, PubState
  <2>6. QED
    BY <1>5, <2>3, <2>5 DEF PublishNotify, TypeOK
<1>6. CASE PublishReturn(th)
  BY <1>1, <1>6, IdleStates DEF PublishReturn, TypeOK, PubState, PubIdle
<1>7. QED
  BY <1>2, <1>3, <1>4, <1>5, <1>6 DEF PublishStep

\* The consumer sections keep the types.
LEMMA ConsumerStepTyped ==
    ASSUME TypeOK, NEW c \in Consumers, ConsumerStep(c)
    PROVE  TypeOK'
<1>1. cons[c] \in ConsState /\ c \in Threads /\ pub[c] \in PubState
  BY DEF TypeOK, Threads
<1>2. NextPart(c) \in ConsState /\ NextPart(c).at \in {"idle", "sweep", "lookup"}
  BY NextPartTyped
<1>3. SubTopic[c] \in Topics /\ GroupOf[c] \in Groups
  BY RolesAssumption
<1>4. CASE Sweep(c)
  BY <1>1, <1>4, IdleStates DEF Sweep, TypeOK, ConsState
<1>5. CASE ConsumeLookup(c)
  <2>1. CASE cur[SubTopic[c]] = 0
    BY <1>2, <1>5, <2>1 DEF ConsumeLookup, TypeOK
  <2>2. CASE cur[SubTopic[c]] # 0
    <3>1. cur[SubTopic[c]] \in 0..MaxGen /\ cur[SubTopic[c]] \in Gens
      BY <1>3, <2>2, SizesAssumption DEF TypeOK, Gens
    <3>2. cons' = [cons EXCEPT ![c].at = "offset", ![c].gen = cur[SubTopic[c]]]
      BY <1>5, <2>2 DEF ConsumeLookup
    <3>3. cons' \in [Consumers -> ConsState]
      BY <1>1, <3>1, <3>2 DEF TypeOK, ConsState
    <3>4. cons'[c].at = "offset" /\ cons'[c].gen \in Gens
      BY <1>1, <3>1, <3>2 DEF TypeOK, ConsState
    <3>5. \A d \in Consumers \ {c} : cons'[d] = cons[d]
      BY <3>2 DEF TypeOK
    <3>6. QED
      BY <1>5, <3>3, <3>4, <3>5 DEF ConsumeLookup, TypeOK
  <2>3. QED
    BY <2>1, <2>2
<1>6. CASE ConsumeOffset(c)
  <2>1. offsets[GroupOf[c]][cons[c].part] \in Nat
    BY <1>1, <1>3 DEF TypeOK, ConsState
  <2>2. cons' = [cons EXCEPT ![c].at = "fetch",
                             ![c].off = offsets[GroupOf[c]][cons[c].part]]
    BY <1>6 DEF ConsumeOffset
  <2>3. cons' \in [Consumers -> ConsState]
    BY <1>1, <2>1, <2>2 DEF TypeOK, ConsState
  <2>4. cons'[c].at = "fetch" /\ cons'[c].gen \in Gens
    BY <1>1, <1>6, <2>1, <2>2 DEF ConsumeOffset, TypeOK, ConsState
  <2>5. \A d \in Consumers \ {c} : cons'[d] = cons[d]
    BY <2>2 DEF TypeOK
  <2>6. QED
    BY <1>6, <2>3, <2>4, <2>5 DEF ConsumeOffset, TypeOK
<1>7. CASE ConsumeFetch(c)
  <2> DEFINE l == log[<<SubTopic[c], cons[c].gen, cons[c].part>>]
  <2>1. cons[c].gen \in Gens /\ l \in Seq(Record) /\ cons[c].off \in Nat
    BY <1>1, <1>3, <1>7 DEF ConsumeFetch, AtEnd, TypeOK, ConsState, Logs
  <2>2. CASE cons[c].off >= Len(l)
    <3>1. Len(l) \in Nat
      BY <2>1
    <3>2. cons' = [cons EXCEPT ![c] = NextPart(c)]
      BY <1>7, <2>1, <2>2, <3>1 DEF ConsumeFetch, AtEnd
    <3>3. QED
      BY <1>2, <1>7, <3>2 DEF ConsumeFetch, AtEnd, TypeOK
  <2>3. CASE ~(cons[c].off >= Len(l))
    <3>1. l[cons[c].off + 1] \in Record
      <4> HIDE DEF l
      <4>1. cons[c].off + 1 \in 1..Len(l)
        BY <2>1, <2>3
      <4>2. QED
        BY <2>1, <4>1
    <3>2. cons' = [cons EXCEPT ![c].at = "commit", ![c].rec = l[cons[c].off + 1]]
      BY <1>7, <2>1, <2>3 DEF ConsumeFetch, AtEnd
    <3> HIDE DEF l
    <3>3. cons' \in [Consumers -> ConsState]
      BY <1>1, <3>1, <3>2 DEF TypeOK, ConsState
    <3>4. cons'[c].at = "commit" /\ cons'[c].gen \in Gens /\ cons'[c].rec \in Record
      BY <1>1, <2>1, <3>1, <3>2 DEF TypeOK, ConsState
    <3>5. \A d \in Consumers \ {c} : cons'[d] = cons[d]
      BY <3>2 DEF TypeOK
    <3>6. QED
      BY <1>7, <3>3, <3>4, <3>5 DEF ConsumeFetch, AtEnd, TypeOK
  <2>4. QED
    BY <2>2, <2>3
<1>8. CASE ConsumeCommit(c)
  <2>1. offsets' \in [Groups -> [Parts -> Nat]]
    BY <1>1, <1>3, <1>8 DEF ConsumeCommit, NextOffset, TypeOK, ConsState
  <2>2. CASE Mode[c] = "run"
    BY <1>1, <1>8, <2>1, <2>2 DEF ConsumeCommit, NextOffset, TypeOK, ConsState
  <2>3. CASE Mode[c] # "run"
    BY <1>1, <1>8, <2>1, <2>3, IdleStates DEF ConsumeCommit, NextOffset, TypeOK, ConsState, ConsIdle
  <2>4. QED
    BY <2>2, <2>3
<1>9. CASE Dispatch(c)
  <2> DEFINE r == cons[c].rec
             g == GroupOf[c]
  <2>1. r \in Record /\ r.id \in Ids \union {NoId}
    BY <1>9 DEF Dispatch, TypeOK, Record
  <2>2. CASE cons' = [cons EXCEPT ![c] = NextPart(c)] /\ UNCHANGED <<applied, failed>>
    BY <1>2, <1>9, <2>2 DEF Dispatch, TypeOK
  <2>3. CASE /\ cons' = [cons EXCEPT ![c] = IF r.id = NoId THEN NextPart(c)
                                            ELSE [cons[c] EXCEPT !.at = "mark"]]
             /\ applied' = IF r.id = NoId THEN applied
                           ELSE [applied EXCEPT ![g][r.id] = @ + 1]
    <3>1. CASE r.id = NoId
      BY <1>2, <1>9, <2>3, <3>1 DEF Dispatch, TypeOK
    <3>2. CASE r.id # NoId
      <4>1. applied' \in [Groups -> [Ids -> Nat]]
        BY <1>3, <2>1, <2>3, <3>2 DEF TypeOK
      <4>2. QED
        BY <1>1, <1>9, <2>1, <2>3, <3>2, <4>1 DEF Dispatch, TypeOK, ConsState
    <3>3. QED
      BY <3>1, <3>2
  <2>4. CASE cons' = [cons EXCEPT ![c].at = "dlq"] /\ UNCHANGED applied
    BY <1>1, <1>9, <2>1, <2>4 DEF Dispatch, TypeOK, ConsState
  <2>5. QED
    BY <1>9, <2>2, <2>3, <2>4 DEF Dispatch
<1>10. CASE MarkProcessed(c)
  BY <1>2, <1>3, <1>10 DEF MarkProcessed, TypeOK
<1>11. CASE RouteToDlq(c)
  <2> DEFINE d == DlqRecord(c, cons[c].rec)
  <2>1. cons[c].rec \in Record /\ sent[c] + 1 \in Nat
    BY <1>1, <1>11 DEF RouteToDlq, TypeOK
  <2>2. d \in Record
    BY <1>1, <2>1 DEF DlqRecord, Record, Ref
  <2>3. Dlq[SubTopic[c]] \in Topics \union {NoTopic}
    BY <1>3, NamesAssumption
  <2>4. /\ pub' \in [Threads -> PubState]
        /\ \A x \in Threads : pub'[x].at \in {"check", "append", "subs", "notify"} =>
             pub'[x].topic \in Topics /\ pub'[x].gen \in Gens /\ pub'[x].rec \in Record
    <3> HIDE DEF d
    <3>1. StartPublish(c, Dlq[SubTopic[c]], d)
      BY <1>11 DEF RouteToDlq, d
    <3>2. QED
      BY <1>1, <2>2, <2>3, <3>1, StartPublishTyped
  <2>5. QED
    BY <1>1, <1>11, <2>1, <2>4 DEF RouteToDlq, TypeOK
<1>12. CASE PublishStep(c)
  BY <1>1, <1>12, PublishStepTyped
<1>13. CASE DlqReturn(c)
  BY <1>1, <1>2, <1>13, IdleStates DEF DlqReturn, TypeOK
<1>14. QED
  BY <1>4, <1>5, <1>6, <1>7, <1>8, <1>9, <1>10, <1>11, <1>12, <1>13
  DEF ConsumerStep

\* Every step of the system keeps the types.
LEMMA StepTyped == TypeOK /\ [Next]_vars => TypeOK'
<1> SUFFICES ASSUME TypeOK, [Next]_vars PROVE TypeOK'
  OBVIOUS
<1>1. ASSUME NEW t \in Topics, CreateTopic(t) PROVE TypeOK'
  BY <1>1, SizesAssumption DEF CreateTopic, TypeOK
<1>2. ASSUME NEW b \in Brokers, KillBroker(b) PROVE TypeOK'
  BY <1>2 DEF KillBroker, TypeOK
<1>3. ASSUME NEW t \in Topics, NEW p \in Parts, ElectNewLeader(t, p) PROVE TypeOK'
  <2> DEFINE o == <<t, cur[t], p>>
  <2>1. o \in Logs /\ leader[o] \in Brokers
    BY <1>3, SizesAssumption DEF ElectNewLeader, TypeOK, Logs, Gens
  <2>2. PICK i \in Candidates(leader[o]) :
          leader' = [leader EXCEPT ![o] = (leader[o] + i) % NumBrokers]
    BY <1>3 DEF ElectNewLeader
  <2>3. (leader[o] + i) % NumBrokers \in Brokers
    <3>1. leader[o] \in Nat /\ i \in Nat
      BY <2>1 DEF Brokers, Candidates
    <3> HIDE DEF o
    <3>2. QED
      BY <3>1, SizesAssumption DEF Brokers
  <2> HIDE DEF o
  <2>4. leader' \in [Logs -> Brokers]
    BY <2>1, <2>2, <2>3 DEF TypeOK
  <2>5. QED
    BY <1>3, <2>4 DEF ElectNewLeader, TypeOK
<1>4. ASSUME NEW s \in Subscribers, NEW t \in Topics, Subscribe(s, t) PROVE TypeOK'
  BY <1>4 DEF Subscribe, TypeOK
<1>5. ASSUME NEW s \in Subscribers, Receive(s) PROVE TypeOK'
  <2>1. chan' \in [Subscribers -> Seq(Gens \X Parts \X Nat)]
    BY <1>5 DEF Receive, TypeOK
  <2>2. QED
    BY <1>5, <2>1 DEF Receive, TypeOK
<1>6. ASSUME NEW th \in Producers, Publish(th) PROVE TypeOK'
  <2> DEFINE R(e) == [key |-> e.key, id |-> e.id, json |-> e.json,
                      src |-> th, seq |-> sent[th] + 1, orig |-> <<>>]
  <2>1. PICK e \in Events, t \in Targets : StartPublish(th, t, R(e))
    BY <1>6 DEF Publish
  <2>2. th \in Threads /\ sent[th] \in Nat /\ t \in Topics
    BY NamesAssumption DEF TypeOK, Threads
  <2>3. R(e) \in Record
    BY <2>2, EventsAssumption DEF Record
  <2> HIDE DEF R
  <2>4. /\ pub' \in [Threads -> PubState]
        /\ \A x \in Threads : pub'[x].at \in {"check", "append", "subs", "notify"} =>
             pub'[x].topic \in Topics /\ pub'[x].gen \in Gens /\ pub'[x].rec \in Record
    BY <2>1, <2>2, <2>3, StartPublishTyped
  <2>5. sent' \in [Threads -> Nat]
    BY <1>6, <2>2 DEF Publish, TypeOK
  <2>6. UNCHANGED <<cur, log, leader, killed, offsets, idem, subs, chan, cons,
                    stops, applied>>
    BY <1>6 DEF Publish
  <2>7. QED
    BY <2>4, <2>5, <2>6 DEF TypeOK
<1>7. ASSUME NEW th \in Producers, PublishStep(th) PROVE TypeOK'
  BY <1>7, PublishStepTyped DEF Threads
<1>8. ASSUME NEW th \in Producers, ProducerResume(th) PROVE TypeOK'
  BY <1>8, IdleStates DEF ProducerResume, TypeOK, Threads
<1>9. ASSUME NEW c \in Consumers, StartConsumer(c) PROVE TypeOK'
  BY <1>9, IdleStates, ZenonT(30) DEF StartConsumer, TypeOK, ConsState
<1>10. ASSUME NEW c \in Consumers, CloseDone(c) PROVE TypeOK'
  <2>a. cons[c] \in ConsState /\ cons' = [cons EXCEPT ![c].done = TRUE]
    BY <1>10 DEF CloseDone, TypeOK
  <2>1. cons' \in [Consumers -> ConsState]
    BY <2>a DEF TypeOK, ConsState
  <2>2. \A d \in Consumers : /\ cons'[d].at = cons[d].at
                             /\ cons'[d].gen = cons[d].gen
                             /\ cons'[d].rec = cons[d].rec
    BY <1>10 DEF CloseDone, TypeOK, ConsState
  <2>3. QED
    BY <1>10, <2>1, <2>2 DEF CloseDone, TypeOK
<1>11. ASSUME NEW c \in Consumers, ConsumerStep(c) PROVE TypeOK'
  BY <1>11, ConsumerStepTyped
<1>12. CASE UNCHANGED vars
  BY <1>12 DEF vars, TypeOK
<1>13. QED
  BY <1>1, <1>2, <1>3, <1>4, <1>5, <1>6, <1>7, <1>8, <1>9, <1>10, <1>11, <1>12
  DEF Next

\* Type correctness: whatever the goroutines interleave, no section of the
\* broker dereferences a missing topic, partition, record or event ID.
THEOREM TypeCorrect == Spec => []TypeOK
<1>1. Init => TypeOK
  BY InitTyped
<1>2. TypeOK /\ [Next]_vars => TypeOK'
  BY StepTyped
<1>3. QED
  BY <1>1, <1>2, PTL DEF Spec

----------------------------------------------------------------------------
(* At-least-once hand-out.                                                 *)

\* Groups are used for one topic only, and topics are created once: what the
\* callers must respect for committed offsets to mean anything, since offsets
\* are keyed by partition alone and outlive a topic incarnation.
OneTopicPerGroup ==
    \A c, d \in Consumers : GroupOf[c] = GroupOf[d] => SubTopic[c] = SubTopic[d]

\* NoSkip is not inductive: a consumer that read an old offset may commit it
\* later.  Everything below an offset in flight was handed out as well.
HandOutInv ==
    /\ \A c \in Consumers, p \in Parts, i \in Nat :
         i < offsets[GroupOf[c]][p] => <<GroupOf[c], SubTopic[c], 1, p, i>> \in handed
    /\ \A c \in Consumers, i \in Nat :
         (cons[c].at \in {"fetch", "commit"} /\ i < cons[c].off)
            => <<GroupOf[c], SubTopic[c], 1, cons[c].part, i>> \in handed

\* No group has a committed or pending offset initially.
LEMMA HandOutInit == Init => HandOutInv
BY RolesAssumption DEF Init, HandOutInv, ConsIdle

\* Steps that leave offsets and hand-outs alone and touch only calls that hold
\* no offset keep the invariant.
LEMMA HandOutFrame ==
    ASSUME HandOutInv, UNCHANGED <<offsets, handed>>,
           \A d \in Consumers :
              \/ cons'[d].at \notin {"fetch", "commit"}
              \/ /\ cons[d].at \in {"fetch", "commit"}
                 /\ cons'[d].off = cons[d].off
                 /\ cons'[d].part = cons[d].part
    PROVE  HandOutInv'
BY DEF HandOutInv

\* What the consumer sections other than the offset read and the commit do to
\* the calls: none of them makes an offset pending or moves one.
LEMMA ConsumerStepCalls ==
    ASSUME TypeOK, NEW c \in Consumers, ConsumerStep(c),
           ~ConsumeOffset(c), ~ConsumeCommit(c)
    PROVE  /\ UNCHANGED <<offsets, handed>>
           /\ \A d \in Consumers :
                \/ cons'[d].at \notin {"fetch", "commit"}
                \/ /\ cons[d].at \in {"fetch", "commit"}
                   /\ cons'[d].off = cons[d].off
                   /\ cons'[d].part = cons[d].part
<1>1. cons[c] \in ConsState /\ cons \in [Consumers -> ConsState]
  BY DEF TypeOK
<1>2. NextPart(c).at \in {"idle", "sweep", "lookup"}
  BY NextPartTyped
<1>3. CASE Sweep(c)
  BY <1>1, <1>3, IdleStates DEF Sweep, ConsState
<1>4. CASE ConsumeLookup(c)
  BY <1>1, <1>2, <1>4 DEF ConsumeLookup, ConsState
<1>5. CASE ConsumeFetch(c)
  <2>1. \/ cons' = [cons EXCEPT ![c] = NextPart(c)]
        \/ \E r : cons' = [cons EXCEPT ![c].at = "commit", ![c].rec = r]
    BY <1>5 DEF ConsumeFetch, AtEnd
  <2>2. UNCHANGED <<offsets, handed>> /\ cons[c].at = "fetch"
    BY <1>5 DEF ConsumeFetch, AtEnd
  <2>3. CASE cons' = [cons EXCEPT ![c] = NextPart(c)]
    BY <1>1, <1>2, <2>2, <2>3
  <2>4. ASSUME NEW r, cons' = [cons EXCEPT ![c].at = "commit", ![c].rec = r]
        PROVE  \A d \in Consumers :
                \/ cons'[d].at \notin {"fetch", "commit"}
                \/ /\ cons[d].at \in {"fetch", "commit"}
                   /\ cons'[d].off = cons[d].off
                   /\ cons'[d].part = cons[d].part
    BY <1>1, <2>2, <2>4 DEF ConsState
  <2>5. QED
    BY <2>1, <2>2, <2>3, <2>4
<1>6. CASE Dispatch(c)
  BY <1>1, <1>2, <1>6 DEF Dispatch, ConsState
<1>7. CASE MarkProcessed(c)
  BY <1>1, <1>2, <1>7 DEF MarkProcessed, ConsState
<1>8. CASE RouteToDlq(c)
  BY <1>8 DEF RouteToDlq
<1>9. CASE PublishStep(c)
  BY <1>9 DEF PublishStep, PublishCheck, PublishAppend, PublishSubs, PublishNotify, PublishReturn
<1>10. CASE DlqReturn(c)
  BY <1>1, <1>2, <1>10 DEF DlqReturn, ConsState
<1>11. QED
  BY <1>3, <1>4, <1>5, <1>6, <1>7, <1>8, <1>9, <1>10 DEF ConsumerStep

\* The same for every step that is not a consumer's.
LEMMA OtherStepCalls ==
    ASSUME TypeOK, [Next]_vars, \A c \in Consumers : ~ConsumerStep(c)
    PROVE  /\ UNCHANGED <<offsets, handed, idem, applied>>
           /\ \A d \in Consumers :
                /\ cons'[d].off = cons[d].off
                /\ cons'[d].part = cons[d].part
                /\ cons'[d].rec = cons[d].rec
                /\ \/ cons'[d].at = cons[d].at
                   \/ cons[d].at = "idle" /\ cons'[d].at \in {"sweep", "lookup"}
<1>1. cons \in [Consumers -> ConsState]
  BY DEF TypeOK
<1>2. ASSUME NEW c \in Consumers, StartConsumer(c)
      PROVE  /\ UNCHANGED <<offsets, handed, idem, applied>>
             /\ \A d \in Consumers :
                  /\ cons'[d].off = cons[d].off
                  /\ cons'[d].part = cons[d].part
                  /\ cons'[d].rec = cons[d].rec
                  /\ \/ cons'[d].at = cons[d].at
                     \/ cons[d].at = "idle" /\ cons'[d].at \in {"sweep", "lookup"}
  BY <1>1, <1>2 DEF StartConsumer, ConsState
<1>3. ASSUME NEW c \in Consumers, CloseDone(c)
      PROVE  /\ UNCHANGED <<offsets, handed, idem, applied>>
             /\ \A d \in Consumers :
                  /\ cons'[d].off = cons[d].off
                  /\ cons'[d].part = cons[d].part
                  /\ cons'[d].rec = cons[d].rec
                  /\ cons'[d].at = cons[d].at
  BY <1>1, <1>3 DEF CloseDone, ConsState
<1>4. CASE \A c \in Consumers : ~StartConsumer(c) /\ ~CloseDone(c)
  <2>1. UNCHANGED <<offsets, handed, idem, applied, cons>>
    BY <1>4 DEF Next, vars, CreateTopic, KillBroker, ElectNewLeader, Subscribe, Receive,
         Publish, ProducerResume, PublishStep, PublishCheck, PublishAppend,
         PublishSubs, PublishNotify, PublishReturn
  <2>2. QED
    BY <2>1
<1>5. QED
  BY <1>2, <1>3, <1>4

\* Reading an offset and committing one keep the invariant.
LEMMA HandOutStep ==
    ASSUME MaxGen = 1, OneTopicPerGroup
    PROVE  TypeOK /\ HandOutInv /\ [Next]_vars => HandOutInv'
<1> SUFFICES ASSUME TypeOK, HandOutInv, [Next]_vars PROVE HandOutInv'
  OBVIOUS
<1>1. ASSUME NEW c \in Consumers, ConsumeOffset(c) PROVE HandOutInv'
  <2>1. cons[c] \in ConsState /\ cons \in [Consumers -> ConsState]
    BY DEF TypeOK
  <2>2. /\ cons'[c].at = "fetch" /\ cons'[c].part = cons[c].part
        /\ cons'[c].off = offsets[GroupOf[c]][cons[c].part]
        /\ cons[c].part \in Parts
    BY <1>1, <2>1 DEF ConsumeOffset, ConsState
  <2>3. \A d \in Consumers \ {c} : cons'[d] = cons[d]
    BY <1>1, <2>1 DEF ConsumeOffset
  <2>4. UNCHANGED <<offsets, handed>>
    BY <1>1 DEF ConsumeOffset
  <2>5. QED
    BY <2>2, <2>3, <2>4 DEF HandOutInv
<1>2. ASSUME NEW c \in Consumers, ConsumeCommit(c) PROVE HandOutInv'
  <2> DEFINE g == GroupOf[c]
             p == cons[c].part
             n == cons[c].off
  <2>a. cons[c].gen \in Gens /\ cons[c] \in ConsState /\ cons \in [Consumers -> ConsState]
    BY <1>2 DEF ConsumeCommit, NextOffset, TypeOK
  <2>b. g \in Groups /\ p \in Parts /\ n \in Nat
    BY <2>a, RolesAssumption DEF ConsState
  <2>c. cons[c].gen = 1
    BY <2>a DEF Gens
  <2>1. /\ cons[c] \in ConsState /\ cons \in [Consumers -> ConsState]
        /\ g \in Groups /\ p \in Parts /\ n \in Nat /\ cons[c].gen = 1
    BY <2>a, <2>b, <2>c
  <2>2. cons'[c].at \in {"dispatch", "lookup"}
    BY <1>2, <2>1, IdleStates DEF ConsumeCommit, NextOffset, ConsState, ConsIdle
  <2>3. \A d \in Consumers \ {c} : cons'[d] = cons[d]
    BY <1>2, <2>1 DEF ConsumeCommit, NextOffset
  <2>4. handed' = handed \union {<<g, SubTopic[c], 1, p, n>>}
    BY <1>2, <2>1 DEF ConsumeCommit, NextOffset
  <2>5. offsets' = [offsets EXCEPT ![g][p] = n + 1]
    BY <1>2 DEF ConsumeCommit, NextOffset
  <2>6. \A i \in Nat : i < n + 1 => <<g, SubTopic[c], 1, p, i>> \in handed'
    <3> SUFFICES ASSUME NEW i \in Nat, i < n + 1
                 PROVE  <<g, SubTopic[c], 1, p, i>> \in handed'
      OBVIOUS
    <3>1. CASE i = n
      BY <2>4, <3>1
    <3>2. CASE i < n
      BY <1>2, <2>4, <3>2 DEF HandOutInv, ConsumeCommit, NextOffset
    <3>3. QED
      BY <2>1, <3>1, <3>2
  <2>7. \A d \in Consumers, q \in Parts, i \in Nat :
          i < offsets'[GroupOf[d]][q] => <<GroupOf[d], SubTopic[d], 1, q, i>> \in handed'
    <3> SUFFICES ASSUME NEW d \in Consumers, NEW q \in Parts, NEW i \in Nat,
                        i < offsets'[GroupOf[d]][q]
                 PROVE  <<GroupOf[d], SubTopic[d], 1, q, i>> \in handed'
      OBVIOUS
    <3>1. offsets \in [Groups -> [Parts -> Nat]] /\ GroupOf[d] \in Groups
      BY RolesAssumption DEF TypeOK
    <3>2. CASE GroupOf[d] = g /\ q = p
      <4>1. offsets'[g][p] = n + 1
        BY <2>1, <2>5, <3>1
      <4>2. SubTopic[d] = SubTopic[c]
        BY <3>2 DEF OneTopicPerGroup
      <4>3. QED
        BY <2>6, <3>2, <4>1, <4>2
    <3>3. CASE ~(GroupOf[d] = g /\ q = p)
      <4>1. offsets'[GroupOf[d]][q] = offsets[GroupOf[d]][q]
        BY <2>1, <2>5, <3>1, <3>3
      <4>2. QED
        BY <2>4, <4>1 DEF HandOutInv
    <3>4. QED
      BY <3>2, <3>3
  <2>8. QED
    BY <2>2, <2>3, <2>4, <2>7 DEF HandOutInv
<1>3. CASE \E c \in Consumers : ConsumerStep(c) /\ ~ConsumeOffset(c) /\ ~ConsumeCommit(c)
  BY <1>3, ConsumerStepCalls, HandOutFrame
<1>4. CASE \A c \in Consumers : ~ConsumerStep(c)
  BY <1>4, OtherStepCalls, HandOutFrame
<1>5. QED
  BY <1>1, <1>2, <1>3, <1>4

\* The invariant says at least what NoSkip says.
LEMMA HandOutImpliesNoSkip ==
    ASSUME MaxGen = 1
    PROVE  TypeOK /\ HandOutInv => NoSkip
<1> SUFFICES ASSUME TypeOK, HandOutInv,
                    NEW g \in Groups, NEW p \in Parts, NEW t \in TopicsOf(g), cur[t] > 0,
                    NEW i \in 1..Len(log[<<t, cur[t], p>>]), i <= offsets[g][p]
             PROVE  <<g, t, cur[t], p, i - 1>> \in handed
  BY DEF NoSkip
<1>1. PICK c \in Consumers : GroupOf[c] = g /\ SubTopic[c] = t
  BY DEF TopicsOf
<1>2. cur[t] = 1
  BY <1>1, RolesAssumption DEF TypeOK
<1>3. i - 1 \in Nat /\ i - 1 < offsets[g][p]
  BY DEF TypeOK
<1>4. QED
  BY <1>1, <1>2, <1>3 DEF HandOutInv

\* No record is ever skipped: with one topic per group and no re-creation,
\* every record below a committed offset was handed to a consumer of the
\* group, for any number of concurrent consumers and any interleaving of the
\* offset read and the offset write in Consume.
THEOREM NothingSkipped ==
    ASSUME MaxGen = 1, OneTopicPerGroup
    PROVE  Spec => []NoSkip
<1>1. Init => HandOutInv
  BY HandOutInit
<1>2. TypeOK /\ HandOutInv /\ [Next]_vars => HandOutInv'
  BY HandOutStep
<1>3. TypeOK /\ HandOutInv => NoSkip
  BY HandOutImpliesNoSkip
<1>4. QED
  BY <1>1, <1>2, <1>3, TypeCorrect, PTL DEF Spec

----------------------------------------------------------------------------
(* Groups with a single consumer.                                          *)

\* Each group has one consumer, the case in which the idempotency check and
\* the offset update, each split over two critical sections, act as one.
SoloGroups == \A c, d \in Consumers : GroupOf[c] = GroupOf[d] => c = d

\* An offset in flight is the committed one.
OffsetInv ==
    \A c \in Consumers : cons[c].at \in {"fetch", "commit"} =>
        cons[c].off = offsets[GroupOf[c]][cons[c].part]

\* An applied event is marked, or its only consumer is about to mark it.
AppliedInv ==
    \A g \in Groups, i \in Ids :
        /\ applied[g][i] <= 1
        /\ applied[g][i] # 0 =>
             \/ i \in idem[g]
             \/ \E c \in Consumers :
                  GroupOf[c] = g /\ cons[c].at = "mark" /\ cons[c].rec.id = i

\* Initially nobody consumes and every offset is 0.
LEMMA OffsetInit == Init => OffsetInv
BY DEF Init, OffsetInv, ConsIdle

\* No other consumer of the group moves the offset between read and commit.
LEMMA OffsetStep ==
    ASSUME SoloGroups
    PROVE  TypeOK /\ OffsetInv /\ [Next]_vars => OffsetInv'
<1> SUFFICES ASSUME TypeOK, OffsetInv, [Next]_vars PROVE OffsetInv'
  OBVIOUS
<1>1. ASSUME NEW c \in Consumers, ConsumeOffset(c) PROVE OffsetInv'
  <2>1. cons[c] \in ConsState /\ cons \in [Consumers -> ConsState]
    BY DEF TypeOK
  <2>2. /\ cons'[c].part = cons[c].part
        /\ cons'[c].off = offsets[GroupOf[c]][cons[c].part]
    BY <1>1, <2>1 DEF ConsumeOffset, ConsState
  <2>3. (\A d \in Consumers \ {c} : cons'[d] = cons[d]) /\ UNCHANGED offsets
    BY <1>1, <2>1 DEF ConsumeOffset
  <2>4. QED
    BY <2>2, <2>3 DEF OffsetInv
<1>2. ASSUME NEW c \in Consumers, ConsumeCommit(c) PROVE OffsetInv'
  <2>1. cons[c] \in ConsState /\ cons \in [Consumers -> ConsState]
    BY DEF TypeOK
  <2>2. cons'[c].at \in {"dispatch", "lookup"}
    BY <1>2, <2>1, IdleStates DEF ConsumeCommit, NextOffset, ConsState, ConsIdle
  <2>3. \A d \in Consumers \ {c} : cons'[d] = cons[d]
    BY <1>2, <2>1 DEF ConsumeCommit, NextOffset
  <2>4. \A d \in Consumers \ {c} : offsets'[GroupOf[d]] = offsets[GroupOf[d]]
    BY <1>2, RolesAssumption DEF ConsumeCommit, NextOffset, SoloGroups, TypeOK
  <2>5. QED
    BY <2>2, <2>3, <2>4 DEF OffsetInv
<1>3. CASE \E c \in Consumers : ConsumerStep(c) /\ ~ConsumeOffset(c) /\ ~ConsumeCommit(c)
  <2>1. UNCHANGED offsets
    BY <1>3, ConsumerStepCalls
  <2>2. QED
    BY <1>3, <2>1, ConsumerStepCalls DEF OffsetInv
<1>4. CASE \A c \in Consumers : ~ConsumerStep(c)
  <2>1. UNCHANGED offsets
    BY <1>4, OtherStepCalls
  <2>2. QED
    BY <1>4, <2>1, OtherStepCalls DEF OffsetInv
<1>5. QED
  BY <1>1, <1>2, <1>3, <1>4

\* A group with one consumer reads each partition in log order: the committed
\* offset never moves backwards.
THEOREM SoloOffsetsAdvance ==
    ASSUME SoloGroups
    PROVE  Spec => OffsetsAdvance
<1> DEFINE Advance == \A g \in Groups, p \in Parts : offsets[g][p] <= offsets'[g][p]
<1>1. Init => OffsetInv
  BY OffsetInit
<1>2. TypeOK /\ OffsetInv /\ [Next]_vars => OffsetInv'
  BY OffsetStep
<1>3. TypeOK /\ OffsetInv /\ [Next]_vars => Advance
  <2> SUFFICES ASSUME TypeOK, OffsetInv, [Next]_vars PROVE Advance
    OBVIOUS
  <2>1. ASSUME NEW c \in Consumers, ConsumeCommit(c) PROVE Advance
    <3> DEFINE g == GroupOf[c]
               p == cons[c].part
    <3>1. /\ g \in Groups /\ p \in Parts /\ cons[c].off = offsets[g][p]
          /\ offsets \in [Groups -> [Parts -> Nat]]
      BY <2>1, RolesAssumption DEF ConsumeCommit, NextOffset, TypeOK, ConsState, OffsetInv
    <3>2. offsets' = [offsets EXCEPT ![g][p] = offsets[g][p] + 1]
      BY <2>1, <3>1 DEF ConsumeCommit, NextOffset
    <3> HIDE DEF g, p
    <3>3. QED
      BY <3>1, <3>2
  <2>2. CASE UNCHANGED offsets
    BY <2>2 DEF TypeOK
  <2>3. CASE \A c \in Consumers : ~ConsumeCommit(c)
    <3>1. ASSUME NEW c \in Consumers, ConsumeOffset(c) PROVE UNCHANGED offsets
      BY <3>1 DEF ConsumeOffset
    <3>2. CASE \E c \in Consumers : ConsumerStep(c) /\ ~ConsumeOffset(c)
      BY <2>2, <2>3, <3>2, ConsumerStepCalls
    <3>3. CASE \A c \in Consumers : ~ConsumerStep(c)
      BY <2>2, <3>3, OtherStepCalls
    <3>4. QED
      BY <2>2, <3>1, <3>2, <3>3
  <2>4. QED
    BY <2>1, <2>3
<1> HIDE DEF Advance
<1>4. Spec => [][Advance]_vars
  BY <1>1, <1>2, <1>3, TypeCorrect, PTL DEF Spec
<1>5. QED
  BY <1>4 DEF OffsetsAdvance, Advance

\* Initially nothing was applied.
LEMMA AppliedInit == Init => AppliedInv
BY DEF Init, AppliedInv

\* The idempotency check and the mark act as one step for a lone consumer.
LEMMA AppliedStep ==
    ASSUME SoloGroups
    PROVE  TypeOK /\ AppliedInv /\ [Next]_vars => AppliedInv'
<1> SUFFICES ASSUME TypeOK, AppliedInv, [Next]_vars PROVE AppliedInv'
  OBVIOUS
<1>a. cons \in [Consumers -> ConsState]
  BY DEF TypeOK
<1>1. ASSUME NEW c \in Consumers, Dispatch(c) PROVE AppliedInv'
  <2> DEFINE r == cons[c].rec
             g == GroupOf[c]
  <2>1. /\ g \in Groups /\ r.id \in Ids \union {NoId} /\ cons[c] \in ConsState
        /\ cons[c].at = "dispatch" /\ UNCHANGED idem
        /\ applied \in [Groups -> [Ids -> Nat]]
    BY <1>1, RolesAssumption DEF Dispatch, TypeOK, Record
  <2>2. \A d \in Consumers \ {c} : cons'[d] = cons[d]
    BY <1>1, <1>a DEF Dispatch
  <2>3. CASE UNCHANGED applied
    BY <2>1, <2>2, <2>3 DEF AppliedInv
  <2>4. CASE /\ r.id \notin idem[g] /\ r.id # NoId
             /\ cons' = [cons EXCEPT ![c] = [cons[c] EXCEPT !.at = "mark"]]
             /\ applied' = [applied EXCEPT ![g][r.id] = @ + 1]
    <3>1. cons'[c].at = "mark" /\ cons'[c].rec.id = r.id
      BY <1>a, <2>1, <2>4 DEF ConsState
    <3>2. applied[g][r.id] = 0
      <4>1. \A d \in Consumers : GroupOf[d] = g => cons[d].at # "mark"
        BY <2>1 DEF SoloGroups
      <4> HIDE DEF r, g
      <4>2. QED
        BY <2>1, <2>4, <4>1 DEF AppliedInv
    <3>3. applied'[g][r.id] = 1
      BY <2>1, <2>4, <3>2
    <3>4. \A h \in Groups, i \in Ids : ~(h = g /\ i = r.id) => applied'[h][i] = applied[h][i]
      BY <2>1, <2>4
    <3>5. QED
      BY <2>1, <2>2, <3>1, <3>3, <3>4 DEF AppliedInv
  <2>5. QED
    BY <1>1, <2>3, <2>4 DEF Dispatch
<1>2. ASSUME NEW c \in Consumers, MarkProcessed(c) PROVE AppliedInv'
  <2>1. GroupOf[c] \in Groups /\ idem \in [Groups -> SUBSET Ids]
    BY RolesAssumption DEF TypeOK
  <2>2. /\ idem' = [idem EXCEPT ![GroupOf[c]] = @ \union {cons[c].rec.id}]
        /\ UNCHANGED applied
        /\ \A d \in Consumers \ {c} : cons'[d] = cons[d]
    BY <1>2, <1>a DEF MarkProcessed
  <2>3. QED
    BY <2>1, <2>2 DEF AppliedInv
<1>3. ASSUME NEW c \in Consumers, ConsumerStep(c), ~Dispatch(c), ~MarkProcessed(c)
      PROVE  AppliedInv'
  <2>1. cons[c].at # "mark" \/ UNCHANGED cons
    BY <1>3 DEF ConsumerStep, Sweep, ConsumeLookup, ConsumeOffset, ConsumeFetch, AtEnd,
         ConsumeCommit, NextOffset, RouteToDlq, DlqReturn, PublishStep, PublishCheck,
         PublishAppend, PublishSubs, PublishNotify, PublishReturn
  <2>2. UNCHANGED <<idem, applied>> /\ \A d \in Consumers \ {c} : cons'[d] = cons[d]
    BY <1>3, <1>a DEF ConsumerStep, Sweep, ConsumeLookup, ConsumeOffset, ConsumeFetch, AtEnd,
         ConsumeCommit, NextOffset, RouteToDlq, DlqReturn, PublishStep, PublishCheck,
         PublishAppend, PublishSubs, PublishNotify, PublishReturn
  <2>3. QED
    BY <2>1, <2>2 DEF AppliedInv
<1>4. CASE \A c \in Consumers : ~ConsumerStep(c)
  <2>1. UNCHANGED <<idem, applied>> /\
        \A d \in Consumers : cons[d].at = "mark" =>
            cons'[d].at = "mark" /\ cons'[d].rec = cons[d].rec
    BY <1>4, OtherStepCalls
  <2>2. QED
    BY <2>1 DEF AppliedInv
<1>5. QED
  BY <1>1, <1>2, <1>3, <1>4

\* Idempotent consumption: a group with one consumer applies each event ID at
\* most once, however often the event was published.
THEOREM SoloAppliedOnce ==
    ASSUME SoloGroups
    PROVE  Spec => []AppliedOnce
<1>1. Init => AppliedInv
  BY AppliedInit
<1>2. TypeOK /\ AppliedInv /\ [Next]_vars => AppliedInv'
  BY AppliedStep
<1>3. AppliedInv => AppliedOnce
  BY DEF AppliedInv, AppliedOnce
<1>4. QED
  BY <1>1, <1>2, <1>3, TypeCorrect, PTL DEF Spec

----------------------------------------------------------------------------
(* Ordering by partition key.                                              *)

\* Why the key orders: a goroutine numbers its publishes, has at most one
\* pending, and everything it already appended has a smaller number.
KeyInv ==
    /\ \A o \in Logs : \A i \in 1..Len(log[o]) :
         /\ o[3] = partitionFor(log[o][i].key)
         /\ log[o][i].seq <= sent[log[o][i].src]
    /\ \A o \in Logs : \A i, j \in 1..Len(log[o]) :
         (i < j /\ log[o][i].src = log[o][j].src) => log[o][i].seq < log[o][j].seq
    /\ \A th \in Threads : pub[th].at \in {"check", "append"} =>
         /\ pub[th].part = partitionFor(pub[th].rec.key)
         /\ pub[th].rec.src = th
         /\ pub[th].rec.seq = sent[th]
         /\ \A o \in Logs : \A i \in 1..Len(log[o]) :
              log[o][i].src = th => log[o][i].seq < sent[th]

\* Initially every log is empty.
LEMMA KeyInit == Init => KeyInv
BY DEF Init, KeyInv, PubIdle, PubAt

\* Steps that append nothing and start no Publish keep the invariant.
LEMMA KeyFrame ==
    ASSUME KeyInv, UNCHANGED <<log, sent>>,
           \A x \in Threads : pub'[x].at \in {"check", "append"} =>
              /\ pub[x].at \in {"check", "append"}
              /\ pub'[x].part = pub[x].part
              /\ pub'[x].rec = pub[x].rec
    PROVE  KeyInv'
BY DEF KeyInv, partitionFor

\* Starting a Publish takes the goroutine's next number.
LEMMA KeyStart ==
    ASSUME TypeOK, KeyInv, NEW th \in Threads, NEW t \in Topics \union {NoTopic},
           NEW r \in Record, StartPublish(th, t, r),
           r.src = th, r.seq = sent[th] + 1,
           sent' = [sent EXCEPT ![th] = @ + 1], UNCHANGED log
    PROVE  KeyInv'
<1>1. pub \in [Threads -> PubState] /\ sent \in [Threads -> Nat] /\ log \in [Logs -> Seq(Record)]
  BY DEF TypeOK
<1>2. sent'[th] = sent[th] + 1 /\ \A x \in Threads \ {th} : sent'[x] = sent[x]
  BY <1>1
<1>3. \A x \in Threads \ {th} : pub'[x] = pub[x]
  BY <1>1 DEF StartPublish
<1>4. \/ pub'[th].at = "err"
      \/ pub'[th].part = partitionFor(r.key) /\ pub'[th].rec = r
  BY <1>1, IdleStates DEF StartPublish
<1>5. \A o \in Logs : \A i \in 1..Len(log[o]) :
        log[o][i] \in Record /\ log[o][i].src \in Threads /\ log[o][i].seq \in Nat
  <2> SUFFICES ASSUME NEW o \in Logs, NEW i \in 1..Len(log[o])
               PROVE  log[o][i] \in Record
    BY DEF Record
  <2>1. log[o] \in Seq(Record)
    BY <1>1
  <2>2. QED
    BY <2>1
<1>6. \A o \in Logs : \A i \in 1..Len(log[o]) :
        /\ log[o][i].seq <= sent'[log[o][i].src]
        /\ log[o][i].src = th => log[o][i].seq < sent'[th]
  BY <1>1, <1>2, <1>5 DEF KeyInv
<1>7. QED
  BY <1>1, <1>2, <1>3, <1>4, <1>6 DEF KeyInv, partitionFor

\* Appending adds the goroutine's largest number to its key's partition.
LEMMA KeyAppend ==
    ASSUME TypeOK, KeyInv, NEW th \in Threads, PublishAppend(th)
    PROVE  KeyInv'
<1> DEFINE q == pub[th]
           o == <<q.topic, q.gen, q.part>>
<1>1. /\ q \in PubState /\ q.rec \in Record /\ o \in Logs /\ log[o] \in Seq(Record)
      /\ log \in [Logs -> Seq(Record)] /\ q.at = "append"
      /\ sent \in [Threads -> Nat] /\ pub \in [Threads -> PubState]
  BY DEF PublishAppend, TypeOK, PubState, Logs
<1>2. log' = [log EXCEPT ![o] = Append(log[o], q.rec)] /\ UNCHANGED sent
  BY DEF PublishAppend
<1>3. o[3] = partitionFor(q.rec.key) /\ q.rec.src = th /\ q.rec.seq = sent[th]
  BY <1>1 DEF KeyInv
<1>4. \A x \in Logs : \A i \in 1..Len(log[x]) :
        log[x][i].src = th => log[x][i].seq < q.rec.seq
  BY <1>1, <1>3 DEF KeyInv
<1>5. /\ pub'[th].at = "subs"
      /\ \A x \in Threads \ {th} : pub'[x] = pub[x]
  BY <1>1 DEF PublishAppend, PubState
<1> HIDE DEF o, q
<1>6. /\ Len(log'[o]) = Len(log[o]) + 1 /\ Len(log[o]) \in Nat
      /\ \A i \in 1..Len(log[o]) : log'[o][i] = log[o][i]
      /\ log'[o][Len(log[o]) + 1] = q.rec
      /\ \A x \in Logs \ {o} : log'[x] = log[x]
  BY <1>1, <1>2
<1>7. \A x \in Logs : \A i \in 1..Len(log'[x]) :
        \/ i \in 1..Len(log[x]) /\ log'[x][i] = log[x][i]
        \/ x = o /\ i = Len(log[o]) + 1 /\ log'[x][i] = q.rec
  BY <1>6
<1>8. \A x \in Logs : \A i \in 1..Len(log'[x]) :
        /\ x[3] = partitionFor(log'[x][i].key)
        /\ log'[x][i].seq <= sent[log'[x][i].src]
  BY <1>1, <1>3, <1>7 DEF KeyInv
<1>9. \A x \in Logs : \A i, j \in 1..Len(log'[x]) :
        (i < j /\ log'[x][i].src = log'[x][j].src) => log'[x][i].seq < log'[x][j].seq
  <2> SUFFICES ASSUME NEW x \in Logs, NEW i \in 1..Len(log'[x]), NEW j \in 1..Len(log'[x]),
                      i < j, log'[x][i].src = log'[x][j].src
               PROVE  log'[x][i].seq < log'[x][j].seq
    OBVIOUS
  <2>1. CASE j \in 1..Len(log[x]) /\ log'[x][j] = log[x][j]
    <3>1. i \in 1..Len(log[x]) /\ log'[x][i] = log[x][i]
      BY <1>6, <1>7, <2>1
    <3>2. QED
      BY <2>1, <3>1 DEF KeyInv
  <2>2. CASE x = o /\ j = Len(log[o]) + 1 /\ log'[x][j] = q.rec
    <3>1. i \in 1..Len(log[x]) /\ log'[x][i] = log[x][i]
      BY <1>6, <1>7, <2>2
    <3>2. QED
      BY <1>3, <1>4, <2>2, <3>1
  <2>3. QED
    BY <1>7, <2>1, <2>2
<1>10. \A x \in Threads \ {th} : pub[x].at \in {"check", "append"} =>
         \A y \in Logs : \A i \in 1..Len(log'[y]) :
            log'[y][i].src = x => log'[y][i].seq < sent[x]
  BY <1>3, <1>7 DEF KeyInv
<1>11. \A x \in Threads : pub'[x].at \in {"check", "append"} =>
         /\ x # th /\ pub'[x] = pub[x]
         /\ pub[x].part = partitionFor(pub[x].rec.key)
         /\ pub[x].rec.src = x
         /\ pub[x].rec.seq = sent[x]
  BY <1>5 DEF KeyInv
<1>12. \A k : partitionFor(k)' = partitionFor(k)
  BY DEF partitionFor
<1>13. QED
  BY <1>2, <1>8, <1>9, <1>10, <1>11, <1>12, SMTT(30) DEF KeyInv, partitionFor

\* Every step keeps the placement and order of keys.
LEMMA KeyStep == TypeOK /\ KeyInv /\ [Next]_vars => KeyInv'
<1> SUFFICES ASSUME TypeOK, KeyInv, [Next]_vars PROVE KeyInv'
  OBVIOUS
<1>a. pub \in [Threads -> PubState]
  BY DEF TypeOK
<1>1. ASSUME NEW th \in Producers, Publish(th) PROVE KeyInv'
  <2> DEFINE R(e) == [key |-> e.key, id |-> e.id, json |-> e.json,
                      src |-> th, seq |-> sent[th] + 1, orig |-> <<>>]
  <2>1. PICK e \in Events, t \in Targets : StartPublish(th, t, R(e))
    BY <1>1 DEF Publish
  <2>2. th \in Threads /\ sent[th] \in Nat /\ t \in Topics
    BY NamesAssumption DEF TypeOK, Threads
  <2>3. R(e) \in Record /\ R(e).src = th /\ R(e).seq = sent[th] + 1
    BY <2>2, EventsAssumption DEF Record
  <2> HIDE DEF R
  <2>4. sent' = [sent EXCEPT ![th] = @ + 1] /\ UNCHANGED log
    BY <1>1 DEF Publish
  <2>5. QED
    BY <2>1, <2>2, <2>3, <2>4, KeyStart
<1>2. ASSUME NEW c \in Consumers, RouteToDlq(c) PROVE KeyInv'
  <2> DEFINE d == DlqRecord(c, cons[c].rec)
  <2>1. c \in Threads /\ cons[c].rec \in Record /\ sent[c] + 1 \in Nat
    BY <1>2 DEF RouteToDlq, TypeOK, Threads
  <2>2. d \in Record /\ d.src = c /\ d.seq = sent[c] + 1
    BY <2>1 DEF DlqRecord, Record, Ref
  <2>3. Dlq[SubTopic[c]] \in Topics \union {NoTopic}
    BY NamesAssumption, RolesAssumption
  <2>4. /\ StartPublish(c, Dlq[SubTopic[c]], d)
        /\ sent' = [sent EXCEPT ![c] = @ + 1] /\ UNCHANGED log
    BY <1>2 DEF RouteToDlq
  <2> HIDE DEF d
  <2>5. QED
    BY <2>1, <2>2, <2>3, <2>4, KeyStart
<1>3. ASSUME NEW th \in Threads, PublishStep(th), ~PublishAppend(th) PROVE KeyInv'
  <2>1. pub[th] \in PubState /\ UNCHANGED <<log, sent>>
    BY <1>3, <1>a DEF PublishStep, PublishCheck, PublishSubs, PublishNotify, PublishReturn
  <2>2. \A x \in Threads \ {th} : pub'[x] = pub[x]
    BY <1>3, <1>a DEF PublishStep, PublishCheck, PublishSubs, PublishNotify, PublishReturn
  <2>3. pub'[th].at \in {"check", "append"} =>
          /\ pub[th].at \in {"check", "append"}
          /\ pub'[th].part = pub[th].part
          /\ pub'[th].rec = pub[th].rec
    <3>1. CASE PublishCheck(th)
      BY <1>a, <2>1, <3>1, IdleStates DEF PublishCheck, PubState
    <3>2. CASE PublishSubs(th) \/ PublishNotify(th) \/ PublishReturn(th)
      <4>1. CASE PublishSubs(th)
        BY <1>a, <2>1, <4>1 DEF PublishSubs, PubState
      <4>2. CASE PublishNotify(th)
        BY <1>a, <2>1, <4>2 DEF PublishNotify, PubState
      <4>3. CASE PublishReturn(th)
        BY <1>a, <4>3, IdleStates DEF PublishReturn
      <4>4. QED
        BY <3>2, <4>1, <4>2, <4>3
    <3>3. QED
      BY <1>3, <3>1, <3>2 DEF PublishStep
  <2>4. QED
    BY <2>1, <2>2, <2>3, KeyFrame
<1>4. ASSUME NEW th \in Threads, PublishAppend(th) PROVE KeyInv'
  BY <1>4, KeyAppend
<1>5. ASSUME NEW th \in Threads, ProducerResume(th) PROVE KeyInv'
  BY <1>5, <1>a, IdleStates, KeyFrame DEF ProducerResume
<1>6. ASSUME NEW c \in Consumers, DlqReturn(c) PROVE KeyInv'
  BY <1>6, <1>a, IdleStates, KeyFrame DEF DlqReturn
<1>7. CASE UNCHANGED <<pub, log, sent>>
  BY <1>7, KeyFrame
<1>8. QED
  <2>1. ASSUME NEW c \in Consumers, ConsumerStep(c) PROVE KeyInv'
    <3>1. CASE PublishStep(c) \/ RouteToDlq(c) \/ DlqReturn(c)
      BY <1>2, <1>3, <1>4, <1>6, <3>1 DEF Threads
    <3>2. CASE ~(PublishStep(c) \/ RouteToDlq(c) \/ DlqReturn(c))
      BY <1>7, <2>1, <3>2 DEF ConsumerStep, Sweep, ConsumeLookup, ConsumeOffset,
         ConsumeFetch, AtEnd, ConsumeCommit, NextOffset, Dispatch, MarkProcessed
    <3>3. QED
      BY <3>1, <3>2
  <2>2. ASSUME NEW th \in Producers, PublishStep(th) \/ ProducerResume(th) PROVE KeyInv'
    BY <1>3, <1>4, <1>5, <2>2 DEF Threads
  <2>3. CASE UNCHANGED vars
    BY <1>7, <2>3 DEF vars
  <2>4. ASSUME NEW c \in Consumers, StartConsumer(c) \/ CloseDone(c) PROVE KeyInv'
    BY <1>7, <2>4 DEF StartConsumer, CloseDone
  <2>5. ASSUME NEW s \in Subscribers, Receive(s) \/ \E t \in Topics : Subscribe(s, t)
        PROVE  KeyInv'
    BY <1>7, <2>5 DEF Receive, Subscribe
  <2>6. CASE \/ \E t \in Topics : CreateTopic(t)
             \/ \E b \in Brokers : KillBroker(b)
             \/ \E t \in Topics, p \in Parts : ElectNewLeader(t, p)
    BY <1>7, <2>6 DEF CreateTopic, KillBroker, ElectNewLeader
  <2>7. QED
    BY <1>1, <2>1, <2>2, <2>3, <2>4, <2>5, <2>6 DEF Next

\* Ordering by key: for every assignment of keys to partitions, every cluster
\* history and every number of concurrent publishers, a goroutine's records of
\* one key lie in one partition of a topic incarnation, in publish order.
THEOREM KeyOrdered == Spec => []KeyOrder
<1>1. Init => KeyInv
  BY KeyInit
<1>2. TypeOK /\ KeyInv /\ [Next]_vars => KeyInv'
  BY KeyStep
<1>3. TypeOK /\ KeyInv => KeyOrder
  <2> SUFFICES ASSUME TypeOK, KeyInv, NEW o1 \in Logs, NEW o2 \in Logs,
                      o1[1] = o2[1], o1[2] = o2[2],
                      NEW i \in 1..Len(log[o1]), NEW j \in 1..Len(log[o2]),
                      log[o1][i].key = log[o2][j].key, log[o1][i].src = log[o2][j].src
               PROVE  o1 = o2 /\ (i < j => log[o1][i].seq < log[o2][j].seq)
    BY DEF KeyOrder
  <2>1. o1[3] = o2[3]
    BY DEF KeyInv
  <2>2. o1 = o2
    BY <2>1 DEF Logs
  <2>3. QED
    BY <2>2 DEF KeyInv
<1>4. QED
  BY <1>1, <1>2, <1>3, TypeCorrect, PTL DEF Spec

----------------------------------------------------------------------------
(* What a step does to the logs and to the Publish calls.                  *)

\* The steps that can move goroutine x's Publish call: it starts one, runs a
\* section of it, or drops the call that returned.
Calls(x) ==
    \/ x \in Producers /\ Publish(x)
    \/ x \in Consumers /\ RouteToDlq(x)
    \/ PublishStep(x)
    \/ x \in Producers /\ ProducerResume(x)
    \/ x \in Consumers /\ DlqReturn(x)

\* Any other step leaves the logs, the calls and the acknowledgements alone.
LEMMA CallsOnly ==
    ASSUME [Next]_vars, \A x \in Threads : ~Calls(x)
    PROVE  UNCHANGED <<pub, log, acked, sent>>
<1>1. ASSUME NEW c \in Consumers, ConsumerStep(c) PROVE UNCHANGED <<pub, log, acked, sent>>
  BY <1>1 DEF Calls, Threads, ConsumerStep, Sweep, ConsumeLookup, ConsumeOffset,
     ConsumeFetch, AtEnd, ConsumeCommit, NextOffset, Dispatch, MarkProcessed
<1>2. ASSUME NEW c \in Consumers, StartConsumer(c) \/ CloseDone(c)
      PROVE  UNCHANGED <<pub, log, acked, sent>>
  BY <1>2 DEF StartConsumer, CloseDone
<1>3. ASSUME NEW th \in Producers, Publish(th) \/ PublishStep(th) \/ ProducerResume(th)
      PROVE  FALSE
  BY <1>3 DEF Calls, Threads
<1>4. CASE \/ \E t \in Topics : CreateTopic(t)
           \/ \E b \in Brokers : KillBroker(b)
           \/ \E t \in Topics, p \in Parts : ElectNewLeader(t, p)
           \/ \E s \in Subscribers, t \in Topics : Subscribe(s, t)
           \/ \E s \in Subscribers : Receive(s)
  BY <1>4 DEF CreateTopic, KillBroker, ElectNewLeader, Subscribe, Receive
<1>5. CASE UNCHANGED vars
  BY <1>5 DEF vars
<1>6. QED
  BY <1>1, <1>2, <1>3, <1>4, <1>5 DEF Next

\* A call's own steps leave the calls of the others alone, and only a returning
\* Publish acknowledges.
LEMMA CallsLocal ==
    ASSUME TypeOK, NEW th \in Threads, Calls(th)
    PROVE  /\ \A x \in Threads \ {th} : pub'[x] = pub[x] /\ sent'[x] = sent[x]
           /\ UNCHANGED cur
           /\ ~PublishAppend(th) => UNCHANGED log
           /\ ~PublishReturn(th) => UNCHANGED acked
<1>1. pub \in [Threads -> PubState] /\ sent \in [Threads -> Nat]
  BY DEF TypeOK
<1>2. CASE Publish(th)
  BY <1>1, <1>2 DEF Publish, StartPublish
<1>3. CASE RouteToDlq(th)
  BY <1>1, <1>3 DEF RouteToDlq, StartPublish
<1>4. CASE PublishStep(th)
  BY <1>1, <1>4 DEF PublishStep, PublishCheck, PublishAppend, PublishSubs,
                    PublishNotify, PublishReturn
<1>5. CASE ProducerResume(th) \/ DlqReturn(th)
  BY <1>1, <1>5 DEF ProducerResume, DlqReturn
<1>6. QED
  BY <1>2, <1>3, <1>4, <1>5 DEF Calls

\* Where a goroutine's own step leaves its Publish call.
LEMMA CallsMove ==
    ASSUME TypeOK, NEW th \in Threads, Calls(th)
    PROVE  \/ pub'[th].at \in {"idle", "ok", "err"}
           \/ /\ pub'[th].at = "check"
              /\ pub'[th].topic \in Topics
              /\ pub'[th].gen = cur[pub'[th].topic]
              /\ \/ th \in Producers /\ pub'[th].rec.src = th
                 \/ /\ th \in Consumers
                    /\ cons[th].at = "dlq"
                    /\ pub'[th].topic = Dlq[SubTopic[th]]
                    /\ pub'[th].rec = DlqRecord(th, cons[th].rec)
           \/ /\ PublishCheck(th)
              /\ pub'[th] = [pub[th] EXCEPT !.at = "append"]
           \/ /\ PublishAppend(th)
              /\ pub'[th] = [pub[th] EXCEPT !.at = "subs",
                   !.off = Len(log[<<pub[th].topic, pub[th].gen, pub[th].part>>])]
           \/ /\ pub[th].at \in {"subs", "notify"}
              /\ \E ss : pub'[th] = [pub[th] EXCEPT !.at = "notify", !.todo = ss]
<1>1. pub \in [Threads -> PubState] /\ pub[th] \in PubState
  BY DEF TypeOK
<1>2. ASSUME NEW t \in Topics \union {NoTopic}, NEW r, StartPublish(th, t, r)
      PROVE  \/ pub'[th].at = "err"
             \/ /\ pub'[th].at = "check" /\ t \in Topics /\ pub'[th].topic = t
                /\ pub'[th].gen = cur[t] /\ pub'[th].rec = r
  BY <1>1, <1>2, IdleStates DEF StartPublish
<1>3. CASE th \in Producers /\ Publish(th)
  <2> DEFINE R(e) == [key |-> e.key, id |-> e.id, json |-> e.json,
                      src |-> th, seq |-> sent[th] + 1, orig |-> <<>>]
  <2>1. PICK e \in Events, t \in Targets : StartPublish(th, t, R(e))
    BY <1>3 DEF Publish
  <2>2. R(e).src = th /\ t \in Topics
    BY NamesAssumption
  <2> HIDE DEF R
  <2> DEFINE x == R(e)
  <2>3. StartPublish(th, t, x) /\ x.src = th  BY <2>1, <2>2
  <2> HIDE DEF x
  <2>4. \/ pub'[th].at = "err"
        \/ /\ pub'[th].at = "check" /\ t \in Topics /\ pub'[th].topic = t
           /\ pub'[th].gen = cur[t] /\ pub'[th].rec = x
    BY <1>2, <2>2, <2>3
  <2>5. CASE pub'[th].at = "err"  BY <2>5
  <2>6. CASE pub'[th].at # "err"  BY <1>3, <2>3, <2>4, <2>6
  <2>7. QED  BY <2>5, <2>6
<1>4. CASE th \in Consumers /\ RouteToDlq(th)
  <2>1. Dlq[SubTopic[th]] \in Topics \union {NoTopic}
    BY <1>4, NamesAssumption, RolesAssumption
  <2>2. StartPublish(th, Dlq[SubTopic[th]], DlqRecord(th, cons[th].rec))
        /\ cons[th].at = "dlq"
    BY <1>4 DEF RouteToDlq
  <2>3. QED
    BY <1>2, <1>4, <2>1, <2>2
<1>5. CASE PublishCheck(th)
  BY <1>1, <1>5, IdleStates DEF PublishCheck
<1>6. CASE PublishAppend(th)
  BY <1>1, <1>6 DEF PublishAppend
<1>7. CASE PublishSubs(th)
  <2>1. pub'[th] = [pub[th] EXCEPT !.at = "notify", !.todo = subs[pub[th].topic]]
    BY <1>1, <1>7 DEF PublishSubs
  <2>2. QED
    BY <1>7, <2>1 DEF PublishSubs
<1>8. CASE PublishNotify(th)
  <2>1. pub'[th] = [pub[th] EXCEPT !.todo = Tail(pub[th].todo)] /\ pub[th].at = "notify"
    BY <1>1, <1>8 DEF PublishNotify
  <2>2. pub'[th] = [pub[th] EXCEPT !.at = "notify", !.todo = Tail(pub[th].todo)]
    BY <1>1, <2>1 DEF PubState
  <2>3. QED
    BY <2>1, <2>2
<1>9. CASE PublishReturn(th)
  BY <1>1, <1>9, IdleStates DEF PublishReturn
<1>10. CASE ProducerResume(th) \/ DlqReturn(th)
  BY <1>1, <1>10, IdleStates DEF ProducerResume, DlqReturn
<1>11. QED
  BY <1>3, <1>4, <1>5, <1>6, <1>7, <1>8, <1>9, <1>10 DEF Calls, PublishStep

\* A partition's log only grows, one record of a Publish call at a time.
LEMMA AppendOnly ==
    ASSUME TypeOK, NEW th \in Threads, PublishAppend(th)
    PROVE  LET o == <<pub[th].topic, pub[th].gen, pub[th].part>>
           IN /\ o \in Logs /\ Len(log[o]) \in Nat
              /\ Len(log'[o]) = Len(log[o]) + 1
              /\ log'[o][Len(log[o]) + 1] = pub[th].rec
              /\ \A i \in 1..Len(log[o]) : log'[o][i] = log[o][i]
              /\ \A x \in Logs \ {o} : log'[x] = log[x]
<1> DEFINE q == pub[th]
           o == <<q.topic, q.gen, q.part>>
<1>1. /\ q \in PubState /\ q.rec \in Record /\ o \in Logs
      /\ log \in [Logs -> Seq(Record)] /\ log[o] \in Seq(Record)
  BY DEF PublishAppend, TypeOK, PubState, Logs
<1>2. log' = [log EXCEPT ![o] = Append(log[o], q.rec)]
  BY DEF PublishAppend
<1> HIDE DEF o, q
<1>3. /\ o \in Logs /\ Len(log[o]) \in Nat
      /\ Len(log'[o]) = Len(log[o]) + 1
      /\ log'[o][Len(log[o]) + 1] = q.rec
      /\ \A i \in 1..Len(log[o]) : log'[o][i] = log[o][i]
      /\ \A x \in Logs \ {o} : log'[x] = log[x]
  BY <1>1, <1>2
<1>4. QED
  BY <1>3 DEF o, q

----------------------------------------------------------------------------
(* Durability of acknowledged records.                                     *)

\* Record ref is stored at offset n of log o.
Stored(o, n, ref) == n \in Nat /\ n < Len(log[o]) /\ Ref(log[o][n + 1]) = ref

\* AckedReadable is not inductive: a Publish call that has appended must hold
\* the offset and the incarnation it appended to until it returns them.  An
\* acknowledgement is for an incarnation that exists.
AckedInv ==
    /\ \A a \in acked :
         /\ a[1] \in Topics /\ a[2] \in Gens /\ a[2] <= cur[a[1]] /\ a[3] \in Parts
         /\ Stored(<<a[1], a[2], a[3]>>, a[4], <<a[5], a[6]>>)
    /\ \A x \in Threads : pub[x].at \in {"check", "append", "subs", "notify"} =>
         pub[x].gen <= cur[pub[x].topic]
    /\ \A x \in Threads : pub[x].at \in {"subs", "notify"} =>
         Stored(<<pub[x].topic, pub[x].gen, pub[x].part>>, pub[x].off, Ref(pub[x].rec))

\* Initially nothing is acknowledged and nobody publishes.
LEMMA AckedInit == Init => AckedInv
BY DEF Init, AckedInv, PubIdle, PubAt

\* What is stored stays where it is.
LEMMA StoredStays ==
    ASSUME TypeOK, [Next]_vars, NEW o \in Logs, NEW n, NEW ref, Stored(o, n, ref)
    PROVE  n < Len(log'[o]) /\ Ref(log'[o][n + 1]) = ref
<1>1. CASE \E th \in Threads : PublishAppend(th)
  <2>1. PICK th \in Threads : PublishAppend(th)
    BY <1>1
  <2> DEFINE w == <<pub[th].topic, pub[th].gen, pub[th].part>>
  <2>2. /\ Len(log[w]) \in Nat /\ Len(log'[w]) = Len(log[w]) + 1
        /\ \A i \in 1..Len(log[w]) : log'[w][i] = log[w][i]
        /\ \A x \in Logs \ {w} : log'[x] = log[x]
    BY <2>1, AppendOnly
  <2> HIDE DEF w
  <2>3. CASE o = w
    <3>1. n + 1 \in 1..Len(log[o])
      BY <2>2, <2>3 DEF Stored
    <3>2. QED
      BY <2>2, <2>3, <3>1 DEF Stored, Ref
  <2>4. CASE o # w
    BY <2>2, <2>4 DEF Stored, Ref
  <2>5. QED
    BY <2>3, <2>4
<1>2. CASE ~ \E th \in Threads : PublishAppend(th)
  <2>1. UNCHANGED log
    BY <1>2, CallsOnly, CallsLocal
  <2>2. QED
    BY <2>1 DEF Stored, Ref
<1>3. QED
  BY <1>1, <1>2

\* Topics are created anew, never removed.
LEMMA TopicsStay ==
    ASSUME TypeOK, [Next]_vars, NEW t \in Topics
    PROVE  cur[t] \in Nat /\ cur'[t] \in Nat /\ cur[t] <= cur'[t]
<1>1. cur \in [Topics -> 0..MaxGen] /\ MaxGen \in Nat
  BY SizesAssumption DEF TypeOK
<1>2. ASSUME NEW u \in Topics, CreateTopic(u) PROVE cur[t] <= cur'[t]
  BY <1>1, <1>2 DEF CreateTopic
<1>3. CASE UNCHANGED cur
  BY <1>1, <1>3
<1>4. CASE ~ \E u \in Topics : CreateTopic(u)
  <2>1. CASE \E x \in Threads : Calls(x)
    BY <1>3, <2>1, CallsLocal
  <2>2. CASE ~ \E x \in Threads : Calls(x)
    <3>1. ASSUME NEW c \in Consumers, ConsumerStep(c) PROVE UNCHANGED cur
      BY <2>2, <3>1 DEF Calls, Threads, ConsumerStep, Sweep, ConsumeLookup, ConsumeOffset,
         ConsumeFetch, AtEnd, ConsumeCommit, NextOffset, Dispatch, MarkProcessed
    <3>2. QED
      BY <1>3, <1>4, <2>2, <3>1 DEF Next, vars, Calls, Threads, StartConsumer, CloseDone,
         KillBroker, ElectNewLeader, Subscribe, Receive
  <2>3. QED
    BY <2>1, <2>2
<1>5. cur'[t] \in Nat
  BY <1>1, StepTyped DEF TypeOK
<1>6. QED
  BY <1>1, <1>2, <1>4, <1>5

\* An incarnation that exists goes on existing while the counter grows.
LEMMA GrowsPast ==
    \A k, m, n \in Nat : (k <= m /\ m <= n) => k <= n
OBVIOUS

\* Every step keeps it.
LEMMA AckedStep == TypeOK /\ AckedInv /\ [Next]_vars => AckedInv'
<1> SUFFICES ASSUME TypeOK, AckedInv, [Next]_vars PROVE AckedInv'
  OBVIOUS
<1>1. \A t \in Topics : cur[t] \in Nat /\ cur'[t] \in Nat /\ cur[t] <= cur'[t]
  BY TopicsStay
<1>2. \A x \in Threads : pub[x] \in PubState /\ pub'[x] \in PubState
  BY StepTyped DEF TypeOK
<1>3. Gens \subseteq Nat
  BY DEF Gens
<1>4. ASSUME NEW x \in Threads, pub[x].at \in {"check", "append", "subs", "notify"}
      PROVE  /\ pub[x].topic \in Topics /\ pub[x].gen \in Gens
             /\ <<pub[x].topic, pub[x].gen, pub[x].part>> \in Logs
             /\ pub[x].gen <= cur'[pub[x].topic]
  <2>1. /\ pub[x].topic \in Topics /\ pub[x].gen \in Gens
        /\ <<pub[x].topic, pub[x].gen, pub[x].part>> \in Logs
    BY <1>2, <1>4 DEF TypeOK, Logs, PubState
  <2>2. pub[x].gen <= cur[pub[x].topic] /\ pub[x].gen \in Nat
    BY <1>3, <1>4, <2>1 DEF AckedInv
  <2>3. pub[x].gen <= cur'[pub[x].topic]
    BY <2>1, <2>2, TopicsStay, GrowsPast
  <2>4. QED
    BY <2>1, <2>3
<1>5. ASSUME NEW x \in Threads, pub'[x].at \in {"check", "append", "subs", "notify"}
      PROVE  pub'[x].gen <= cur'[pub'[x].topic]
  <2>1. CASE pub'[x] = pub[x]
    BY <1>4, <1>5, <2>1
  <2>2. CASE Calls(x)
    <3>1. UNCHANGED cur
      BY <2>2, CallsLocal
    <3>2. CASE pub'[x].at = "check" /\ pub'[x].topic \in Topics
               /\ pub'[x].gen = cur[pub'[x].topic]
      BY <1>1, <3>1, <3>2
    <3>3. CASE /\ pub[x].at \in {"check", "append", "subs", "notify"}
               /\ pub'[x].gen = pub[x].gen /\ pub'[x].topic = pub[x].topic
      BY <1>4, <3>3
    <3>4. CASE PublishCheck(x) /\ pub'[x] = [pub[x] EXCEPT !.at = "append"]
      BY <1>2, <3>3, <3>4 DEF PublishCheck, PubState
    <3>5. CASE PublishAppend(x) /\ pub'[x] = [pub[x] EXCEPT !.at = "subs",
                 !.off = Len(log[<<pub[x].topic, pub[x].gen, pub[x].part>>])]
      <4> DEFINE n == Len(log[<<pub[x].topic, pub[x].gen, pub[x].part>>])
      <4>1. pub'[x] = [pub[x] EXCEPT !.at = "subs", !.off = n] /\ pub[x].at = "append"
        BY <3>5 DEF PublishAppend
      <4> HIDE DEF n
      <4>2. QED
        BY <1>2, <3>3, <4>1 DEF PubState
    <3>6. CASE /\ pub[x].at \in {"subs", "notify"}
               /\ \E ss : pub'[x] = [pub[x] EXCEPT !.at = "notify", !.todo = ss]
      BY <1>2, <3>3, <3>6 DEF PubState
    <3>7. QED
      BY <1>5, <2>2, <3>2, <3>4, <3>5, <3>6, CallsMove
  <2>3. QED
    BY <2>1, <2>2, CallsOnly, CallsLocal
<1>6. ASSUME NEW x \in Threads, pub'[x].at \in {"subs", "notify"}
      PROVE  /\ pub'[x].off \in Nat
             /\ pub'[x].off < Len(log'[<<pub'[x].topic, pub'[x].gen, pub'[x].part>>])
             /\ Ref(log'[<<pub'[x].topic, pub'[x].gen, pub'[x].part>>][pub'[x].off + 1])
                  = Ref(pub'[x].rec)
  <2> DEFINE q == pub[x]
             o == <<q.topic, q.gen, q.part>>
  <2>1. CASE /\ q.at \in {"subs", "notify"}
             /\ pub'[x].topic = q.topic /\ pub'[x].gen = q.gen
             /\ pub'[x].part = q.part /\ pub'[x].off = q.off /\ pub'[x].rec = q.rec
    <3>1. o \in Logs /\ Stored(o, q.off, Ref(q.rec))
      BY <1>4, <2>1 DEF AckedInv
    <3>2. q.off < Len(log'[o]) /\ Ref(log'[o][q.off + 1]) = Ref(q.rec)
      <4> HIDE DEF o, q
      <4>1. QED
        BY <3>1, StoredStays
    <3>3. QED
      BY <2>1, <3>1, <3>2 DEF Stored
  <2>2. CASE PublishAppend(x)
    <3>1. /\ o \in Logs /\ Len(log[o]) \in Nat
          /\ Len(log'[o]) = Len(log[o]) + 1
          /\ log'[o][Len(log[o]) + 1] = q.rec
      BY <2>2, AppendOnly
    <3>2. pub'[x] = [q EXCEPT !.at = "subs", !.off = Len(log[o])]
      BY <2>2 DEF PublishAppend, TypeOK
    <3>3. /\ pub'[x].topic = q.topic /\ pub'[x].gen = q.gen
          /\ pub'[x].part = q.part /\ pub'[x].off = Len(log[o]) /\ pub'[x].rec = q.rec
      <4>1. q \in PubState
        BY <1>2
      <4> HIDE DEF o, q
      <4>2. QED
        BY <3>2, <4>1 DEF PubState
    <3> HIDE DEF q
    <3>4. Len(log[o]) < Len(log'[o])
      BY <3>1
    <3>5. QED
      BY <3>1, <3>3, <3>4
  <2>3. CASE pub'[x] = pub[x]
    BY <1>6, <2>1, <2>3
  <2>4. CASE Calls(x) /\ ~PublishAppend(x)
    <3>1. pub'[x] # [pub[x] EXCEPT !.at = "append"]
      BY <1>2, <1>6 DEF PubState
    <3>2. pub'[x].at \notin {"idle", "ok", "err", "check"}
      BY <1>6
    <3>3. /\ pub[x].at \in {"subs", "notify"}
          /\ \E ss : pub'[x] = [pub[x] EXCEPT !.at = "notify", !.todo = ss]
      BY <2>4, <3>1, <3>2, CallsMove
    <3>4. QED
      BY <1>2, <2>1, <3>3 DEF PubState
  <2>5. QED
    BY <2>2, <2>3, <2>4, CallsOnly, CallsLocal
<1>7. ASSUME NEW a \in acked'
      PROVE  /\ a[1] \in Topics /\ a[2] \in Gens /\ a[2] <= cur'[a[1]] /\ a[3] \in Parts
             /\ a[4] \in Nat /\ a[4] < Len(log'[<<a[1], a[2], a[3]>>])
             /\ Ref(log'[<<a[1], a[2], a[3]>>][a[4] + 1]) = <<a[5], a[6]>>
  <2>1. CASE a \in acked
    <3>1. /\ a[1] \in Topics /\ a[2] \in Gens /\ a[2] <= cur[a[1]] /\ a[3] \in Parts
          /\ Stored(<<a[1], a[2], a[3]>>, a[4], <<a[5], a[6]>>)
      BY <2>1 DEF AckedInv
    <3>2. a[4] < Len(log'[<<a[1], a[2], a[3]>>])
          /\ Ref(log'[<<a[1], a[2], a[3]>>][a[4] + 1]) = <<a[5], a[6]>>
      BY <3>1, StoredStays DEF Logs
    <3>3. a[2] <= cur'[a[1]]
      BY <1>3, <3>1, TopicsStay, GrowsPast
    <3>4. QED
      BY <3>1, <3>2, <3>3 DEF Stored
  <2>2. CASE a \notin acked
    <3>1. PICK th \in Threads : PublishReturn(th)
      BY <2>2, CallsOnly, CallsLocal
    <3> DEFINE q == pub[th]
    <3>2. /\ a = <<q.topic, q.gen, q.part, q.off, q.rec.src, q.rec.seq>>
          /\ q.at = "notify" /\ UNCHANGED <<log, cur>>
      BY <2>2, <3>1 DEF PublishReturn
    <3>3. /\ q.topic \in Topics /\ q.gen \in Gens /\ q.gen <= cur'[q.topic] /\ q.part \in Parts
          /\ Stored(<<q.topic, q.gen, q.part>>, q.off, Ref(q.rec))
      BY <1>2, <1>4, <3>2 DEF AckedInv, PubState
    <3>4. QED
      BY <3>2, <3>3 DEF Stored, Ref
  <2>3. QED
    BY <2>1, <2>2
<1>8. QED
  BY <1>5, <1>6, <1>7 DEF AckedInv, Stored, Ref

\* Durability: whatever leaders fail and are re-elected, what Publish
\* acknowledged is read at the offset it returned, for ever, as long as nobody
\* calls CreateTopic on an existing name (which replaces the topic's log).
THEOREM AckedStaysReadable ==
    ASSUME MaxGen = 1
    PROVE  Spec => []AckedReadable
<1>1. Init => AckedInv
  BY AckedInit
<1>2. TypeOK /\ AckedInv /\ [Next]_vars => AckedInv'
  BY AckedStep
<1>3. TypeOK /\ AckedInv => AckedReadable
  <2> SUFFICES ASSUME TypeOK, AckedInv, NEW a \in acked
               PROVE  Stored(<<a[1], cur[a[1]], a[3]>>, a[4], <<a[5], a[6]>>)
    BY DEF AckedReadable, Stored
  <2>1. a[1] \in Topics /\ a[2] \in Gens /\ a[2] <= cur[a[1]]
        /\ Stored(<<a[1], a[2], a[3]>>, a[4], <<a[5], a[6]>>)
    BY DEF AckedInv
  <2>2. cur[a[1]] \in 0..1
    BY <2>1 DEF TypeOK
  <2>3. a[2] = cur[a[1]]
    BY <2>1, <2>2 DEF Gens
  <2>4. QED
    BY <2>1, <2>3
<1>4. QED
  BY <1>1, <1>2, <1>3, TypeCorrect, PTL DEF Spec

----------------------------------------------------------------------------
(* The dead-letter topic holds only failures, and each of them.            *)

\* Letter d is the one consumer f.by publishes for failure f.
LetterFor(f, d) ==
    /\ d.src = f.by /\ d.seq = f.num
    /\ d.key = f.rec.key /\ d.json = f.rec.json
    /\ d.orig = IF f.rec.json THEN Ref(f.rec) ELSE <<>>

\* What a consumer published to topic t is the letter for a failure of its.
FromFailure(t, d) ==
    d.src \in Consumers =>
        /\ t = Dlq[SubTopic[d.src]]
        /\ \E f \in failed : LetterFor(f, d)

\* Its worker is about to publish the letter for failure f, or publishing it.
OnItsWay(f) ==
    /\ InHand(f)
    /\ \/ pub[f.by].at = "idle" /\ f.num = sent[f.by] + 1
       \/ /\ pub[f.by].at \in {"check", "append"}
          /\ pub[f.by].topic = Dlq[SubTopic[f.by]]
          /\ pub[f.by].rec.src = f.by /\ pub[f.by].rec.seq = f.num

\* A worker publishes only failures, its next one is on file before it does,
\* and a dead-letter topic that existed at a failure goes on existing.
LettersInv ==
    /\ \A c \in Consumers : cons[c].at # "dlq" => pub[c].at = "idle"
    /\ \A c \in Consumers : cons[c].at = "dlq" /\ pub[c].at = "idle" =>
         \E f \in failed : f.by = c /\ f.num = sent[c] + 1 /\ f.rec = cons[c].rec
    /\ \A f \in failed : f.by \in Consumers
    /\ \A f \in failed : f.gen # 0 =>
         Dlq[SubTopic[f.by]] \in Topics /\ cur[Dlq[SubTopic[f.by]]] # 0

\* DlqOnlyFailures is not inductive: a letter is judged when it is stored, but
\* the failure was put on file before the worker built it, and the letter waits
\* in the Publish call for two sections.
HonestInv ==
    /\ \A o \in Logs : \A i \in 1..Len(log[o]) : FromFailure(o[1], log[o][i])
    /\ \A x \in Threads : pub[x].at \in {"check", "append"} =>
         FromFailure(pub[x].topic, pub[x].rec)

\* DlqKeepsFailures is not either: a worker that holds a record may hold it for
\* the second time, so the letter that is under way must be told from the last.
KeptInv ==
    killed = {} => \A f \in failed : f.gen # 0 => Filed(f) \/ OnItsWay(f)

\* Initially there are no records, no failures, and nobody routes one.
LEMMA LettersInit == Init => LettersInv /\ HonestInv /\ KeptInv
<1> SUFFICES ASSUME Init PROVE LettersInv /\ HonestInv /\ KeptInv
  OBVIOUS
<1>1. failed = {} /\ \A o \in Logs : log[o] = <<>>
  BY DEF Init
<1>2. \A x \in Threads : pub[x].at = "idle"
  BY DEF Init, PubIdle, PubAt
<1>3. \A c \in Consumers : cons[c].at = "idle" /\ c \in Threads
  BY DEF Init, ConsIdle, Threads
<1>4. LettersInv
  BY <1>1, <1>2, <1>3 DEF LettersInv
<1>5. HonestInv
  BY <1>1, <1>2 DEF HonestInv
<1>6. QED
  BY <1>1, <1>4, <1>5 DEF KeptInv

\* Consumer c's handler fails on the record it holds.
Fails(c) ==
    /\ cons[c].at = "dispatch"
    /\ cons' = [cons EXCEPT ![c].at = "dlq"]
    /\ failed' = failed \union {[by |-> c, num |-> sent[c] + 1, rec |-> cons[c].rec,
                                 gen |-> DlqGen(c)]}
    /\ UNCHANGED <<cur, log, pub, sent, killed>>

\* Consumer d goes on routing what it held, or is not routing before or after.
StillRouting(d) ==
    \/ cons'[d].at = cons[d].at /\ cons'[d].rec = cons[d].rec
    \/ cons[d].at # "dlq" /\ cons'[d].at # "dlq"
    \/ DlqReturn(d) /\ cons'[d].at # "dlq"

\* Only a failing handler adds a failure; nothing else starts routing one, and
\* only DlqReturn stops.
WorkersMove ==
    \/ UNCHANGED failed /\ \A d \in Consumers : StillRouting(d)
    \/ \E c \in Consumers : Fails(c)

LEMMA WorkersDo ==
    ASSUME TypeOK, [Next]_vars
    PROVE  WorkersMove
<1>1. cons \in [Consumers -> ConsState]
  BY DEF TypeOK
<1>2. ASSUME NEW c \in Consumers PROVE NextPart(c).at # "dlq" /\ ConsIdle.at # "dlq"
  BY NextPartTyped, IdleStates
<1>3. ASSUME NEW c \in Consumers, Dispatch(c)
      PROVE  WorkersMove
  <2>1. cons[c].at # "dlq" /\ UNCHANGED <<cur, log, pub, sent, killed>>
    BY <1>3 DEF Dispatch
  <2>2. CASE cons' = [cons EXCEPT ![c] = NextPart(c)] /\ UNCHANGED failed
    BY <1>1, <1>2, <2>1, <2>2 DEF WorkersMove, StillRouting
  <2>3. CASE cons' = [cons EXCEPT ![c].at = "mark"] /\ UNCHANGED failed
    BY <1>1, <2>1, <2>3 DEF WorkersMove, StillRouting, ConsState
  <2>4. CASE Fails(c)
    BY <2>4 DEF WorkersMove
  <2>5. QED
    BY <1>3, <2>2, <2>3, <2>4 DEF Dispatch, Fails
<1>4. ASSUME NEW c \in Consumers, ConsumerStep(c), ~Dispatch(c)
      PROVE  UNCHANGED failed /\ \A d \in Consumers : StillRouting(d)
  <2>1. NextPart(c).at # "dlq" /\ ConsIdle.at # "dlq"
    BY <1>2
  <2>2. CASE Sweep(c)
    BY <1>1, <2>1, <2>2 DEF Sweep, ConsState, StillRouting
  <2>3. CASE ConsumeLookup(c)
    BY <1>1, <2>1, <2>3 DEF ConsumeLookup, ConsState, StillRouting
  <2>4. CASE ConsumeOffset(c)
    BY <1>1, <2>4 DEF ConsumeOffset, ConsState, StillRouting
  <2>5. CASE ConsumeFetch(c)
    <3> DEFINE r == log[<<SubTopic[c], cons[c].gen, cons[c].part>>][cons[c].off + 1]
    <3>1. \/ cons' = [cons EXCEPT ![c] = NextPart(c)]
          \/ cons' = [cons EXCEPT ![c].at = "commit", ![c].rec = r]
      BY <2>5 DEF ConsumeFetch
    <3>2. UNCHANGED failed /\ cons[c].at # "dlq"
      BY <2>5 DEF ConsumeFetch
    <3> HIDE DEF r
    <3>3. QED
      BY <1>1, <2>1, <3>1, <3>2 DEF ConsState, StillRouting
  <2>6. CASE ConsumeCommit(c)
    BY <1>1, <2>6 DEF ConsumeCommit, ConsState, ConsIdle, StillRouting
  <2>7. CASE MarkProcessed(c)
    BY <1>1, <2>1, <2>7 DEF MarkProcessed, StillRouting
  <2>8. CASE RouteToDlq(c) \/ PublishStep(c)
    BY <2>8 DEF RouteToDlq, PublishStep, PublishCheck, PublishAppend, PublishSubs,
                PublishNotify, PublishReturn, StillRouting
  <2>9. CASE DlqReturn(c)
    <3>1. cons' = [cons EXCEPT ![c] = NextPart(c)] /\ UNCHANGED failed
      BY <2>9 DEF DlqReturn
    <3>2. \A d \in Consumers \ {c} : cons'[d] = cons[d]
      BY <1>1, <3>1
    <3>3. cons'[c].at # "dlq"
      BY <1>1, <2>1, <3>1
    <3>4. QED
      BY <2>9, <3>1, <3>2, <3>3 DEF StillRouting
  <2>10. QED
    BY <1>4, <2>2, <2>3, <2>4, <2>5, <2>6, <2>7, <2>8, <2>9 DEF ConsumerStep
<1>5. ASSUME NEW c \in Consumers, StartConsumer(c) \/ CloseDone(c)
      PROVE  UNCHANGED failed /\ \A d \in Consumers : StillRouting(d)
  <2>1. CASE StartConsumer(c)
    BY <1>1, <2>1 DEF StartConsumer, ConsState, StillRouting
  <2>2. CASE CloseDone(c)
    BY <1>1, <2>2 DEF CloseDone, ConsState, StillRouting
  <2>3. QED
    BY <1>5, <2>1, <2>2
<1>6. CASE UNCHANGED <<cons, failed>>
  BY <1>6 DEF WorkersMove, StillRouting
<1>7. ASSUME NEW th \in Producers, Publish(th) \/ PublishStep(th) \/ ProducerResume(th)
      PROVE  UNCHANGED <<cons, failed>>
  BY <1>7 DEF Publish, ProducerResume, PublishStep, PublishCheck, PublishAppend,
              PublishSubs, PublishNotify, PublishReturn
<1>8. CASE \/ \E t \in Topics : CreateTopic(t)
           \/ \E b \in Brokers : KillBroker(b)
           \/ \E t \in Topics, p \in Parts : ElectNewLeader(t, p)
           \/ \E s \in Subscribers, t \in Topics : Subscribe(s, t)
           \/ \E s \in Subscribers : Receive(s)
  BY <1>6, <1>8 DEF CreateTopic, KillBroker, ElectNewLeader, Subscribe, Receive
<1>9. CASE UNCHANGED vars
  BY <1>6, <1>9 DEF vars
<1>10. QED
  BY <1>3, <1>4, <1>5, <1>6, <1>7, <1>8, <1>9 DEF Next, WorkersMove

\* A failure once on file stays there; brokers stay dead.
LEMMA FailuresStay ==
    ASSUME TypeOK, [Next]_vars
    PROVE  failed \subseteq failed' /\ killed \subseteq killed'
<1>1. failed \subseteq failed'
  BY WorkersDo DEF WorkersMove, Fails
<1>2. ASSUME NEW b \in Brokers, KillBroker(b) PROVE killed \subseteq killed'
  BY <1>2 DEF KillBroker
<1>3. CASE UNCHANGED killed
  BY <1>1, <1>3
<1>4. CASE ~ \E b \in Brokers : KillBroker(b)
  <2>1. ASSUME NEW c \in Consumers, ConsumerStep(c) PROVE UNCHANGED killed
    BY <2>1 DEF ConsumerStep, Sweep, ConsumeLookup, ConsumeOffset, ConsumeFetch,
                ConsumeCommit, Dispatch, MarkProcessed, RouteToDlq, DlqReturn, PublishStep,
                PublishCheck, PublishAppend, PublishSubs, PublishNotify, PublishReturn
  <2>2. ASSUME NEW th \in Producers, Publish(th) \/ PublishStep(th) \/ ProducerResume(th)
        PROVE  UNCHANGED killed
    BY <2>2 DEF Publish, ProducerResume, PublishStep, PublishCheck, PublishAppend,
                PublishSubs, PublishNotify, PublishReturn
  <2>3. QED
    BY <1>3, <1>4, <2>1, <2>2 DEF Next, vars, StartConsumer, CloseDone, CreateTopic,
       ElectNewLeader, Subscribe, Receive
<1>5. QED
  BY <1>1, <1>2, <1>4

\* What a step does to consumer c's calls, seen from c.  Its sections of Publish
\* leave it the record it routes and the letters it counted.
CallMoves(c) ==
    \/ pub'[c] = pub[c] /\ sent'[c] = sent[c] /\ ~DlqReturn(c)
    \/ RouteToDlq(c)
    \/ PublishStep(c) /\ UNCHANGED <<cons, sent, failed>>
    \/ DlqReturn(c)

LEMMA CallsDo ==
    ASSUME TypeOK, [Next]_vars, NEW c \in Consumers
    PROVE  CallMoves(c)
<1>1. c \in Threads /\ c \notin Producers
  BY NamesAssumption DEF Threads
<1>2. CASE ~ \E x \in Threads : Calls(x)
  <2>1. UNCHANGED <<pub, sent>> /\ ~DlqReturn(c)
    BY <1>1, <1>2, CallsOnly DEF Calls
  <2>2. QED
    BY <2>1 DEF CallMoves
<1>3. ASSUME NEW x \in Threads \ {c}, Calls(x)
      PROVE  CallMoves(c)
  <2>1. pub'[c] = pub[c] /\ sent'[c] = sent[c]
    BY <1>1, <1>3, CallsLocal
  <2>2. QED
    BY <2>1 DEF CallMoves
<1>4. CASE Calls(c)
  <2>1. PublishStep(c) => UNCHANGED <<cons, sent, failed>>
    BY DEF PublishStep, PublishCheck, PublishAppend, PublishSubs, PublishNotify, PublishReturn
  <2>2. QED
    BY <1>1, <1>4, <2>1 DEF Calls, CallMoves
<1>5. QED
  BY <1>2, <1>3, <1>4

\* Every step keeps LettersInv.
LEMMA LettersStep == TypeOK /\ LettersInv /\ [Next]_vars => LettersInv'
<1> SUFFICES ASSUME TypeOK, LettersInv, [Next]_vars PROVE LettersInv'
  OBVIOUS
<1>1. /\ cons \in [Consumers -> ConsState] /\ pub \in [Threads -> PubState]
      /\ sent \in [Threads -> Nat] /\ Consumers \subseteq Threads
  BY DEF TypeOK, Threads
<1>2. failed \subseteq failed' /\ WorkersMove
  BY FailuresStay, WorkersDo
<1>3. \A c \in Consumers : CallMoves(c)
  BY CallsDo
<1>4. ASSUME NEW c \in Consumers, cons'[c].at # "dlq"
      PROVE  pub'[c].at = "idle"
  <2>1. CASE DlqReturn(c)
    BY <1>1, <2>1, IdleStates DEF DlqReturn
  <2>2. CASE ~DlqReturn(c)
    <3>1. cons[c].at # "dlq"
      BY <1>1, <1>2, <1>4, <2>2 DEF WorkersMove, StillRouting, Fails, ConsState
    <3>2. pub[c].at = "idle"
      BY <3>1 DEF LettersInv
    <3>3. ~RouteToDlq(c) /\ ~PublishStep(c)
      BY <3>1, <3>2 DEF RouteToDlq, PublishStep, PublishCheck, PublishAppend, PublishSubs,
                        PublishNotify, PublishReturn
    <3>4. QED
      BY <1>3, <2>2, <3>2, <3>3 DEF CallMoves
  <2>3. QED
    BY <2>1, <2>2
<1>5. ASSUME NEW c \in Consumers, cons'[c].at = "dlq", pub'[c].at = "idle"
      PROVE  \E f \in failed' : f.by = c /\ f.num = sent'[c] + 1 /\ f.rec = cons'[c].rec
  <2>1. CASE Fails(c)
    <3>1. cons'[c].rec = cons[c].rec /\ sent' = sent
      BY <1>1, <2>1 DEF Fails, ConsState
    <3> DEFINE f == [by |-> c, num |-> sent[c] + 1, rec |-> cons[c].rec, gen |-> DlqGen(c)]
    <3>2. f \in failed'
      BY <2>1 DEF Fails
    <3>3. f.by = c /\ f.num = sent[c] + 1 /\ f.rec = cons[c].rec
      OBVIOUS
    <3> HIDE DEF f
    <3>4. QED
      BY <3>1, <3>2, <3>3
  <2>2. CASE ~Fails(c)
    <3>1. ~DlqReturn(c)
      <4>1. NextPart(c).at # "dlq"
        BY NextPartTyped
      <4>2. QED
        BY <1>1, <1>5, <4>1 DEF DlqReturn
    <3>2. cons'[c].at = cons[c].at /\ cons'[c].rec = cons[c].rec
      <4>1. ASSUME NEW d \in Consumers, Fails(d) PROVE cons'[c] = cons[c]
        <5>1. d # c
          BY <2>2, <4>1
        <5>2. QED
          BY <1>1, <4>1, <5>1 DEF Fails
      <4>2. QED
        BY <1>2, <1>5, <3>1, <4>1 DEF WorkersMove, StillRouting
    <3>3. CASE pub'[c] = pub[c] /\ sent'[c] = sent[c]
      BY <1>2, <1>5, <3>2, <3>3 DEF LettersInv
    <3>4. CASE RouteToDlq(c)
      <4>1. pub'[c].at # "idle"
        BY <1>1, <3>4, IdleStates DEF RouteToDlq, StartPublish
      <4>2. QED
        BY <1>5, <4>1
    <3>5. CASE PublishStep(c)
      <4>1. c \in Threads /\ pub[c] \in PubState
        BY <1>1
      <4>2. CASE PublishCheck(c)
        BY <1>1, <1>5, <4>1, <4>2, IdleStates DEF PublishCheck, PubState
      <4>3. CASE PublishAppend(c)
        <5> DEFINE n == Len(log[<<pub[c].topic, pub[c].gen, pub[c].part>>])
        <5>1. pub' = [pub EXCEPT ![c].at = "subs", ![c].off = n]
          BY <4>3 DEF PublishAppend
        <5> HIDE DEF n
        <5>2. QED
          BY <1>1, <1>5, <4>1, <5>1 DEF PubState
      <4>4. CASE PublishSubs(c)
        <5> DEFINE ss == subs[pub[c].topic]
        <5>1. pub' = [pub EXCEPT ![c].at = "notify", ![c].todo = ss]
          BY <4>4 DEF PublishSubs
        <5> HIDE DEF ss
        <5>2. QED
          BY <1>1, <1>5, <4>1, <5>1 DEF PubState
      <4>5. CASE PublishNotify(c)
        <5> DEFINE ss == Tail(pub[c].todo)
        <5>1. pub' = [pub EXCEPT ![c].todo = ss] /\ pub[c].at = "notify"
          BY <4>5 DEF PublishNotify
        <5> HIDE DEF ss
        <5>2. QED
          BY <1>1, <1>5, <4>1, <5>1 DEF PubState
      <4>6. CASE PublishReturn(c)
        BY <1>1, <1>5, <4>1, <4>6, IdleStates DEF PublishReturn
      <4>7. QED
        BY <3>5, <4>2, <4>3, <4>4, <4>5, <4>6 DEF PublishStep
    <3>6. QED
      BY <1>3, <3>1, <3>3, <3>4, <3>5 DEF CallMoves
  <2>3. QED
    BY <2>1, <2>2
<1>6. ASSUME NEW f \in failed'
      PROVE  /\ f.by \in Consumers
             /\ f.gen # 0 => Dlq[SubTopic[f.by]] \in Topics /\ cur'[Dlq[SubTopic[f.by]]] # 0
  <2>1. CASE f \in failed
    <3>1. /\ f.by \in Consumers
          /\ f.gen # 0 => Dlq[SubTopic[f.by]] \in Topics /\ cur[Dlq[SubTopic[f.by]]] # 0
      BY <2>1 DEF LettersInv
    <3>2. \A t \in Topics : cur[t] # 0 => cur'[t] # 0
      BY TopicsStay
    <3>3. QED
      BY <3>1, <3>2
  <2>2. CASE f \notin failed
    <3>1. PICK c \in Consumers : Fails(c)
      BY <1>2, <2>2 DEF WorkersMove
    <3>2. f.by = c /\ f.gen = DlqGen(c) /\ cur' = cur
      BY <2>2, <3>1 DEF Fails
    <3>3. Dlq[SubTopic[c]] \in Topics \union {NoTopic}
      BY NamesAssumption, RolesAssumption
    <3>4. QED
      BY <3>2, <3>3 DEF DlqGen
  <2>3. QED
    BY <2>1, <2>2
<1>7. QED
  BY <1>4, <1>5, <1>6 DEF LettersInv

\* Letters in the log stay there.
LEMMA RecordsStay ==
    ASSUME TypeOK, [Next]_vars, NEW o \in Logs, NEW i \in 1..Len(log[o])
    PROVE  i \in 1..Len(log'[o]) /\ log'[o][i] = log[o][i]
<1>1. Len(log[o]) \in Nat
  BY DEF TypeOK
<1>2. CASE \E th \in Threads : PublishAppend(th)
  <2>1. PICK th \in Threads : PublishAppend(th)
    BY <1>2
  <2> DEFINE w == <<pub[th].topic, pub[th].gen, pub[th].part>>
  <2>2. /\ Len(log[w]) \in Nat /\ Len(log'[w]) = Len(log[w]) + 1
        /\ \A k \in 1..Len(log[w]) : log'[w][k] = log[w][k]
        /\ \A x \in Logs \ {w} : log'[x] = log[x]
    BY <2>1, AppendOnly
  <2> HIDE DEF w
  <2>3. QED
    BY <1>1, <2>2
<1>3. CASE ~ \E th \in Threads : PublishAppend(th)
  <2>1. UNCHANGED log
    BY <1>3, CallsOnly, CallsLocal
  <2>2. QED
    BY <2>1
<1>4. QED
  BY <1>2, <1>3

\* Every step keeps HonestInv.
LEMMA HonestStep == TypeOK /\ LettersInv /\ HonestInv /\ [Next]_vars => HonestInv'
<1> SUFFICES ASSUME TypeOK, LettersInv, HonestInv, [Next]_vars PROVE HonestInv'
  OBVIOUS
<1>1. failed \subseteq failed'
  BY FailuresStay
<1>2. \A x \in Threads : pub[x] \in PubState
  BY DEF TypeOK
<1>3. ASSUME NEW t, NEW d, FromFailure(t, d) PROVE FromFailure(t, d)'
  BY <1>1, <1>3 DEF FromFailure, LetterFor, Ref
<1>4. ASSUME NEW o \in Logs, NEW i \in 1..Len(log'[o])
      PROVE  FromFailure(o[1], log[o][i])'
  <2>0. PICK d : d = log'[o][i]
    OBVIOUS
  <2>. SUFFICES FromFailure(o[1], d)'
    BY <2>0 DEF FromFailure, LetterFor
  <2>1. CASE i \in 1..Len(log[o]) /\ log'[o][i] = log[o][i]
    BY <1>3, <2>0, <2>1 DEF HonestInv
  <2>2. ASSUME NEW x \in Threads, PublishAppend(x), log'[o][i] = pub[x].rec,
               o = <<pub[x].topic, pub[x].gen, pub[x].part>>
        PROVE  FromFailure(o[1], d)'
    <3>1. FromFailure(pub[x].topic, pub[x].rec)
      BY <2>2 DEF HonestInv, PublishAppend
    <3>2. o[1] = pub[x].topic
      BY <2>2
    <3>3. QED
      BY <1>3, <2>0, <2>2, <3>1, <3>2
  <2>3. CASE \E x \in Threads : PublishAppend(x)
    <3>1. PICK x \in Threads : PublishAppend(x)
      BY <2>3
    <3> DEFINE w == <<pub[x].topic, pub[x].gen, pub[x].part>>
    <3>2. /\ Len(log[w]) \in Nat /\ Len(log'[w]) = Len(log[w]) + 1
          /\ log'[w][Len(log[w]) + 1] = pub[x].rec
          /\ \A k \in 1..Len(log[w]) : log'[w][k] = log[w][k]
          /\ \A u \in Logs \ {w} : log'[u] = log[u]
      BY <3>1, AppendOnly
    <3>3. o = w => o = <<pub[x].topic, pub[x].gen, pub[x].part>>
      OBVIOUS
    <3> HIDE DEF w
    <3>4. QED
      BY <2>1, <2>2, <3>1, <3>2, <3>3
  <2>4. CASE ~ \E x \in Threads : PublishAppend(x)
    <3>1. UNCHANGED log
      BY <2>4, CallsOnly, CallsLocal
    <3>2. QED
      BY <2>1, <3>1
  <2>5. QED
    BY <2>3, <2>4
<1>5. ASSUME NEW x \in Threads, pub'[x].at \in {"check", "append"}
      PROVE  FromFailure(pub[x].topic, pub[x].rec)'
  <2>0. PICK t, d : t = pub'[x].topic /\ d = pub'[x].rec
    OBVIOUS
  <2>. SUFFICES FromFailure(t, d)'
    BY <2>0 DEF FromFailure, LetterFor
  <2>1. CASE /\ pub'[x].rec = pub[x].rec /\ pub'[x].topic = pub[x].topic
             /\ pub[x].at \in {"check", "append"}
    BY <1>3, <2>0, <2>1 DEF HonestInv
  <2>2. CASE x \in Producers /\ pub'[x].rec.src = x
    BY <2>0, <2>2, NamesAssumption DEF FromFailure
  <2>3. CASE /\ x \in Consumers /\ cons[x].at = "dlq" /\ Calls(x)
             /\ pub'[x].at = "check" /\ pub'[x].topic = Dlq[SubTopic[x]]
             /\ pub'[x].rec = DlqRecord(x, cons[x].rec)
    <3>1. pub[x].at = "idle"
      <4>0. pub \in [Threads -> PubState]
        BY DEF TypeOK
      <4>1. ~PublishStep(x)
        <5>1. ~PublishCheck(x)
          BY <2>3, <4>0, IdleStates DEF PublishCheck, PubState
        <5>2. ~PublishAppend(x)
          <6> DEFINE n == Len(log[<<pub[x].topic, pub[x].gen, pub[x].part>>])
          <6>1. PublishAppend(x) => pub' = [pub EXCEPT ![x].at = "subs", ![x].off = n]
            BY DEF PublishAppend
          <6> HIDE DEF n
          <6>2. QED
            BY <2>3, <4>0, <6>1 DEF PubState
        <5>3. ~PublishSubs(x)
          <6> DEFINE ss == subs[pub[x].topic]
          <6>1. PublishSubs(x) => pub' = [pub EXCEPT ![x].at = "notify", ![x].todo = ss]
            BY DEF PublishSubs
          <6> HIDE DEF ss
          <6>2. QED
            BY <2>3, <4>0, <6>1 DEF PubState
        <5>4. ~PublishNotify(x)
          <6> DEFINE ss == Tail(pub[x].todo)
          <6>1. PublishNotify(x) => pub' = [pub EXCEPT ![x].todo = ss] /\ pub[x].at = "notify"
            BY DEF PublishNotify
          <6> HIDE DEF ss
          <6>2. QED
            BY <2>3, <4>0, <6>1 DEF PubState
        <5>5. ~PublishReturn(x)
          BY <2>3, <4>0, IdleStates DEF PublishReturn
        <5>6. QED
          BY <5>1, <5>2, <5>3, <5>4, <5>5 DEF PublishStep
      <4>2. ~DlqReturn(x) /\ x \notin Producers
        BY <1>2, <2>3, IdleStates, NamesAssumption DEF DlqReturn, TypeOK
      <4>3. QED
        BY <2>3, <4>1, <4>2 DEF Calls, RouteToDlq
    <3>2. PICK f \in failed : f.by = x /\ f.num = sent[x] + 1 /\ f.rec = cons[x].rec
      BY <2>3, <3>1 DEF LettersInv
    <3>3. /\ d.src = f.by /\ d.seq = f.num /\ d.key = f.rec.key /\ d.json = f.rec.json
          /\ d.orig = IF f.rec.json THEN Ref(f.rec) ELSE <<>>
      BY <2>0, <2>3, <3>2 DEF DlqRecord
    <3>4. f \in failed'
      BY <1>1, <3>2
    <3>5. d.src = x
      BY <3>2, <3>3
    <3>6. \E g \in failed' : LetterFor(g, d)
      BY <3>3, <3>4 DEF LetterFor, Ref
    <3>7. QED
      BY <2>0, <2>3, <3>5, <3>6 DEF FromFailure, LetterFor, Ref
  <2>4. CASE PublishCheck(x) /\ pub'[x] = [pub[x] EXCEPT !.at = "append"]
    BY <1>2, <2>1, <2>4 DEF PublishCheck, PubState
  <2>5. CASE Calls(x)
    <3>1. ~PublishAppend(x)
      <4> DEFINE n == Len(log[<<pub[x].topic, pub[x].gen, pub[x].part>>])
      <4>1. PublishAppend(x) => pub'[x] = [pub[x] EXCEPT !.at = "subs", !.off = n]
        BY DEF PublishAppend, TypeOK
      <4> HIDE DEF n
      <4>2. QED
        BY <1>2, <1>5, <4>1 DEF PubState
    <3>2. \A ss : pub'[x] # [pub[x] EXCEPT !.at = "notify", !.todo = ss]
      BY <1>2, <1>5 DEF PubState
    <3>3. QED
      BY <1>5, <2>2, <2>3, <2>4, <2>5, <3>1, <3>2, CallsMove
  <2>6. CASE pub'[x] = pub[x]
    BY <1>5, <2>1, <2>6
  <2>7. QED
    BY <2>5, <2>6, CallsOnly, CallsLocal
<1>6. QED
  BY <1>4, <1>5 DEF HonestInv

\* What is filed stays filed.
LEMMA FiledStays ==
    ASSUME TypeOK, [Next]_vars, NEW f, Filed(f)
    PROVE  Filed(f)'
<1>1. PICK o \in Logs : \E i \in 1..Len(log[o]) : LetterAt(f.by, o, i) /\ log[o][i].seq = f.num
  BY DEF Filed
<1>2. PICK i \in 1..Len(log[o]) : LetterAt(f.by, o, i) /\ log[o][i].seq = f.num
  BY <1>1
<1>3. i \in 1..Len(log'[o]) /\ log'[o][i] = log[o][i]
  BY <1>2, RecordsStay
<1>4. QED
  BY <1>2, <1>3 DEF Filed, LetterAt

\* Every step keeps KeptInv.
LEMMA KeptStep == TypeOK /\ LettersInv /\ KeptInv /\ [Next]_vars => KeptInv'
<1> SUFFICES ASSUME TypeOK, LettersInv, KeptInv, [Next]_vars, killed' = {},
                    NEW f \in failed', f.gen # 0
             PROVE  Filed(f)' \/ OnItsWay(f)'
  BY DEF KeptInv
<1>1. /\ cons \in [Consumers -> ConsState] /\ pub \in [Threads -> PubState]
      /\ Consumers \subseteq Threads
  BY DEF TypeOK, Threads
<1>2. killed = {} /\ WorkersMove
  BY FailuresStay, WorkersDo
<1>3. CASE f \notin failed
  <2>1. PICK c \in Consumers : Fails(c)
    BY <1>2, <1>3 DEF WorkersMove
  <2>2. f.by = c /\ f.num = sent[c] + 1 /\ f.rec = cons[c].rec
    BY <1>3, <2>1 DEF Fails
  <2>3. pub[c].at = "idle" /\ UNCHANGED <<pub, sent>>
    BY <2>1 DEF LettersInv, Fails
  <2>4. cons'[c].at = "dlq" /\ cons'[c].rec = cons[c].rec
    BY <1>1, <2>1 DEF Fails, ConsState
  <2>5. QED
    BY <2>2, <2>3, <2>4 DEF OnItsWay, InHand
<1>4. CASE f \in failed /\ Filed(f)
  BY <1>4, FiledStays
<1>5. CASE f \in failed /\ ~Filed(f)
  <2>1. OnItsWay(f) /\ f.by \in Consumers /\ Dlq[SubTopic[f.by]] \in Topics
        /\ cur[Dlq[SubTopic[f.by]]] # 0
    BY <1>2, <1>5 DEF KeptInv, LettersInv
  <2>2. PICK c \in Consumers : c = f.by
    BY <2>1
  <2>3. /\ c \in Threads /\ pub[c] \in PubState /\ cons[c] \in ConsState
        /\ cons[c].at = "dlq" /\ cons[c].rec = f.rec
    BY <1>1, <2>1, <2>2 DEF OnItsWay, InHand
  <2>4. ASSUME ~DlqReturn(c)
        PROVE  cons'[c].at = "dlq" /\ cons'[c].rec = f.rec
    <3>1. ASSUME NEW d \in Consumers, Fails(d) PROVE cons'[c] = cons[c]
      BY <1>1, <2>3, <3>1 DEF Fails
    <3>2. QED
      BY <1>2, <2>3, <2>4, <3>1 DEF WorkersMove, StillRouting
  <2>5. CASE pub'[c] = pub[c] /\ sent'[c] = sent[c] /\ ~DlqReturn(c)
    BY <2>1, <2>2, <2>4, <2>5 DEF OnItsWay, InHand
  <2>6. CASE RouteToDlq(c)
    <3>1. f.num = sent[c] + 1 /\ UNCHANGED cons
      BY <2>1, <2>2, <2>6 DEF RouteToDlq, OnItsWay
    <3> DEFINE t == Dlq[SubTopic[c]]
               r == DlqRecord(c, cons[c].rec)
    <3>2. r.src = c /\ r.seq = sent[c] + 1 /\ t \in Topics /\ cur[t] # 0
      BY <2>1, <2>2 DEF DlqRecord
    <3>3. StartPublish(c, t, r)
      BY <2>6 DEF RouteToDlq
    <3> HIDE DEF r
    <3>4. t # NoTopic
      BY <3>2, NamesAssumption
    <3> HIDE DEF t
    <3>5. pub'[c].at = "check" /\ pub'[c].topic = t /\ pub'[c].rec = r
      BY <1>1, <2>3, <3>2, <3>3, <3>4 DEF StartPublish
    <3>6. t = Dlq[SubTopic[c]]
      BY DEF t
    <3>7. QED
      BY <2>2, <2>3, <3>1, <3>2, <3>5, <3>6 DEF OnItsWay, InHand
  <2>7. CASE PublishStep(c) /\ UNCHANGED <<cons, sent, failed>>
    <3>1. CASE PublishCheck(c)
      <4>1. pub' = [pub EXCEPT ![c] = [pub[c] EXCEPT !.at = "append"]] /\ pub[c].at = "check"
        BY <1>1, <1>2, <2>3, <3>1 DEF PublishCheck
      <4>2. /\ pub'[c].at = "append" /\ pub'[c].topic = pub[c].topic
            /\ pub'[c].rec = pub[c].rec
        BY <1>1, <2>3, <4>1 DEF PubState
      <4>3. QED
        BY <2>1, <2>2, <2>3, <2>7, <4>1, <4>2 DEF OnItsWay, InHand
    <3>2. CASE PublishAppend(c)
      <4> DEFINE o == <<pub[c].topic, pub[c].gen, pub[c].part>>
      <4>1. /\ o \in Logs /\ Len(log[o]) \in Nat /\ Len(log'[o]) = Len(log[o]) + 1
            /\ log'[o][Len(log[o]) + 1] = pub[c].rec
        BY <2>3, <3>2, AppendOnly
      <4>2. /\ pub[c].topic = Dlq[SubTopic[c]] /\ pub[c].rec.src = c /\ pub[c].rec.seq = f.num
        BY <2>1, <2>2, <3>2 DEF PublishAppend, OnItsWay
      <4>3. o[1] = Dlq[SubTopic[c]]
        BY <4>2
      <4> HIDE DEF o
      <4>4. Len(log[o]) + 1 \in 1..Len(log'[o])
        BY <4>1
      <4>5. QED
        BY <2>2, <4>1, <4>2, <4>3, <4>4 DEF Filed, LetterAt
    <3>3. CASE PublishSubs(c) \/ PublishNotify(c) \/ PublishReturn(c)
      BY <2>1, <2>2, <3>3 DEF PublishSubs, PublishNotify, PublishReturn, OnItsWay
    <3>4. QED
      BY <2>7, <3>1, <3>2, <3>3 DEF PublishStep
  <2>8. CASE DlqReturn(c)
    BY <2>1, <2>2, <2>8 DEF DlqReturn, OnItsWay
  <2>9. QED
    BY <2>5, <2>6, <2>7, <2>8, CallsDo DEF CallMoves
<1>6. QED
  BY <1>3, <1>4, <1>5

\* A goroutine's records are numbered apart.
NumberedInv ==
    \A o1, o2 \in Logs : \A i \in 1..Len(log[o1]), j \in 1..Len(log[o2]) :
        Ref(log[o1][i]) = Ref(log[o2][j]) => o1 = o2 /\ i = j

\* A stored record has a smaller number than the one a call is about to append.
LEMMA NumberedStep == TypeOK /\ KeyInv /\ NumberedInv /\ [Next]_vars => NumberedInv'
<1> SUFFICES ASSUME TypeOK, KeyInv, NumberedInv, [Next]_vars PROVE NumberedInv'
  OBVIOUS
<1>1. CASE \E th \in Threads : PublishAppend(th)
  <2>1. PICK th \in Threads : PublishAppend(th)
    BY <1>1
  <2> DEFINE w == <<pub[th].topic, pub[th].gen, pub[th].part>>
             r == pub[th].rec
  <2>2. /\ w \in Logs /\ Len(log[w]) \in Nat /\ Len(log'[w]) = Len(log[w]) + 1
        /\ log'[w][Len(log[w]) + 1] = r
        /\ \A k \in 1..Len(log[w]) : log'[w][k] = log[w][k]
        /\ \A x \in Logs \ {w} : log'[x] = log[x]
    BY <2>1, AppendOnly
  <2>3. \A o \in Logs : \A i \in 1..Len(log[o]) : Ref(log[o][i]) # Ref(r)
    <3>1. /\ r.src = th /\ r.seq = sent[th] /\ sent[th] \in Nat
          /\ \A o \in Logs : \A i \in 1..Len(log[o]) :
               log[o][i].src = th => log[o][i].seq < sent[th]
      BY <2>1 DEF PublishAppend, KeyInv, TypeOK
    <3> HIDE DEF r
    <3>2. SUFFICES ASSUME NEW o \in Logs, NEW i \in 1..Len(log[o]), Ref(log[o][i]) = Ref(r)
                   PROVE  FALSE
      OBVIOUS
    <3>3. log[o][i].src = r.src /\ log[o][i].seq = r.seq
      BY <3>2 DEF Ref
    <3>4. QED
      BY <3>1, <3>3
  <2> HIDE DEF w, r
  <2>4. ASSUME NEW o \in Logs, NEW i \in 1..Len(log'[o])
        PROVE  \/ i \in 1..Len(log[o]) /\ log'[o][i] = log[o][i]
               \/ o = w /\ i = Len(log[w]) + 1 /\ log'[o][i] = r
    BY <2>2
  <2>5. SUFFICES ASSUME NEW o1 \in Logs, NEW o2 \in Logs, NEW i \in 1..Len(log'[o1]),
                        NEW j \in 1..Len(log'[o2]), Ref(log'[o1][i]) = Ref(log'[o2][j])
                 PROVE  o1 = o2 /\ i = j
    BY DEF NumberedInv, Ref
  <2>6. QED
    BY <2>3, <2>4, <2>5 DEF NumberedInv
<1>2. CASE ~ \E th \in Threads : PublishAppend(th)
  <2>1. UNCHANGED log
    BY <1>2, CallsOnly, CallsLocal
  <2>2. QED
    BY <2>1 DEF NumberedInv, Ref
<1>3. QED
  BY <1>1, <1>2

\* The dead-letter topic holds only failures: for any number of workers, groups
\* and topics, a letter is in its worker's dead-letter topic, under the key of
\* the record that worker failed on, wraps it, and is the only one with its
\* number.
THEOREM DeadLettersHonest == Spec => []DlqOnlyFailures
<1>1. Init => LettersInv /\ HonestInv /\ KeyInv /\ NumberedInv
  <2>1. Init => NumberedInv
    BY DEF Init, NumberedInv
  <2>2. QED
    BY <2>1, LettersInit, KeyInit
<1>2. TypeOK /\ LettersInv /\ HonestInv /\ [Next]_vars => LettersInv' /\ HonestInv'
  BY LettersStep, HonestStep
<1>3. TypeOK /\ KeyInv /\ NumberedInv /\ [Next]_vars => KeyInv' /\ NumberedInv'
  BY KeyStep, NumberedStep
<1>4. HonestInv /\ NumberedInv => DlqOnlyFailures
  BY DEF HonestInv, DlqOnlyFailures, FromFailure, LetterFor, LetterAt, NumberedInv
<1>5. QED
  BY <1>1, <1>2, <1>3, <1>4, TypeCorrect, PTL DEF Spec

\* No failure is lost while the brokers are up: whatever workers overlap, topics
\* are created again and leaders are elected, a failure whose dead-letter topic
\* existed is on its way to it or in it.
THEOREM FailuresKept == Spec => []DlqKeepsFailures
<1>1. Init => LettersInv /\ KeptInv
  BY LettersInit
<1>2. TypeOK /\ LettersInv /\ KeptInv /\ [Next]_vars => LettersInv' /\ KeptInv'
  BY LettersStep, KeptStep
<1>3. KeptInv => DlqKeepsFailures
  BY DEF KeptInv, DlqKeepsFailures, OnItsWay
<1>4. QED
  BY <1>1, <1>2, <1>3, TypeCorrect, PTL DEF Spec
=============================================================================
