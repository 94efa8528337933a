----------------------------- MODULE DualWrite -----------------------------
(***************************************************************************)
(* The simulated stores of internal/database/pgstore.go: PgStore (tables,  *)
(* secondary indexes, cascading deletion), Neo4jGraph, and the             *)
(* DualWriteService that writes learner skills to both.  Each store has a  *)
(* lock of its own, so a call on one store is a step and a call of the     *)
(* service is several.                                                     *)
(***************************************************************************)
EXTENDS Integers, Sequences, FiniteSets, SequencesExt

CONSTANTS
    Users, Emails, Profiles, Sessions, Results,
    Skills,
    SkillLevel,    \* SkillLevel[s]: 1 (A1) .. 6
    Prereqs,       \* Prereqs[s]: the set of prerequisites of s
    Levels,        \* the levels InitializeLearnerSkills is called with
    Confidences,   \* the confidences UpdateSkillConfidence is called with
    Statuses,      \* the statuses it is called with
    Writers,       \* goroutines calling the service
    MaxCalls,      \* bound: calls of the service
    Overlap        \* whether two calls may be about one learner at once

ASSUME StoresAssumption ==
    /\ IsFiniteSet(Skills) /\ SkillLevel \in [Skills -> 1..6]
    /\ Prereqs \in [Skills -> SUBSET Skills]
    /\ Levels \subseteq 1..6 /\ Confidences \subseteq Nat /\ MaxCalls \in Nat
    /\ Overlap \in BOOLEAN

VARIABLES
    tables,    \* users, profiles, sessions, results: the rows, by ID
    index,     \* emailIndex, profilesByUser, sessionsByLrn, resultsBySess, resultsByLrn
    lskills,   \* learnerSkills: [profile -> [skill -> confidence and status]]
    events,    \* how many deletionEvents there are about a profile
    nodes,     \* the graph's nodes: confidence and status by <<profile, skill>>
    edges,     \* the graph's edges, in the order they were created
    call,      \* the service call each writer is in
    calls      \* calls of the service so far

pgVars    == <<tables, index, lskills, events>>
graphVars == <<nodes, edges>>
vars      == <<tables, index, lskills, events, nodes, edges, call, calls>>

Empty == [x \in {} |-> x]

\* What both stores keep of a skill, and what it is initialised to.  The time of
\* the update, which the graph gets last, is left out.
Value    == [conf : Nat, status : Statuses \cup {"new"}]
NewValue == [conf |-> 0, status |-> "new"]

\* A writer's call: where it is, its learner, the skills it initialises, those
\* it has still to insert, the skill it is at and the value it sets.
Idle  == [pc |-> "idle", learner |-> "none", skills |-> {}, todo |-> {},
          skill |-> "none", value |-> NewValue]

Init ==
    /\ tables = [users |-> Empty, profiles |-> Empty, sessions |-> Empty, results |-> Empty]
    /\ index = [email |-> Empty, profiles |-> Empty, sessions |-> Empty,
                resultsBySess |-> Empty, resultsByLrn |-> Empty]
    /\ lskills = Empty
    /\ events = [p \in Profiles |-> 0]
    /\ nodes = Empty /\ edges = << >>
    /\ call = [w \in Writers |-> Idle]
    /\ calls = 0

Put(f, k, v)   == [x \in DOMAIN f \cup {k} |-> IF x = k THEN v ELSE f[x]]
Drop(f, keys)  == [k \in DOMAIN f \ keys |-> f[k]]
At(f, k)       == IF k \in DOMAIN f THEN f[k] ELSE {}
Add(f, k, id)  == Put(f, k, At(f, k) \cup {id})

-----------------------------------------------------------------------------
(* PgStore.  IDs are fresh: a row is inserted once. *)

InsertUser(u, email) ==
    /\ u \notin DOMAIN tables.users
    /\ email \notin DOMAIN index.email
    /\ tables' = [tables EXCEPT !.users = Put(@, u, email)]
    /\ index' = [index EXCEPT !.email = Put(@, email, u)]
    /\ UNCHANGED <<lskills, events, graphVars, call, calls>>

InsertProfile(p, u) ==
    /\ p \notin DOMAIN tables.profiles /\ events[p] = 0
    /\ u \in DOMAIN tables.users
    /\ tables' = [tables EXCEPT !.profiles = Put(@, p, u)]
    /\ index' = [index EXCEPT !.profiles = Add(@, u, p)]
    /\ UNCHANGED <<lskills, events, graphVars, call, calls>>

InsertSession(s, p) ==
    /\ s \notin DOMAIN tables.sessions
    /\ p \in DOMAIN tables.profiles
    /\ tables' = [tables EXCEPT !.sessions = Put(@, s, p)]
    /\ index' = [index EXCEPT !.sessions = Add(@, p, s)]
    /\ UNCHANGED <<lskills, events, graphVars, call, calls>>

\* InsertResult checks neither the session nor the learner.
InsertResult(r, s, p) ==
    /\ r \notin DOMAIN tables.results
    /\ tables' = [tables EXCEPT !.results = Put(@, r, <<s, p>>)]
    /\ index' = [index EXCEPT !.resultsBySess = Add(@, s, r), !.resultsByLrn = Add(@, p, r)]
    /\ UNCHANGED <<lskills, events, graphVars, call, calls>>

\* InsertActivityEvent is a result without a session.
InsertActivityEvent(r, p) ==
    /\ r \notin DOMAIN tables.results
    /\ tables' = [tables EXCEPT !.results = Put(@, r, <<"none", p>>)]
    /\ index' = [index EXCEPT !.resultsByLrn = Add(@, p, r)]
    /\ UNCHANGED <<lskills, events, graphVars, call, calls>>

\* What the deletion of u reaches, found through the indexes.
OwnedProfiles(u) == At(index.profiles, u)
OwnedSessions(u) == UNION {At(index.sessions, p) : p \in OwnedProfiles(u)}

\* Mutant of OwnedResults (CascadeComplete): only the results of the sessions.
OwnedResultsOfSessions(u) == UNION {At(index.resultsBySess, s) : s \in OwnedSessions(u)}

OwnedResults(u) ==
    (UNION {At(index.resultsBySess, s) : s \in OwnedSessions(u)})
        \cup (UNION {At(index.resultsByLrn, p) : p \in OwnedProfiles(u)})

\* The graph is not told.
DeleteUser(u) ==
    /\ u \in DOMAIN tables.users
    /\ tables' = [users    |-> Drop(tables.users, {u}),
                  profiles |-> Drop(tables.profiles, OwnedProfiles(u)),
                  sessions |-> Drop(tables.sessions, OwnedSessions(u)),
                  results  |-> Drop(tables.results, OwnedResults(u))]
    /\ index' = [email         |-> Drop(index.email, {tables.users[u]}),
                 profiles      |-> Drop(index.profiles, {u}),
                 sessions      |-> Drop(index.sessions, OwnedProfiles(u)),
                 resultsBySess |-> Drop(index.resultsBySess, OwnedSessions(u)),
                 resultsByLrn  |-> Drop(index.resultsByLrn, OwnedProfiles(u))]
    /\ lskills' = Drop(lskills, OwnedProfiles(u))
    /\ events' = [p \in Profiles |-> events[p] + (IF p \in OwnedProfiles(u) THEN 1 ELSE 0)]
    /\ UNCHANGED <<graphVars, call, calls>>

-----------------------------------------------------------------------------
(* DualWriteService *)

Busy(p) == \E w \in Writers : call[w].learner = p

Enter(w, c) ==
    /\ call[w] = Idle
    /\ Overlap \/ ~Busy(c.learner)
    /\ call' = [call EXCEPT ![w] = c]

Leave(w) == call' = [call EXCEPT ![w] = Idle]

\* GetSkillsByLevel: the skills at or below the level, in the map's order.
\* The learner need not have a profile.
InitializeLearnerSkills(w, p, level) ==
    /\ calls < MaxCalls
    /\ calls' = calls + 1
    /\ LET skills == {s \in Skills : SkillLevel[s] <= level}
       IN  Enter(w, [Idle EXCEPT !.pc = "insert", !.learner = p,
                                 !.skills = skills, !.todo = skills])
    /\ UNCHANGED <<pgVars, graphVars>>

\* InsertLearnerSkill overwrites what is there and checks no profile.
InitInsert(w) ==
    LET c == call[w] IN
    /\ c.pc = "insert" /\ c.todo # {}
    /\ \E s \in c.todo :
           /\ lskills' = Put(lskills, c.learner,
                             Put(IF c.learner \in DOMAIN lskills THEN lskills[c.learner]
                                 ELSE Empty, s, NewValue))
           /\ call' = [call EXCEPT ![w] =
                  [c EXCEPT !.pc = "node", !.todo = @ \ {s}, !.skill = s]]
    /\ UNCHANGED <<tables, index, events, graphVars, calls>>

InitNode(w) ==
    LET c == call[w] IN
    /\ c.pc = "node"
    /\ nodes' = Put(nodes, <<c.learner, c.skill>>, NewValue)
    /\ call' = [call EXCEPT ![w].pc = "insert"]
    /\ UNCHANGED <<pgVars, edges, calls>>

\* The prerequisite edges whose two nodes exist, one lookup or edge after the
\* other; nodes are never removed, so the lookups are taken together.
InitEdges(w) ==
    LET c == call[w]
        Joined == {e \in ({c.learner} \X Skills) \X ({c.learner} \X c.skills) :
                      /\ e[1][2] \in Prereqs[e[2][2]]
                      /\ {e[1], e[2]} \subseteq DOMAIN nodes}
    IN
    /\ c.pc = "insert" /\ c.todo = {}
    /\ edges' = edges \o SetToSeq(Joined)
    /\ Leave(w)
    /\ UNCHANGED <<pgVars, nodes, calls>>

\* UpdateLearnerSkill: ErrNotFound ends the call before the graph is written.
UpdateSkillConfidence(w, p, s, value) ==
    /\ calls < MaxCalls
    /\ calls' = calls + 1
    /\ IF p \in DOMAIN lskills /\ s \in DOMAIN lskills[p]
       THEN /\ lskills' = [lskills EXCEPT ![p][s] = value]
            /\ Enter(w, [Idle EXCEPT !.pc = "property", !.learner = p,
                                     !.skill = s, !.value = value])
       ELSE /\ call[w] = Idle
            /\ UNCHANGED <<lskills, call>>
    /\ UNCHANGED <<tables, index, events, graphVars>>

\* The node the call of w is about.
NodeOf(w) == <<call[w].learner, call[w].skill>>

\* UpdateNodeProperty of the confidence: without the node the call ends.
UpdateProperty(w) ==
    /\ call[w].pc = "property"
    /\ IF NodeOf(w) \in DOMAIN nodes
       THEN /\ nodes' = [nodes EXCEPT ![NodeOf(w)].conf = call[w].value.conf]
            /\ call' = [call EXCEPT ![w].pc = "status"]
       ELSE Leave(w) /\ nodes' = nodes
    /\ UNCHANGED <<pgVars, edges, calls>>

\* Mutant of UpdateStatus (StoresAgree): the node keeps its old status.
UpdateStatusOld(w) ==
    /\ call[w].pc = "status"
    /\ Leave(w)
    /\ UNCHANGED <<pgVars, graphVars, calls>>

\* UpdateNodeProperty of the status, whose error is dropped.
UpdateStatus(w) ==
    /\ call[w].pc = "status"
    /\ nodes' = IF NodeOf(w) \in DOMAIN nodes
                THEN [nodes EXCEPT ![NodeOf(w)].status = call[w].value.status]
                ELSE nodes
    /\ Leave(w)
    /\ UNCHANGED <<pgVars, edges, calls>>

-----------------------------------------------------------------------------
(* FindPath *)

\* Mutant of Visit (PathsFound): a node already in the queue gets a new parent.
VisitAgain(st, m) ==
    [st EXCEPT !.queue = IF m \in DOMAIN st.parent THEN @ ELSE Append(@, m),
               !.parent = Put(@, m, Head(st.queue))]

\* A neighbour of the head of the queue is queued unless it was visited.
Visit(st, m) ==
    IF m \in DOMAIN st.parent THEN st
    ELSE [st EXCEPT !.queue = Append(@, m), !.parent = Put(@, m, Head(st.queue))]

\* The neighbours of the head of the queue are visited in the order their edges
\* were created: adj[current].
VisitSteps(st) ==
    LET seen[k \in 0..Len(edges)] ==
            IF k = 0 THEN st
            ELSE IF edges[k][1] = Head(st.queue) THEN Visit(seen[k - 1], edges[k][2])
            ELSE seen[k - 1]
    IN  seen

\* The head is taken from the queue; the search ends when it is the target.
Take(st, to) ==
    IF st.queue = << >> \/ Head(st.queue) = to THEN st
    ELSE [VisitSteps(st)[Len(edges)] EXCEPT !.queue = Tail(@)]

\* No node is queued twice, so as many nodes are taken as there are, at most.
Rounds == Cardinality(DOMAIN nodes) + 1

SearchSteps(from, to) ==
    LET search[i \in 0..Rounds] ==
            IF i = 0 THEN [queue |-> <<from>>, parent |-> [n \in {from} |-> from]]
            ELSE Take(search[i - 1], to)
    IN  search

\* The path is read off the parents, from its end.
BackSteps(parent, from, to) ==
    LET back[k \in 0..Rounds] ==
            IF k = 0 THEN <<to>>
            ELSE LET b == back[k - 1]
                 IN  IF Head(b) = from THEN b ELSE <<parent[Head(b)]>> \o b
    IN  back

FindPath(from, to) ==
    LET parent == SearchSteps(from, to)[Rounds].parent
    IN  IF {from, to} \subseteq DOMAIN nodes /\ to \in DOMAIN parent
        THEN BackSteps(parent, from, to)[Rounds] ELSE << >>

-----------------------------------------------------------------------------
Next ==
    \/ \E u \in Users, e \in Emails : InsertUser(u, e)
    \/ \E p \in Profiles, u \in Users : InsertProfile(p, u)
    \/ \E s \in Sessions, p \in Profiles : InsertSession(s, p)
    \/ \E r \in Results, s \in Sessions, p \in Profiles : InsertResult(r, s, p)
    \/ \E r \in Results, p \in Profiles : InsertActivityEvent(r, p)
    \/ \E u \in Users : DeleteUser(u)
    \/ \E w \in Writers, p \in Profiles, l \in Levels : InitializeLearnerSkills(w, p, l)
    \/ \E w \in Writers : \/ InitInsert(w) \/ InitNode(w) \/ InitEdges(w)
                         \/ UpdateProperty(w) \/ UpdateStatus(w)
    \/ \E w \in Writers, p \in Profiles, s \in Skills, c \in Confidences, t \in Statuses :
           UpdateSkillConfidence(w, p, s, [conf |-> c, status |-> t])

Spec == Init /\ [][Next]_vars

-----------------------------------------------------------------------------
(* Properties *)

\* A step that deletes u leaves nothing of u behind: no profile, no session or
\* result of one, no skill, no address, one event per profile; and it takes
\* nobody else's profile or session.
GoneWithAll(u) ==
    LET mine == {p \in DOMAIN tables.profiles : tables.profiles[p] = u}
    IN  /\ DOMAIN tables'.profiles = DOMAIN tables.profiles \ mine
        /\ mine \cap DOMAIN lskills' = {}
        /\ DOMAIN tables'.sessions = {s \in DOMAIN tables.sessions : tables.sessions[s] \notin mine}
        /\ \A r \in DOMAIN tables'.results : tables'.results[r][2] \notin mine
        /\ u \notin Range(index'.email)
        /\ \A p \in Profiles : events'[p] = events[p] + (IF p \in mine THEN 1 ELSE 0)

\* Deleting a user is complete, although what it reaches is found through
\* indexes that every insert and every earlier deletion had to keep.
CascadeComplete ==
    [][\A u \in DOMAIN tables.users \ DOMAIN tables'.users : GoneWithAll(u)]_vars

\* The two stores agree about the confidence and the status of every skill of a
\* learner no call is about, whatever calls for other learners and deletions came in between.
StoresAgree ==
    \A p \in DOMAIN lskills : ~Busy(p) =>
        \A s \in DOMAIN lskills[p] : /\ <<p, s>> \in DOMAIN nodes
                                     /\ nodes[<<p, s>>] = lskills[p][s]

\* The graph's edges that begin or end at a node of p.
Incident(p) == {e \in Range(edges) : p \in {e[1][1], e[2][1]}}

\* Once a learner's skills are initialised, and again at other levels, the
\* graph joins exactly the prerequisites it has nodes for, never two learners;
\* FindPath finds a path where the edges reach, of edges that exist, and the
\* edge itself where there is one.
PathsFound ==
    \A p \in Profiles : ~Busy(p) =>
        LET Mine == {n \in DOMAIN nodes : n[1] = p}
            Edge == {e \in Mine \X Mine : e[1][2] \in Prereqs[e[2][2]]}
            Closed(S) == \A e \in Edge : e[1] \in S => e[2] \in S
            Reaches(a, b) == \A S \in SUBSET Mine : a \in S /\ Closed(S) => b \in S
        IN  /\ Incident(p) = Edge
            /\ \A a, b \in Mine :
                   LET path == FindPath(a, b)
                   IN  IF a = b THEN path = <<a>>
                       ELSE /\ path # << >> <=> Reaches(a, b)
                            /\ path # << >> => path[1] = a /\ path[Len(path)] = b
                            /\ <<a, b>> \in Edge => Len(path) = 2
                            /\ \A i \in 1..(Len(path) - 1) : <<path[i], path[i + 1]>> \in Edge
=============================================================================
