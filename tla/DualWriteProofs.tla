-------------------------- MODULE DualWriteProofs --------------------------
(***************************************************************************)
(* What holds of DualWrite for every number of rows, skills, writers and   *)
(* calls.                                                                  *)
(***************************************************************************)
EXTENDS DualWrite, FiniteSetTheorems, SequenceTheorems, WellFoundedInduction, TLAPS

----------------------------------------------------------------------------
(* The relational store. *)

\* The tables and the indexes are records.
Shape ==
    /\ tables = [users |-> tables.users, profiles |-> tables.profiles,
                 sessions |-> tables.sessions, results |-> tables.results]
    /\ index = [email |-> index.email, profiles |-> index.profiles,
                sessions |-> index.sessions, resultsBySess |-> index.resultsBySess,
                resultsByLrn |-> index.resultsByLrn]

\* An index finds the rows of its table: the address one user, the user or the
\* profile all its profiles or sessions and nothing else.  A result may be
\* indexed although it is gone (its session was another learner's), never the
\* other way round.
EmailIndex ==
    /\ \A u \in DOMAIN tables.users :
         tables.users[u] \in DOMAIN index.email /\ index.email[tables.users[u]] = u
    /\ \A e \in DOMAIN index.email :
         index.email[e] \in DOMAIN tables.users /\ tables.users[index.email[e]] = e
ProfileIndex ==
    /\ DOMAIN tables.profiles \subseteq Profiles
    /\ \A u \in Users :
         At(index.profiles, u) = {p \in DOMAIN tables.profiles : tables.profiles[p] = u}
SessionIndex ==
    \A p \in Profiles :
        At(index.sessions, p) = {s \in DOMAIN tables.sessions : tables.sessions[s] = p}
ResultIndex ==
    \A p \in Profiles :
        {r \in DOMAIN tables.results : tables.results[r][2] = p} \subseteq At(index.resultsByLrn, p)

IndexInv == Shape /\ EmailIndex /\ ProfileIndex /\ SessionIndex /\ ResultIndex

\* Initially every table is empty.
LEMMA IndexInit == Init => IndexInv
BY DEF Init, IndexInv, Shape, EmailIndex, ProfileIndex, SessionIndex, ResultIndex, Empty, At

\* A step that keeps the tables and the indexes keeps IndexInv.
LEMMA IndexKept == IndexInv /\ UNCHANGED <<tables, index>> => IndexInv'
BY DEF IndexInv, Shape, EmailIndex, ProfileIndex, SessionIndex, ResultIndex

\* Every step keeps the indexes true to the tables.
LEMMA IndexStep == IndexInv /\ [Next]_vars => IndexInv'
<1> SUFFICES ASSUME IndexInv, [Next]_vars PROVE IndexInv'  OBVIOUS
<1> USE DEF IndexInv
<1>1. ASSUME NEW u \in Users, NEW e \in Emails, InsertUser(u, e) PROVE IndexInv'
  <2>1. /\ tables' = [tables EXCEPT !.users = Put(@, u, e)]
        /\ index' = [index EXCEPT !.email = Put(@, e, u)]
        /\ u \notin DOMAIN tables.users /\ e \notin DOMAIN index.email
    BY <1>1 DEF InsertUser
  <2>2. /\ tables'.users = Put(tables.users, u, e) /\ index'.email = Put(index.email, e, u)
        /\ Shape' /\ index'.profiles = index.profiles /\ tables'.profiles = tables.profiles
        /\ index'.sessions = index.sessions /\ tables'.sessions = tables.sessions
        /\ index'.resultsByLrn = index.resultsByLrn /\ tables'.results = tables.results
    BY <2>1 DEF Shape
  <2>3. EmailIndex'
    BY <2>1, <2>2 DEF EmailIndex, Put
  <2> QED  BY <2>2, <2>3 DEF ProfileIndex, SessionIndex, ResultIndex
<1>2. ASSUME NEW p \in Profiles, NEW u \in Users, InsertProfile(p, u) PROVE IndexInv'
  <2>1. /\ tables' = [tables EXCEPT !.profiles = Put(@, p, u)]
        /\ index' = [index EXCEPT !.profiles = Add(@, u, p)]
        /\ p \notin DOMAIN tables.profiles
    BY <1>2 DEF InsertProfile
  <2>2. /\ tables'.profiles = Put(tables.profiles, p, u)
        /\ index'.profiles = Add(index.profiles, u, p)
        /\ Shape' /\ index'.email = index.email /\ tables'.users = tables.users
        /\ index'.sessions = index.sessions /\ tables'.sessions = tables.sessions
        /\ index'.resultsByLrn = index.resultsByLrn /\ tables'.results = tables.results
    BY <2>1 DEF Shape
  <2>3. ProfileIndex'
    <3>1. DOMAIN tables'.profiles = DOMAIN tables.profiles \cup {p}  BY <2>2 DEF Put
    <3>2. ASSUME NEW v \in Users
          PROVE  At(index'.profiles, v) = {q \in DOMAIN tables'.profiles : tables'.profiles[q] = v}
      <4>1. CASE v = u
        BY <4>1, <2>1, <2>2, <3>1 DEF ProfileIndex, Put, Add, At
      <4>2. CASE v # u
        BY <4>2, <2>1, <2>2, <3>1 DEF ProfileIndex, Put, Add, At
      <4> QED  BY <4>1, <4>2
    <3> QED  BY <3>1, <3>2 DEF ProfileIndex
  <2> QED  BY <2>2, <2>3 DEF EmailIndex, SessionIndex, ResultIndex
<1>3. ASSUME NEW s \in Sessions, NEW p \in Profiles, InsertSession(s, p) PROVE IndexInv'
  <2>1. /\ tables' = [tables EXCEPT !.sessions = Put(@, s, p)]
        /\ index' = [index EXCEPT !.sessions = Add(@, p, s)]
        /\ s \notin DOMAIN tables.sessions
    BY <1>3 DEF InsertSession
  <2>2. /\ tables'.sessions = Put(tables.sessions, s, p)
        /\ index'.sessions = Add(index.sessions, p, s)
        /\ Shape' /\ index'.email = index.email /\ tables'.users = tables.users
        /\ index'.profiles = index.profiles /\ tables'.profiles = tables.profiles
        /\ index'.resultsByLrn = index.resultsByLrn /\ tables'.results = tables.results
    BY <2>1 DEF Shape
  <2>3. SessionIndex'
    <3>1. DOMAIN tables'.sessions = DOMAIN tables.sessions \cup {s}  BY <2>2 DEF Put
    <3>2. ASSUME NEW q \in Profiles
          PROVE  At(index'.sessions, q) = {t \in DOMAIN tables'.sessions : tables'.sessions[t] = q}
      <4>1. CASE q = p
        BY <4>1, <2>1, <2>2, <3>1 DEF SessionIndex, Put, Add, At
      <4>2. CASE q # p
        BY <4>2, <2>1, <2>2, <3>1 DEF SessionIndex, Put, Add, At
      <4> QED  BY <4>1, <4>2
    <3> QED  BY <3>2 DEF SessionIndex
  <2> QED  BY <2>2, <2>3 DEF EmailIndex, ProfileIndex, ResultIndex
<1>4. ASSUME NEW r \in Results, NEW p \in Profiles, NEW s,
             r \notin DOMAIN tables.results,
             tables' = [tables EXCEPT !.results = Put(@, r, <<s, p>>)],
             Shape', index'.email = index.email, index'.profiles = index.profiles,
             index'.sessions = index.sessions,
             index'.resultsByLrn = Add(index.resultsByLrn, p, r)
      PROVE  IndexInv'
  <2>1. /\ tables'.results = Put(tables.results, r, <<s, p>>)
        /\ tables'.users = tables.users /\ tables'.profiles = tables.profiles
        /\ tables'.sessions = tables.sessions
    BY <1>4 DEF Shape
  <2>2. DOMAIN tables'.results = DOMAIN tables.results \cup {r}
        /\ tables'.results[r] = <<s, p>>
        /\ \A t \in DOMAIN tables.results : t # r => tables'.results[t] = tables.results[t]
    BY <2>1 DEF Put
  <2>3. ResultIndex'
    <3> SUFFICES ASSUME NEW q \in Profiles, NEW t \in DOMAIN tables'.results,
                        tables'.results[t][2] = q
                 PROVE  t \in At(index'.resultsByLrn, q)
      BY DEF ResultIndex
    <3>1. CASE t = r  BY <3>1, <1>4, <2>2 DEF Add, Put, At
    <3>2. CASE t # r
      <4>1. t \in At(index.resultsByLrn, q)  BY <3>2, <2>2 DEF ResultIndex
      <4> QED  BY <4>1, <1>4 DEF Add, Put, At
    <3> QED  BY <3>1, <3>2
  <2> QED  BY <1>4, <2>1, <2>3 DEF EmailIndex, ProfileIndex, SessionIndex
<1>5. ASSUME NEW r \in Results, NEW s \in Sessions, NEW p \in Profiles, InsertResult(r, s, p)
      PROVE  IndexInv'
  <2>1. r \notin DOMAIN tables.results
        /\ tables' = [tables EXCEPT !.results = Put(@, r, <<s, p>>)]
        /\ index' = [index EXCEPT !.resultsBySess = Add(@, s, r), !.resultsByLrn = Add(@, p, r)]
    BY <1>5 DEF InsertResult
  <2>2. /\ Shape' /\ index'.email = index.email /\ index'.profiles = index.profiles
        /\ index'.sessions = index.sessions
        /\ index'.resultsByLrn = Add(index.resultsByLrn, p, r)
    BY <2>1 DEF Shape
  <2> QED  BY <2>1, <2>2, <1>4
<1>6. ASSUME NEW r \in Results, NEW p \in Profiles, InsertActivityEvent(r, p) PROVE IndexInv'
  <2>1. r \notin DOMAIN tables.results
        /\ tables' = [tables EXCEPT !.results = Put(@, r, <<"none", p>>)]
        /\ index' = [index EXCEPT !.resultsByLrn = Add(@, p, r)]
    BY <1>6 DEF InsertActivityEvent
  <2>2. /\ Shape' /\ index'.email = index.email /\ index'.profiles = index.profiles
        /\ index'.sessions = index.sessions
        /\ index'.resultsByLrn = Add(index.resultsByLrn, p, r)
    BY <2>1 DEF Shape
  <2> QED  BY <2>1, <2>2, <1>4
<1>7. ASSUME NEW u \in Users, DeleteUser(u) PROVE IndexInv'
  <2> DEFINE P == OwnedProfiles(u)
             S == OwnedSessions(u)
             R == OwnedResults(u)
             mail == tables.users[u]
  <2>1. /\ u \in DOMAIN tables.users
        /\ tables' = [users    |-> Drop(tables.users, {u}),
                      profiles |-> Drop(tables.profiles, P),
                      sessions |-> Drop(tables.sessions, S),
                      results  |-> Drop(tables.results, R)]
        /\ index' = [email         |-> Drop(index.email, {mail}),
                     profiles      |-> Drop(index.profiles, {u}),
                     sessions      |-> Drop(index.sessions, P),
                     resultsBySess |-> Drop(index.resultsBySess, S),
                     resultsByLrn  |-> Drop(index.resultsByLrn, P)]
    BY <1>7 DEF DeleteUser
  <2>2. P = {p \in DOMAIN tables.profiles : tables.profiles[p] = u} /\ P \subseteq Profiles
    BY DEF OwnedProfiles, ProfileIndex
  <2>3. S = {s \in DOMAIN tables.sessions : tables.sessions[s] \in P}
    BY <2>2 DEF OwnedSessions, SessionIndex
  <2>4. \A p \in P : At(index.resultsByLrn, p) \subseteq R
    <3>1. UNION {At(index.resultsByLrn, p) : p \in P} \subseteq R
      <4> DEFINE A == UNION {At(index.resultsBySess, s) : s \in S}
                 B == UNION {At(index.resultsByLrn, p) : p \in P}
      <4>1. R = A \cup B  BY DEF OwnedResults
      <4> HIDE DEF A, B, R
      <4> QED  BY <4>1 DEF B
    <3> HIDE DEF P, R
    <3> QED  BY <3>1
  <2> HIDE DEF P, S, R
  <2>5. Shape'  BY <2>1 DEF Shape
  <2>6. EmailIndex'
    BY <2>1 DEF EmailIndex, Drop
  <2>7. ProfileIndex'
    <3>1. DOMAIN tables'.profiles = DOMAIN tables.profiles \ P
          /\ \A p \in DOMAIN tables'.profiles : tables'.profiles[p] = tables.profiles[p]
      BY <2>1 DEF Drop
    <3>2. ASSUME NEW v \in Users
          PROVE  At(index'.profiles, v) = {q \in DOMAIN tables'.profiles : tables'.profiles[q] = v}
      <4>1. CASE v = u
        <5>1. At(index'.profiles, v) = {}  BY <4>1, <2>1 DEF Drop, At
        <5> QED  BY <4>1, <5>1, <3>1, <2>2
      <4>2. CASE v # u
        <5>1. At(index'.profiles, v) = At(index.profiles, v)  BY <4>2, <2>1 DEF Drop, At
        <5> QED  BY <4>2, <5>1, <3>1, <2>2 DEF ProfileIndex
      <4> QED  BY <4>1, <4>2
    <3> QED  BY <3>1, <3>2 DEF ProfileIndex
  <2>8. SessionIndex'
    <3>1. DOMAIN tables'.sessions = DOMAIN tables.sessions \ S
          /\ \A s \in DOMAIN tables'.sessions : tables'.sessions[s] = tables.sessions[s]
      BY <2>1 DEF Drop
    <3>2. ASSUME NEW q \in Profiles
          PROVE  At(index'.sessions, q) = {s \in DOMAIN tables'.sessions : tables'.sessions[s] = q}
      <4>1. CASE q \in P
        <5>1. At(index'.sessions, q) = {}  BY <4>1, <2>1 DEF Drop, At
        <5> QED  BY <4>1, <5>1, <3>1, <2>3
      <4>2. CASE q \notin P
        <5>1. At(index'.sessions, q) = At(index.sessions, q)  BY <4>2, <2>1 DEF Drop, At
        <5> QED  BY <4>2, <5>1, <3>1, <2>3 DEF SessionIndex
      <4> QED  BY <4>1, <4>2
    <3> QED  BY <3>2 DEF SessionIndex
  <2>9. ResultIndex'
    <3> SUFFICES ASSUME NEW q \in Profiles, NEW t \in DOMAIN tables'.results,
                        tables'.results[t][2] = q
                 PROVE  t \in At(index'.resultsByLrn, q)
      BY DEF ResultIndex
    <3>1. t \in DOMAIN tables.results /\ t \notin R /\ tables'.results[t] = tables.results[t]
      BY <2>1 DEF Drop
    <3>2. t \in At(index.resultsByLrn, q)  BY <3>1 DEF ResultIndex
    <3>3. q \notin P  BY <3>1, <3>2, <2>4
    <3> QED  BY <3>2, <3>3, <2>1 DEF Drop, At
  <2> QED  BY <2>5, <2>6, <2>7, <2>8, <2>9
<1>8. ASSUME NEW w \in Writers, NEW p \in Profiles, NEW l \in Levels,
             InitializeLearnerSkills(w, p, l)
      PROVE  IndexInv'
  BY <1>8, IndexKept DEF InitializeLearnerSkills, pgVars
<1>9. ASSUME NEW w \in Writers,
             \/ InitInsert(w) \/ InitNode(w) \/ InitEdges(w)
             \/ UpdateProperty(w) \/ UpdateStatus(w)
      PROVE  IndexInv'
  <2>1. UNCHANGED <<tables, index>>
    BY <1>9 DEF InitInsert, InitNode, InitEdges, UpdateProperty, UpdateStatus, pgVars
  <2> QED  BY <2>1, IndexKept
<1>10. ASSUME NEW w \in Writers, NEW p \in Profiles, NEW s \in Skills, NEW c \in Confidences,
              NEW t \in Statuses, UpdateSkillConfidence(w, p, s, [conf |-> c, status |-> t])
       PROVE  IndexInv'
  BY <1>10, IndexKept DEF UpdateSkillConfidence
<1>11. CASE UNCHANGED vars
  BY <1>11, IndexKept DEF vars
<1> QED  BY <1>1, <1>2, <1>3, <1>5, <1>6, <1>7, <1>8, <1>9, <1>10, <1>11 DEF Next

\* IndexInv holds of every state.
LEMMA IndexHolds == Spec => []IndexInv
BY IndexInit, IndexStep, PTL DEF Spec

\* Of all the steps, only the deletion of a user shortens the users table.
LEMMA OnlyDeletion ==
    ASSUME IndexInv, [Next]_vars, NEW u \in DOMAIN tables.users \ DOMAIN tables'.users
    PROVE  u \in Users /\ DeleteUser(u)
<1>s. Shape  BY DEF IndexInv
<1>1. ASSUME NEW v \in Users, NEW e \in Emails, InsertUser(v, e) PROVE FALSE
  <2>1. tables'.users = Put(tables.users, v, e)  BY <1>1, <1>s DEF InsertUser, Shape
  <2> QED  BY <2>1 DEF Put
<1>2. tables'.users # tables.users  OBVIOUS
<1>3. ASSUME NEW v \in Users, DeleteUser(v) PROVE v = u
  <2>1. tables'.users = Drop(tables.users, {v})  BY <1>3 DEF DeleteUser
  <2> QED  BY <2>1 DEF Drop
<1>4. ASSUME NEW p \in Profiles, NEW v \in Users, InsertProfile(p, v) PROVE FALSE
  BY <1>2, <1>4, <1>s DEF InsertProfile, Shape
<1>5. ASSUME NEW s \in Sessions, NEW p \in Profiles, InsertSession(s, p) PROVE FALSE
  BY <1>2, <1>5, <1>s DEF InsertSession, Shape
<1>6. ASSUME NEW r \in Results, NEW s \in Sessions, NEW p \in Profiles, InsertResult(r, s, p)
      PROVE  FALSE
  BY <1>2, <1>6, <1>s DEF InsertResult, Shape
<1>7. ASSUME NEW r \in Results, NEW p \in Profiles, InsertActivityEvent(r, p) PROVE FALSE
  BY <1>2, <1>7, <1>s DEF InsertActivityEvent, Shape
<1>8. ASSUME NEW w \in Writers, NEW p \in Profiles, NEW l \in Levels,
             InitializeLearnerSkills(w, p, l)
      PROVE  FALSE
  BY <1>2, <1>8 DEF InitializeLearnerSkills, pgVars
<1>9. ASSUME NEW w \in Writers,
             \/ InitInsert(w) \/ InitNode(w) \/ InitEdges(w)
             \/ UpdateProperty(w) \/ UpdateStatus(w)
      PROVE  FALSE
  BY <1>2, <1>9 DEF InitInsert, InitNode, InitEdges, UpdateProperty, UpdateStatus, pgVars
<1>10. ASSUME NEW w \in Writers, NEW p \in Profiles, NEW s \in Skills, NEW c \in Confidences,
              NEW t \in Statuses, UpdateSkillConfidence(w, p, s, [conf |-> c, status |-> t])
       PROVE FALSE
  BY <1>2, <1>10 DEF UpdateSkillConfidence
<1>11. CASE UNCHANGED vars
  BY <1>2, <1>11 DEF vars
<1> QED  BY <1>1, <1>3, <1>4, <1>5, <1>6, <1>7, <1>8, <1>9, <1>10, <1>11 DEF Next

\* True indexes make a deletion complete.
LEMMA DeletionComplete ==
    ASSUME IndexInv, NEW u \in Users, DeleteUser(u)
    PROVE  GoneWithAll(u)
<1> DEFINE mine == {p \in DOMAIN tables.profiles : tables.profiles[p] = u}
           P == OwnedProfiles(u)
           S == OwnedSessions(u)
           R == OwnedResults(u)
<1>1. /\ u \in DOMAIN tables.users
      /\ tables' = [users    |-> Drop(tables.users, {u}),
                    profiles |-> Drop(tables.profiles, P),
                    sessions |-> Drop(tables.sessions, S),
                    results  |-> Drop(tables.results, R)]
      /\ index'.email = Drop(index.email, {tables.users[u]})
      /\ lskills' = Drop(lskills, P)
      /\ events' = [p \in Profiles |-> events[p] + (IF p \in P THEN 1 ELSE 0)]
  BY DEF DeleteUser
<1>2. P = mine /\ P \subseteq Profiles
  BY DEF OwnedProfiles, IndexInv, ProfileIndex
<1>3. S = {s \in DOMAIN tables.sessions : tables.sessions[s] \in P}
  BY <1>2 DEF OwnedSessions, IndexInv, SessionIndex
<1>4. UNION {At(index.resultsByLrn, p) : p \in P} \subseteq R
  <2> DEFINE A == UNION {At(index.resultsBySess, s) : s \in S}
             B == UNION {At(index.resultsByLrn, p) : p \in P}
  <2>1. R = A \cup B  BY DEF OwnedResults
  <2> HIDE DEF A, B, R
  <2> QED  BY <2>1 DEF B
<1> HIDE DEF P, S, R
<1>5. DOMAIN tables'.profiles = DOMAIN tables.profiles \ P  BY <1>1 DEF Drop
<1>6. P \cap DOMAIN lskills' = {}  BY <1>1 DEF Drop
<1>7. DOMAIN tables'.sessions = {s \in DOMAIN tables.sessions : tables.sessions[s] \notin P}
  BY <1>1, <1>3 DEF Drop
<1>8. ASSUME NEW r \in DOMAIN tables'.results PROVE tables'.results[r][2] \notin P
  <2>1. r \in DOMAIN tables.results /\ r \notin R /\ tables'.results[r] = tables.results[r]
    BY <1>1, <1>8 DEF Drop
  <2>2. SUFFICES ASSUME NEW p \in P, tables.results[r][2] = p PROVE FALSE
    BY <2>1
  <2>3. r \in At(index.resultsByLrn, p)  BY <1>2, <2>1, <2>2 DEF IndexInv, ResultIndex
  <2> QED  BY <1>4, <2>1, <2>3
<1>9. u \notin Range(index'.email)
  <2>1. SUFFICES ASSUME NEW e \in DOMAIN index'.email, index'.email[e] = u PROVE FALSE
    BY DEF Range
  <2>2. e \in DOMAIN index.email /\ e # tables.users[u] /\ index.email[e] = u
    BY <1>1, <2>1 DEF Drop
  <2> QED  BY <2>2 DEF IndexInv, EmailIndex
<1> HIDE DEF mine
<1>10. /\ DOMAIN tables'.profiles = DOMAIN tables.profiles \ mine
       /\ mine \cap DOMAIN lskills' = {}
       /\ DOMAIN tables'.sessions = {s \in DOMAIN tables.sessions : tables.sessions[s] \notin mine}
       /\ \A r \in DOMAIN tables'.results : tables'.results[r][2] \notin mine
       /\ \A p \in Profiles : events'[p] = events[p] + (IF p \in mine THEN 1 ELSE 0)
  BY <1>1, <1>2, <1>5, <1>6, <1>7, <1>8
<1> QED  BY <1>9, <1>10 DEF GoneWithAll, mine

\* Deleting a user leaves nothing of the user behind and takes nothing of
\* anybody else's, however many rows there are.
THEOREM DeletionsComplete == Spec => CascadeComplete
<1>1. IndexInv /\ [Next]_vars =>
        [\A u \in DOMAIN tables.users \ DOMAIN tables'.users : GoneWithAll(u)]_vars
  BY OnlyDeletion, DeletionComplete
<1> QED  BY <1>1, IndexHolds, PTL DEF Spec, CascadeComplete

----------------------------------------------------------------------------
(* The two stores. *)

\* What a writer can be in.
CallType == [pc : {"idle", "insert", "node", "property", "status"}, learner : Profiles \cup {"none"},
             skills : SUBSET Skills, todo : SUBSET Skills,
             skill : Skills \cup {"none"}, value : Value]

\* Calls are typed; initialising calls set the new value; no two are about one learner.
CallInv ==
    /\ call \in [Writers -> CallType]
    /\ \A w \in Writers : call[w].pc = "idle" => call[w] = Idle
    /\ \A w \in Writers : call[w].pc \in {"insert", "node"} => call[w].value = NewValue
    /\ \A v, w \in Writers :
         (call[v].pc # "idle" /\ call[w].pc # "idle" /\ call[v].learner = call[w].learner) => v = w

\* w has written the skill s of p to one store and not yet, or not all, to the other.
Writing(w, p, s) ==
    /\ call[w].learner = p /\ call[w].skill = s
    /\ call[w].pc \in {"node", "property", "status"}

\* The stores agree about a skill that is not being written; of one that is, the
\* first store has the value the second is about to get, the node that a property
\* belongs to exists, and it has the confidence before it gets the status.
Agreed(p, s) ==
    /\ \/ <<p, s>> \in DOMAIN nodes /\ nodes[<<p, s>>] = lskills[p][s]
       \/ \E w \in Writers : Writing(w, p, s)
    /\ \A w \in Writers : Writing(w, p, s) =>
         /\ lskills[p][s] = call[w].value
         /\ call[w].pc \in {"property", "status"} => <<p, s>> \in DOMAIN nodes
         /\ call[w].pc = "status" => nodes[<<p, s>>].conf = call[w].value.conf

SkillInv == \A p \in DOMAIN lskills : \A s \in DOMAIN lskills[p] : Agreed(p, s)

NodeInv == \A n \in DOMAIN nodes : nodes[n] \in Value

AgreeInv == CallInv /\ SkillInv /\ NodeInv

\* The new value is one.
LEMMA NewIsValue == NewValue \in Value
BY DEF NewValue, Value

\* Initially no writer is in a call and no skill is stored.
LEMMA AgreeInit == Init => AgreeInv
<1>1. Idle \in CallType  BY NewIsValue DEF Idle, CallType
<1> QED  BY <1>1 DEF Init, AgreeInv, CallInv, SkillInv, NodeInv, Idle, Empty

\* A writer about to write or in between two writes of p is the only one in a
\* call about p.
LEMMA OnlyWriter ==
    ASSUME CallInv, NEW w \in Writers, call[w].pc # "idle",
           NEW v \in Writers, NEW s, Writing(v, call[w].learner, s)
    PROVE  v = w
BY DEF CallInv, Writing

\* A step that keeps the skills, the nodes and the calls keeps AgreeInv.
LEMMA AgreeKept == AgreeInv /\ UNCHANGED <<lskills, nodes, call>> => AgreeInv'
BY DEF AgreeInv, CallInv, SkillInv, NodeInv, Agreed, Writing

\* When no two calls are about one learner at once, every step keeps AgreeInv.
LEMMA AgreeStep == ~Overlap /\ AgreeInv /\ [Next]_vars => AgreeInv'
<1> SUFFICES ASSUME ~Overlap, AgreeInv, [Next]_vars PROVE AgreeInv'  OBVIOUS
<1> USE DEF AgreeInv
<1>t. \A w \in Writers : call[w] \in CallType  BY DEF CallInv
<1>1. ASSUME NEW u \in Users, NEW e \in Emails, InsertUser(u, e) PROVE AgreeInv'
  BY <1>1, AgreeKept DEF InsertUser, graphVars
<1>2. ASSUME NEW p \in Profiles, NEW u \in Users, InsertProfile(p, u) PROVE AgreeInv'
  BY <1>2, AgreeKept DEF InsertProfile, graphVars
<1>3. ASSUME NEW s \in Sessions, NEW p \in Profiles, InsertSession(s, p) PROVE AgreeInv'
  BY <1>3, AgreeKept DEF InsertSession, graphVars
<1>4. ASSUME NEW r \in Results, NEW s \in Sessions, NEW p \in Profiles, InsertResult(r, s, p)
      PROVE  AgreeInv'
  BY <1>4, AgreeKept DEF InsertResult, graphVars
<1>5. ASSUME NEW r \in Results, NEW p \in Profiles, InsertActivityEvent(r, p) PROVE AgreeInv'
  BY <1>5, AgreeKept DEF InsertActivityEvent, graphVars
<1>6. ASSUME NEW u \in Users, DeleteUser(u) PROVE AgreeInv'
  <2>1. lskills' = Drop(lskills, OwnedProfiles(u)) /\ UNCHANGED <<nodes, call>>
    BY <1>6 DEF DeleteUser, graphVars
  <2>2. \A p \in DOMAIN lskills' : p \in DOMAIN lskills /\ lskills'[p] = lskills[p]
    BY <2>1 DEF Drop
  <2> QED  BY <2>1, <2>2 DEF CallInv, SkillInv, NodeInv, Agreed, Writing
<1>7. ASSUME NEW w \in Writers, NEW p \in Profiles, NEW l \in Levels,
             InitializeLearnerSkills(w, p, l)
      PROVE  AgreeInv'
  <2> DEFINE skills == {s \in Skills : SkillLevel[s] <= l}
             c == [Idle EXCEPT !.pc = "insert", !.learner = p, !.skills = skills, !.todo = skills]
  <2>1. call[w] = Idle /\ ~Busy(c.learner) /\ call' = [call EXCEPT ![w] = c]
        /\ UNCHANGED <<lskills, nodes>>
    BY <1>7 DEF InitializeLearnerSkills, Enter, pgVars, graphVars
  <2>2. c \in CallType /\ c.pc = "insert" /\ c.learner = p /\ c.value = NewValue
    BY NewIsValue DEF Idle, CallType
  <2> HIDE DEF c
  <2>3. call'[w] = c /\ \A v \in Writers : v # w => call'[v] = call[v]
    BY <2>1 DEF CallInv
  <2>4. CallInv'
    <3>1. call' \in [Writers -> CallType]  BY <2>1, <2>2 DEF CallInv
    <3>2. \A v \in Writers : call[v].learner # p  BY <2>1, <2>2 DEF Busy
    <3> QED  BY <2>2, <2>3, <3>1, <3>2 DEF CallInv
  <2>5. \A v \in Writers : \A q, s : Writing(v, q, s)' => v # w /\ Writing(v, q, s)
    BY <2>2, <2>3 DEF Writing
  <2>6. \A v \in Writers : \A q, s : Writing(v, q, s) => Writing(v, q, s)'
    BY <2>1, <2>3 DEF Writing, Idle
  <2> QED  BY <2>1, <2>3, <2>4, <2>5, <2>6 DEF SkillInv, NodeInv, Agreed
<1>8. ASSUME NEW w \in Writers, InitInsert(w) PROVE AgreeInv'
  <2> DEFINE p == call[w].learner
  <2>1. PICK s \in call[w].todo :
          /\ lskills' = Put(lskills, p, Put(IF p \in DOMAIN lskills THEN lskills[p] ELSE Empty, s, NewValue))
          /\ call' = [call EXCEPT ![w] =
                [call[w] EXCEPT !.pc = "node", !.todo = @ \ {s}, !.skill = s]]
    BY <1>8 DEF InitInsert
  <2>2. call[w].pc = "insert" /\ UNCHANGED nodes  BY <1>8 DEF InitInsert, graphVars
  <2> DEFINE c == [call[w] EXCEPT !.pc = "node", !.todo = @ \ {s}, !.skill = s]
  <2>3. /\ c \in CallType /\ c.pc = "node" /\ c.learner = p /\ c.value = NewValue /\ c.skill = s
    BY <1>t, <2>2 DEF CallType, CallInv
  <2>4. call' = [call EXCEPT ![w] = c]  BY <2>1
  <2> HIDE DEF c
  <2>5. call'[w] = c /\ \A v \in Writers : v # w => call'[v] = call[v]
    BY <2>4 DEF CallInv
  <2>6. CallInv'
    <3>1. call' \in [Writers -> CallType]  BY <2>3, <2>4 DEF CallInv
    <3> QED  BY <2>2, <2>3, <2>5, <3>1 DEF CallInv
  <2>7. /\ DOMAIN lskills' = DOMAIN lskills \cup {p}
        /\ \A q \in DOMAIN lskills : q # p => lskills'[q] = lskills[q]
        /\ s \in DOMAIN lskills'[p] /\ lskills'[p][s] = NewValue
        /\ \A t \in DOMAIN lskills'[p] :
             t # s => p \in DOMAIN lskills /\ t \in DOMAIN lskills[p]
                      /\ lskills'[p][t] = lskills[p][t]
    BY <2>1 DEF Put, Empty
  <2>8. \A v \in Writers : \A q, t : v # w => (Writing(v, q, t)' <=> Writing(v, q, t))
    BY <2>5 DEF Writing
  <2>9. Writing(w, p, s)' /\ \A q, t : Writing(w, q, t)' => q = p /\ t = s
    BY <2>3, <2>5 DEF Writing
  <2>10. \A q, t : ~Writing(w, q, t)  BY <2>2 DEF Writing
  <2>11. \A v \in Writers : \A t : v # w => ~Writing(v, p, t)
    BY <2>2, OnlyWriter
  <2> HIDE DEF p
  <2>12. ASSUME NEW q \in DOMAIN lskills', NEW t \in DOMAIN lskills'[q]
         PROVE  Agreed(q, t)'
    <3>1. CASE q = p /\ t = s
      <4>1. \A v \in Writers : Writing(v, q, t)' => v = w  BY <3>1, <2>8, <2>11
      <4> QED  BY <3>1, <4>1, <2>3, <2>5, <2>7, <2>9 DEF Agreed
    <3>2. CASE q = p /\ t # s
      <4>1. \A v \in Writers : ~Writing(v, q, t)' /\ ~Writing(v, q, t)
        BY <3>2, <2>8, <2>9, <2>10, <2>11
      <4> QED  BY <3>2, <4>1, <2>2, <2>7 DEF SkillInv, Agreed
    <3>3. CASE q # p
      <4>1. q \in DOMAIN lskills /\ lskills'[q] = lskills[q]  BY <3>3, <2>7
      <4>2. \A v \in Writers : Writing(v, q, t)' <=> Writing(v, q, t)
        BY <3>3, <2>8, <2>9, <2>10
      <4>3. \A v \in Writers : Writing(v, q, t) => call'[v] = call[v]
        BY <2>5, <2>10
      <4> QED  BY <4>1, <4>2, <4>3, <2>2 DEF SkillInv, Agreed
    <3> QED  BY <3>1, <3>2, <3>3
  <2> QED  BY <2>2, <2>6, <2>12 DEF SkillInv, NodeInv
<1>9. ASSUME NEW w \in Writers, InitNode(w) PROVE AgreeInv'
  <2> DEFINE p == call[w].learner
             s == call[w].skill
             c == [call[w] EXCEPT !.pc = "insert"]
  <2>1. /\ call[w].pc = "node" /\ nodes' = Put(nodes, <<p, s>>, NewValue)
        /\ call' = [call EXCEPT ![w] = c] /\ UNCHANGED lskills
    BY <1>9 DEF InitNode, pgVars
  <2>2. c \in CallType /\ c.pc = "insert" /\ c.learner = p /\ c.value = NewValue /\ call[w].value = NewValue
    BY <1>t, <2>1 DEF CallType, CallInv
  <2> HIDE DEF c
  <2>3. call'[w] = c /\ \A v \in Writers : v # w => call'[v] = call[v]
    BY <2>1 DEF CallInv
  <2>4. CallInv'
    <3>1. call' \in [Writers -> CallType]  BY <2>1, <2>2 DEF CallInv
    <3> QED  BY <2>1, <2>2, <2>3, <3>1 DEF CallInv
  <2>5. /\ DOMAIN nodes' = DOMAIN nodes \cup {<<p, s>>} /\ nodes'[<<p, s>>] = NewValue
        /\ \A n \in DOMAIN nodes : n # <<p, s>> => nodes'[n] = nodes[n]
    BY <2>1 DEF Put
  <2>6. \A q, t : (Writing(w, q, t) <=> q = p /\ t = s) /\ ~Writing(w, q, t)'
    BY <2>1, <2>2, <2>3 DEF Writing
  <2>7. \A v \in Writers : \A q, t : v # w => (Writing(v, q, t)' <=> Writing(v, q, t))
    BY <2>3 DEF Writing
  <2>8. ASSUME NEW q \in DOMAIN lskills', NEW t \in DOMAIN lskills'[q]
         PROVE  Agreed(q, t)'
    <3>1. CASE q = p /\ t = s
      <4>1. lskills[q][t] = NewValue  BY <3>1, <2>1, <2>2, <2>6 DEF SkillInv, Agreed
      <4>2. \A v \in Writers : ~Writing(v, q, t)'
        <5>1. \A v \in Writers : Writing(v, p, t) => v = w  BY <2>1, OnlyWriter
        <5> QED  BY <3>1, <5>1, <2>6, <2>7
      <4> QED  BY <3>1, <4>1, <4>2, <2>1, <2>5 DEF Agreed
    <3>2. CASE ~(q = p /\ t = s)
      <4>1. \A v \in Writers : Writing(v, q, t)' <=> Writing(v, q, t)
        BY <3>2, <2>6, <2>7
      <4>2. \A v \in Writers : Writing(v, q, t) => call'[v] = call[v]
        BY <3>2, <2>3, <2>6
      <4>3. <<q, t>> # <<p, s>>  BY <3>2
      <4> HIDE DEF p, s
      <4> QED  BY <4>1, <4>2, <4>3, <2>1, <2>5 DEF SkillInv, Agreed
    <3> QED  BY <3>1, <3>2
  <2>9. NodeInv'  BY <2>5, NewIsValue DEF NodeInv
  <2> QED  BY <2>4, <2>8, <2>9 DEF SkillInv
<1>10. ASSUME NEW w \in Writers, InitEdges(w) PROVE AgreeInv'
  <2>1. call[w].pc = "insert" /\ call' = [call EXCEPT ![w] = Idle] /\ UNCHANGED <<lskills, nodes>>
    BY <1>10 DEF InitEdges, Leave, pgVars
  <2>2. call'[w] = Idle /\ \A v \in Writers : v # w => call'[v] = call[v]
    BY <2>1 DEF CallInv
  <2>3. CallInv'
    <3>1. Idle \in CallType /\ Idle.pc = "idle"  BY NewIsValue DEF Idle, CallType
    <3>2. call' \in [Writers -> CallType]  BY <2>1, <3>1 DEF CallInv
    <3> QED  BY <2>2, <3>1, <3>2 DEF CallInv
  <2>4. \A v \in Writers : \A q, t :
          (Writing(v, q, t)' <=> Writing(v, q, t)) /\ (Writing(v, q, t) => call'[v] = call[v])
    BY <2>1, <2>2 DEF Writing, Idle
  <2> QED  BY <2>1, <2>3, <2>4 DEF SkillInv, NodeInv, Agreed
<1>11. ASSUME NEW w \in Writers, NEW p \in Profiles, NEW s \in Skills, NEW conf \in Confidences,
              NEW status \in Statuses,
              UpdateSkillConfidence(w, p, s, [conf |-> conf, status |-> status])
       PROVE  AgreeInv'
  <2> DEFINE value == [conf |-> conf, status |-> status]
  <2>0. value \in Value /\ UpdateSkillConfidence(w, p, s, value)
    BY <1>11, StoresAssumption DEF Value
  <2> HIDE DEF value
  <2>1. CASE ~(p \in DOMAIN lskills /\ s \in DOMAIN lskills[p])
    BY <2>0, <2>1, AgreeKept DEF UpdateSkillConfidence, graphVars
  <2>2. CASE p \in DOMAIN lskills /\ s \in DOMAIN lskills[p]
    <3> DEFINE c == [Idle EXCEPT !.pc = "property", !.learner = p, !.skill = s, !.value = value]
    <3>1. /\ lskills' = [lskills EXCEPT ![p][s] = value]
          /\ call[w] = Idle /\ ~Busy(c.learner) /\ call' = [call EXCEPT ![w] = c]
          /\ UNCHANGED nodes
      BY <2>0, <2>2 DEF UpdateSkillConfidence, Enter, graphVars
    <3>2. c \in CallType /\ c.pc = "property" /\ c.learner = p /\ c.skill = s /\ c.value = value
      BY <2>0 DEF Idle, CallType
    <3> HIDE DEF c
    <3>3. call'[w] = c /\ \A v \in Writers : v # w => call'[v] = call[v]
      BY <3>1 DEF CallInv
    <3>4. \A v \in Writers : call[v].learner # p  BY <3>1, <3>2 DEF Busy
    <3>5. CallInv'
      <4>1. call' \in [Writers -> CallType]  BY <3>1, <3>2 DEF CallInv
      <4> QED  BY <3>2, <3>3, <3>4, <4>1 DEF CallInv
    <3>6. /\ DOMAIN lskills' = DOMAIN lskills
          /\ \A q \in DOMAIN lskills : /\ q # p => lskills'[q] = lskills[q]
                                       /\ DOMAIN lskills'[q] = DOMAIN lskills[q]
          /\ lskills'[p][s] = value
          /\ \A t \in DOMAIN lskills[p] : t # s => lskills'[p][t] = lskills[p][t]
      BY <2>2, <3>1
    <3>7. \A v \in Writers : \A t : ~Writing(v, p, t)  BY <3>4 DEF Writing
    <3>8. \A v \in Writers : \A q, t :
            Writing(v, q, t)' <=> (Writing(v, q, t) \/ (v = w /\ q = p /\ t = s))
      BY <3>1, <3>2, <3>3 DEF Writing, Idle
    <3>9. \A v \in Writers : \A q, t : Writing(v, q, t) => call'[v] = call[v]
      BY <3>1, <3>3 DEF Writing, Idle
    <3>10. ASSUME NEW q \in DOMAIN lskills', NEW t \in DOMAIN lskills'[q]
           PROVE  Agreed(q, t)'
      <4>1. CASE q = p /\ t = s
        <5>1. <<p, s>> \in DOMAIN nodes  BY <2>2, <3>7 DEF SkillInv, Agreed
        <5>2. \A v \in Writers : Writing(v, q, t)' <=> v = w  BY <4>1, <3>7, <3>8
        <5> QED  BY <4>1, <5>1, <5>2, <3>1, <3>2, <3>3, <3>6 DEF Agreed
      <4>2. CASE q = p /\ t # s
        <5>1. \A v \in Writers : ~Writing(v, q, t) /\ ~Writing(v, q, t)'  BY <4>2, <3>7, <3>8
        <5> QED  BY <4>2, <5>1, <2>2, <3>1, <3>6 DEF SkillInv, Agreed
      <4>3. CASE q # p
        <5>1. \A v \in Writers : Writing(v, q, t)' <=> Writing(v, q, t)  BY <4>3, <3>8
        <5>2. q \in DOMAIN lskills /\ lskills'[q] = lskills[q]  BY <4>3, <3>6
        <5> QED  BY <5>1, <5>2, <3>1, <3>9 DEF SkillInv, Agreed
      <4> QED  BY <4>1, <4>2, <4>3
    <3> QED  BY <3>1, <3>5, <3>10 DEF SkillInv, NodeInv
  <2> QED  BY <2>1, <2>2
<1>12. ASSUME NEW w \in Writers, UpdateProperty(w) PROVE AgreeInv'
  <2> DEFINE p == call[w].learner
             s == call[w].skill
             n == <<p, s>>
             c == [call[w] EXCEPT !.pc = "status"]
  <2>1. call[w].pc = "property" /\ UNCHANGED lskills  BY <1>12 DEF UpdateProperty, pgVars
  <2>2. \A q, t : Writing(w, q, t) <=> q = p /\ t = s  BY <2>1 DEF Writing
  <2>3. \A v \in Writers : Writing(v, p, s) => v = w  BY <2>1, OnlyWriter
  <2>4. CASE n \in DOMAIN nodes
    <3>1. /\ call' = [call EXCEPT ![w] = c]
          /\ nodes' = [nodes EXCEPT ![n].conf = call[w].value.conf]
      BY <1>12, <2>4 DEF UpdateProperty, NodeOf
    <3>2. c \in CallType /\ c.pc = "status" /\ c.learner = p /\ c.skill = s /\ c.value = call[w].value
      BY <1>t DEF CallType
    <3>3. call[w].value.conf \in Nat  BY <1>t DEF CallType, Value
    <3> HIDE DEF c
    <3>4. call'[w] = c /\ \A v \in Writers : v # w => call'[v] = call[v]
      BY <3>1 DEF CallInv
    <3>5. CallInv'
      <4>1. call' \in [Writers -> CallType]  BY <3>1, <3>2 DEF CallInv
      <4> QED  BY <2>1, <3>2, <3>4, <4>1 DEF CallInv
    <3>6. /\ DOMAIN nodes' = DOMAIN nodes
          /\ \A k \in DOMAIN nodes : k # n => nodes'[k] = nodes[k]
          /\ nodes'[n].conf = call[w].value.conf /\ nodes'[n] \in Value
      <4>1. nodes[n] \in Value  BY <2>4 DEF NodeInv
      <4> HIDE DEF n
      <4> QED  BY <2>4, <3>1, <3>3, <4>1 DEF Value
    <3>7. NodeInv'  BY <3>6 DEF NodeInv
    <3>8. \A v \in Writers : \A q, t : Writing(v, q, t)' <=> Writing(v, q, t)
      BY <2>1, <3>2, <3>4 DEF Writing
    <3>9. ASSUME NEW q \in DOMAIN lskills', NEW t \in DOMAIN lskills'[q]
          PROVE  Agreed(q, t)'
      <4>0. Agreed(q, t)  BY <2>1 DEF SkillInv
      <4>1. CASE q = p /\ t = s
        <5>1. lskills[q][t] = call[w].value  BY <4>0, <4>1, <2>2 DEF Agreed
        <5>2. \A v \in Writers : Writing(v, q, t)' <=> v = w  BY <4>1, <2>2, <2>3, <3>8
        <5> QED  BY <4>1, <5>1, <5>2, <2>1, <2>4, <3>2, <3>4, <3>6 DEF Agreed
      <4>2. CASE ~(q = p /\ t = s)
        <5>1. \A v \in Writers : Writing(v, q, t) => call'[v] = call[v]  BY <4>2, <2>2, <3>4
        <5>2. <<q, t>> # n  BY <4>2
        <5> HIDE DEF p, s, n
        <5> QED  BY <4>0, <5>1, <5>2, <2>1, <3>6, <3>8 DEF Agreed
      <4> QED  BY <4>1, <4>2
    <3> QED  BY <3>5, <3>7, <3>9 DEF SkillInv
  <2>5. CASE n \notin DOMAIN nodes
    <3>1. call' = [call EXCEPT ![w] = Idle] /\ nodes' = nodes
      BY <1>12, <2>5 DEF UpdateProperty, NodeOf, Leave
    <3>2. call'[w] = Idle /\ \A v \in Writers : v # w => call'[v] = call[v]
      BY <3>1 DEF CallInv
    <3>3. CallInv'
      <4>1. Idle \in CallType /\ Idle.pc = "idle"  BY NewIsValue DEF Idle, CallType
      <4>2. call' \in [Writers -> CallType]  BY <3>1, <4>1 DEF CallInv
      <4> QED  BY <3>2, <4>1, <4>2 DEF CallInv
    <3>4. \A v \in Writers : \A q, t : v # w => (Writing(v, q, t)' <=> Writing(v, q, t))
      BY <3>2 DEF Writing
    <3>5. \A q, t : ~Writing(w, q, t)'  BY <3>2 DEF Writing, Idle
    <3>6. ASSUME NEW q \in DOMAIN lskills', NEW t \in DOMAIN lskills'[q]
          PROVE  Agreed(q, t)'
      <4>0. Agreed(q, t)  BY <2>1 DEF SkillInv
      <4>1. ~(q = p /\ t = s)  BY <4>0, <2>1, <2>2, <2>5 DEF Agreed
      <4>2. \A v \in Writers : Writing(v, q, t)' <=> Writing(v, q, t)
        BY <4>1, <2>2, <3>4, <3>5
      <4>3. \A v \in Writers : Writing(v, q, t) => call'[v] = call[v]  BY <4>1, <2>2, <3>2
      <4> QED  BY <4>0, <4>2, <4>3, <2>1, <3>1 DEF Agreed
    <3> QED  BY <3>1, <3>3, <3>6 DEF SkillInv, NodeInv
  <2> QED  BY <2>4, <2>5
<1>13. ASSUME NEW w \in Writers, UpdateStatus(w) PROVE AgreeInv'
  <2> DEFINE p == call[w].learner
             s == call[w].skill
             n == <<p, s>>
  <2>1. /\ call[w].pc = "status" /\ call' = [call EXCEPT ![w] = Idle] /\ UNCHANGED lskills
        /\ nodes' = IF n \in DOMAIN nodes
                    THEN [nodes EXCEPT ![n].status = call[w].value.status] ELSE nodes
    BY <1>13 DEF UpdateStatus, Leave, NodeOf, pgVars
  <2>2. call'[w] = Idle /\ \A v \in Writers : v # w => call'[v] = call[v]
    BY <2>1 DEF CallInv
  <2>3. CallInv'
    <3>1. Idle \in CallType /\ Idle.pc = "idle"  BY NewIsValue DEF Idle, CallType
    <3>2. call' \in [Writers -> CallType]  BY <2>1, <3>1 DEF CallInv
    <3> QED  BY <2>2, <3>1, <3>2 DEF CallInv
  <2>4. /\ DOMAIN nodes' = DOMAIN nodes
        /\ \A k \in DOMAIN nodes : k # n => nodes'[k] = nodes[k]
        /\ n \in DOMAIN nodes => /\ nodes'[n] \in Value
                                 /\ nodes'[n].conf = nodes[n].conf
                                 /\ nodes'[n].status = call[w].value.status
    <3>1. call[w].value \in Value  BY <1>t DEF CallType
    <3>2. call[w].value.status \in Statuses \cup {"new"}  BY <3>1 DEF Value
    <3> HIDE DEF n
    <3> QED  BY <2>1, <3>2 DEF NodeInv, Value
  <2>5. NodeInv'  BY <2>4 DEF NodeInv
  <2>6. \A q, t : (Writing(w, q, t) <=> q = p /\ t = s) /\ ~Writing(w, q, t)'
    BY <2>1, <2>2 DEF Writing, Idle
  <2>7. \A v \in Writers : \A q, t : v # w => (Writing(v, q, t)' <=> Writing(v, q, t))
    BY <2>2 DEF Writing
  <2>8. ASSUME NEW q \in DOMAIN lskills', NEW t \in DOMAIN lskills'[q]
        PROVE  Agreed(q, t)'
    <3>0. Agreed(q, t)  BY <2>1 DEF SkillInv
    <3>1. CASE q = p /\ t = s
      <4>1. /\ lskills[q][t] = call[w].value /\ n \in DOMAIN nodes
            /\ nodes[n].conf = call[w].value.conf
        BY <3>0, <3>1, <2>1, <2>6 DEF Agreed
      <4>2. nodes'[n] = call[w].value
        <5>1. call[w].value \in Value  BY <1>t DEF CallType
        <5> HIDE DEF n
        <5> QED  BY <4>1, <5>1, <2>4 DEF Value
      <4>3. \A v \in Writers : ~Writing(v, q, t)'
        <5>1. \A v \in Writers : Writing(v, p, s) => v = w  BY <2>1, OnlyWriter
        <5> QED  BY <3>1, <5>1, <2>6, <2>7
      <4> QED  BY <3>1, <4>1, <4>2, <4>3, <2>1, <2>4 DEF Agreed
    <3>2. CASE ~(q = p /\ t = s)
      <4>1. \A v \in Writers : Writing(v, q, t)' <=> Writing(v, q, t)
        BY <3>2, <2>6, <2>7
      <4>2. \A v \in Writers : Writing(v, q, t) => call'[v] = call[v]
        BY <3>2, <2>2, <2>6
      <4>3. <<q, t>> # n  BY <3>2
      <4> HIDE DEF p, s, n
      <4> QED  BY <3>0, <4>1, <4>2, <4>3, <2>1, <2>4 DEF Agreed
    <3> QED  BY <3>1, <3>2
  <2> QED  BY <2>3, <2>5, <2>8 DEF SkillInv
<1>14. CASE UNCHANGED vars
  BY <1>14, AgreeKept DEF vars
<1> QED  BY <1>1, <1>2, <1>3, <1>4, <1>5, <1>6, <1>7, <1>8, <1>9, <1>10, <1>11, <1>12, <1>13,
            <1>14
         DEF Next

\* One call per learner at a time keeps the two stores in agreement, for any
\* number of goroutines, learners and skills and with deletions in between.
THEOREM StoresStayEqual == ~Overlap /\ Spec => []StoresAgree
<1>1. AgreeInv => StoresAgree
  BY DEF AgreeInv, SkillInv, Agreed, StoresAgree, Busy, Writing
<1> SUFFICES ASSUME ~Overlap PROVE Spec => []StoresAgree  OBVIOUS
<1>2. AgreeInv /\ [Next]_vars => AgreeInv'  BY AgreeStep
<1> QED  BY <1>1, <1>2, AgreeInit, PTL DEF Spec

----------------------------------------------------------------------------
(* FindPath *)

\* A set of numbers that has 0 and is closed under successor has them all.
LEMMA SetInduction ==
    ASSUME NEW S, 0 \in S, \A n \in Nat : n \in S => n + 1 \in S
    PROVE  Nat \subseteq S
<1> DEFINE R == {ss \in Nat \X Nat : ss[1] < ss[2]}
           T == Nat \ S
<1> SUFFICES ASSUME T # {} PROVE FALSE  OBVIOUS
<1>1. \E x \in T : \A y \in T : ~ (<<y, x>> \in R)
  <2>1. IsWellFoundedOn(R, Nat)  BY NatLessThanWellFounded DEF OpToRel
  <2> HIDE DEF R, T
  <2>2. T \subseteq Nat  BY DEF T
  <2> QED  BY <2>1, <2>2, WFMin
<1>2. \A x, y \in Nat : y < x => <<y, x>> \in R  OBVIOUS
<1>3. PICK x \in T : \A y \in T : ~(y < x)  BY <1>1, <1>2
<1>4. x # 0 /\ x - 1 \in Nat /\ x - 1 \in S /\ x - 1 < x  BY <1>3
<1> QED  BY <1>4

\* The same up to a bound.
LEMMA BoundedInduction ==
    ASSUME NEW n \in Nat, NEW S, 0 \in S, \A k \in 1..n : k - 1 \in S => k \in S
    PROVE  0..n \subseteq S
<1> DEFINE T == {k \in Nat : k <= n => k \in S}
<1>1. 0 \in T  OBVIOUS
<1>2. \A k \in Nat : k \in T => k + 1 \in T
  <2> SUFFICES ASSUME NEW k \in Nat, k \in T, k + 1 <= n PROVE k + 1 \in S  OBVIOUS
  <2>1. k \in S  OBVIOUS
  <2>2. k + 1 \in 1..n /\ (k + 1) - 1 = k  OBVIOUS
  <2> QED  BY <2>1, <2>2
<1> HIDE DEF T
<1>3. Nat \subseteq T  BY <1>1, <1>2, SetInduction
<1> QED  BY <1>3 DEF T

\* The graph's nodes are finitely many and its edges join them.
Node  == DOMAIN nodes
Graph == IsFiniteSet(Node) /\ edges \in Seq(Node \X Node)

\* One step of VisitSteps and of BackSteps.
Follow(st, seen, k) ==
    IF edges[k][1] = Head(st.queue) THEN Visit(seen, edges[k][2]) ELSE seen
Back(b, parent, from) == IF Head(b) = from THEN b ELSE <<parent[Head(b)]>> \o b

\* VisitSteps obeys its recursion.
LEMMA VisitStepsRec ==
    ASSUME NEW st, Len(edges) \in Nat
    PROVE  /\ VisitSteps(st)[0] = st
           /\ \A i \in 1..Len(edges) : VisitSteps(st)[i] = Follow(st, VisitSteps(st)[i - 1], i)
<1> DEFINE size == Len(edges)
           start == st
           P(h, m) == h = [i \in 0..m |-> IF i = 0 THEN start ELSE Follow(st, h[i - 1], i)]
           S == {m \in Nat : \E h : P(h, m)}
<1> HIDE DEF start
<1>1. 0 \in S
  <2>1. P([i \in 0..0 |-> start], 0)  OBVIOUS
  <2> QED  BY <2>1
<1>2. \A m \in Nat : m \in S => m + 1 \in S
  <2> SUFFICES ASSUME NEW m \in Nat, m \in S PROVE m + 1 \in S  OBVIOUS
  <2>1. PICK h : P(h, m)  OBVIOUS
  <2> DEFINE g == [i \in 0..(m + 1) |->
                      IF i = m + 1 THEN Follow(st, h[m], m + 1) ELSE h[i]]
  <2>2. P(g, m + 1)  BY <2>1
  <2> HIDE DEF P
  <2> QED  BY <2>2
<1>3. size \in S
  <2> HIDE DEF S
  <2> QED  BY <1>1, <1>2, SetInduction
<1>4. P(VisitSteps(st), size)
  <2>1. PICK h : P(h, size)  BY <1>3
  <2> QED  BY <2>1 DEF VisitSteps, Follow, start
<1>5. /\ VisitSteps(st)[0] = start
      /\ \A i \in 1..size : VisitSteps(st)[i] = Follow(st, VisitSteps(st)[i - 1], i)
  BY <1>4
<1> QED  BY <1>5 DEF start

\* SearchSteps obeys its recursion.
LEMMA SearchStepsRec ==
    ASSUME NEW from, NEW to, Rounds \in Nat
    PROVE  /\ SearchSteps(from, to)[0] = [queue |-> <<from>>, parent |-> [n \in {from} |-> from]]
           /\ \A i \in 1..Rounds : SearchSteps(from, to)[i] = Take(SearchSteps(from, to)[i - 1], to)
<1> DEFINE size == Rounds
           start == [queue |-> <<from>>, parent |-> [n \in {from} |-> from]]
           P(h, m) == h = [i \in 0..m |-> IF i = 0 THEN start ELSE Take(h[i - 1], to)]
           S == {m \in Nat : \E h : P(h, m)}
<1> HIDE DEF start
<1>1. 0 \in S
  <2>1. P([i \in 0..0 |-> start], 0)  OBVIOUS
  <2> QED  BY <2>1
<1>2. \A m \in Nat : m \in S => m + 1 \in S
  <2> SUFFICES ASSUME NEW m \in Nat, m \in S PROVE m + 1 \in S  OBVIOUS
  <2>1. PICK h : P(h, m)  OBVIOUS
  <2> DEFINE g == [i \in 0..(m + 1) |->
                      IF i = m + 1 THEN Take(h[m], to) ELSE h[i]]
  <2>2. P(g, m + 1)  BY <2>1
  <2> HIDE DEF P
  <2> QED  BY <2>2
<1>3. size \in S
  <2> HIDE DEF S
  <2> QED  BY <1>1, <1>2, SetInduction
<1>4. P(SearchSteps(from, to), size)
  <2>1. PICK h : P(h, size)  BY <1>3
  <2> QED  BY <2>1 DEF SearchSteps, start
<1>5. /\ SearchSteps(from, to)[0] = start
      /\ \A i \in 1..size : SearchSteps(from, to)[i] = Take(SearchSteps(from, to)[i - 1], to)
  BY <1>4
<1> QED  BY <1>5 DEF start

\* BackSteps obeys its recursion.
LEMMA BackStepsRec ==
    ASSUME NEW parent, NEW from, NEW to, Rounds \in Nat
    PROVE  /\ BackSteps(parent, from, to)[0] = <<to>>
           /\ \A i \in 1..Rounds :
                  BackSteps(parent, from, to)[i] = Back(BackSteps(parent, from, to)[i - 1], parent, from)
<1> DEFINE size == Rounds
           start == <<to>>
           P(h, m) == h = [i \in 0..m |-> IF i = 0 THEN start ELSE Back(h[i - 1], parent, from)]
           S == {m \in Nat : \E h : P(h, m)}
<1> HIDE DEF start
<1>1. 0 \in S
  <2>1. P([i \in 0..0 |-> start], 0)  OBVIOUS
  <2> QED  BY <2>1
<1>2. \A m \in Nat : m \in S => m + 1 \in S
  <2> SUFFICES ASSUME NEW m \in Nat, m \in S PROVE m + 1 \in S  OBVIOUS
  <2>1. PICK h : P(h, m)  OBVIOUS
  <2> DEFINE g == [i \in 0..(m + 1) |->
                      IF i = m + 1 THEN Back(h[m], parent, from) ELSE h[i]]
  <2>2. P(g, m + 1)  BY <2>1
  <2> HIDE DEF P
  <2> QED  BY <2>2
<1>3. size \in S
  <2> HIDE DEF S
  <2> QED  BY <1>1, <1>2, SetInduction
<1>4. P(BackSteps(parent, from, to), size)
  <2>1. PICK h : P(h, size)  BY <1>3
  <2> QED  BY <2>1 DEF BackSteps, Back, start
<1>5. /\ BackSteps(parent, from, to)[0] = start
      /\ \A i \in 1..size :
            BackSteps(parent, from, to)[i] = Back(BackSteps(parent, from, to)[i - 1], parent, from)
  BY <1>4
<1> QED  BY <1>5 DEF start

\* An edge leads from m to n; a set that no edge leaves.
Leads(m, n)  == \E k \in 1..Len(edges) : edges[k][1] = m /\ edges[k][2] = n
ClosedSet(S) == \A m \in S, n \in Node : Leads(m, n) => n \in S

\* A search from a node has a queue without repetitions, of visited nodes; all
\* visited nodes but the first have been reached along an edge, so they lie in every
\* closed set the first lies in; and the parents lead back to it, which the order
\* of visits numbers.
SearchType(from, st) ==
    /\ st = [queue |-> st.queue, parent |-> st.parent]
    /\ st.queue \in Seq(DOMAIN st.parent)
    /\ st.parent = [n \in DOMAIN st.parent |-> st.parent[n]]
    /\ DOMAIN st.parent \subseteq Node
    /\ \A i, j \in 1..Len(st.queue) : st.queue[i] = st.queue[j] => i = j
Parents(from, st) ==
    /\ from \in DOMAIN st.parent
    /\ \A n \in DOMAIN st.parent \ {from} :
         st.parent[n] \in DOMAIN st.parent /\ Leads(st.parent[n], n)
Order(from, st) ==
    \E rank \in [DOMAIN st.parent -> Nat] :
        \A n \in DOMAIN st.parent :
            /\ rank[n] < Cardinality(DOMAIN st.parent)
            /\ n # from => rank[st.parent[n]] < rank[n]
Confined(from, st) ==
    \A S \in SUBSET Node : from \in S /\ ClosedSet(S) => DOMAIN st.parent \subseteq S

Tree(from, st) ==
    SearchType(from, st) /\ Parents(from, st) /\ Order(from, st) /\ Confined(from, st)

\* The nodes that were taken from the queue.
Finished(st) == DOMAIN st.parent \ Range(st.queue)

\* The beginning of a search.
Start(from) == [queue |-> <<from>>, parent |-> [n \in {from} |-> from]]

LEMMA StartIs ==
    ASSUME Graph, NEW from \in Node
    PROVE  Tree(from, Start(from)) /\ Finished(Start(from)) = {}
<1> DEFINE st == Start(from)
           one == <<from>>
           par == [n \in {from} |-> from]
<1>1. st = [queue |-> one, parent |-> par] /\ st.queue = one /\ st.parent = par  BY DEF Start
<1>2. one \in Seq({from}) /\ Len(one) = 1 /\ one[1] = from /\ DOMAIN one = 1..1
  OBVIOUS
<1>3. DOMAIN par = {from} /\ par = [n \in {from} |-> par[n]] /\ par[from] = from  OBVIOUS
<1>4. Range(one) = {from}  BY <1>2 DEF Range
<1> HIDE DEF one, par, st
<1>5. SearchType(from, st)  BY <1>1, <1>2, <1>3 DEF SearchType
<1>6. Parents(from, st)  BY <1>1, <1>3 DEF Parents
<1>7. Order(from, st)
  <2> DEFINE rank == [n \in {from} |-> 0]
  <2>1. rank \in [DOMAIN st.parent -> Nat] /\ rank[from] = 0  BY <1>1, <1>3
  <2>2. Cardinality(DOMAIN st.parent) = 1  BY <1>1, <1>3, FS_Singleton
  <2> HIDE DEF rank
  <2> QED  BY <2>1, <2>2, <1>1, <1>3 DEF Order
<1>8. Confined(from, st)  BY <1>1, <1>3 DEF Confined
<1>9. Finished(st) = {}  BY <1>1, <1>3, <1>4 DEF Finished
<1> QED  BY <1>5, <1>6, <1>7, <1>8, <1>9 DEF Tree, st

\* Visiting a neighbour of the head for the first time.
LEMMA VisitNew ==
    ASSUME Graph, NEW from \in Node, NEW st, Tree(from, st), st.queue # << >>,
           NEW m \in Node, Leads(Head(st.queue), m), m \notin DOMAIN st.parent
    PROVE  /\ Visit(st, m).queue = Append(st.queue, m)
           /\ DOMAIN Visit(st, m).parent = DOMAIN st.parent \cup {m}
           /\ Visit(st, m).parent[m] = Head(st.queue)
           /\ \A n \in DOMAIN st.parent : Visit(st, m).parent[n] = st.parent[n]
           /\ Tree(from, Visit(st, m))
<1> DEFINE q == st.queue
           par == st.parent
           h == Head(q)
           D == DOMAIN par
           new == Visit(st, m)
           p2 == Put(par, m, h)
           q2 == Append(q, m)
<1>1. new = [queue |-> q2, parent |-> p2]
  BY DEF Tree, SearchType, Visit
<1>2. new.queue = q2 /\ new.parent = p2  BY <1>1
<1>3. DOMAIN p2 = D \cup {m} /\ p2[m] = h /\ p2 = [n \in D \cup {m} |-> p2[n]]
      /\ \A n \in D : p2[n] = par[n]
  BY DEF Put
<1>4. q \in Seq(D) /\ q # << >> /\ D \subseteq Node
      /\ \A i, j \in 1..Len(q) : q[i] = q[j] => i = j
  BY DEF Tree, SearchType
<1>5. h \in D /\ h = q[1] /\ Len(q) \in Nat \ {0}
  <2> HIDE DEF D, q
  <2> QED  BY <1>4
<1>6. q2 \in Seq(D \cup {m}) /\ Len(q2) = Len(q) + 1 /\ q2[Len(q) + 1] = m
      /\ \A i \in 1..Len(q) : q2[i] = q[i]
  <2> DEFINE T == D \cup {m}
  <2>1. q \in Seq(T) /\ m \in T  BY <1>4
  <2> HIDE DEF q, T
  <2>2. q2 \in Seq(T) /\ Len(q2) = Len(q) + 1 /\ q2[Len(q) + 1] = m
        /\ \A i \in 1..Len(q) : q2[i] = q[i]
    BY <2>1, AppendProperties
  <2> QED  BY <2>2 DEF T
<1>7. Leads(h, m) /\ m \notin D /\ from \in D
  BY DEF Tree, Parents
<1>8. \A n \in D \ {from} : par[n] \in D /\ Leads(par[n], n)  BY DEF Tree, Parents
<1>9. \A S \in SUBSET Node : from \in S /\ ClosedSet(S) => D \subseteq S  BY DEF Tree, Confined
<1>10. PICK rank \in [D -> Nat] :
         \A n \in D : rank[n] < Cardinality(D) /\ (n # from => rank[par[n]] < rank[n])
  BY DEF Tree, Order
<1>11. IsFiniteSet(D) /\ Cardinality(D) \in Nat
  BY <1>4, FS_Subset, FS_CardinalityType DEF Graph
<1>12. Cardinality(D \cup {m}) = Cardinality(D) + 1  BY <1>7, <1>11, FS_AddElement
<1> HIDE DEF q, par, h, D, new, p2, q2
<1>13. SearchType(from, new)
  <2>1. \A i \in 1..Len(q) : q[i] \in D  BY <1>4
  <2>2. \A i, j \in 1..Len(q2) : q2[i] = q2[j] => i = j
    <3> SUFFICES ASSUME NEW i \in 1..Len(q2), NEW j \in 1..Len(q2), q2[i] = q2[j] PROVE i = j
      OBVIOUS
    <3>1. i \in 1..Len(q) \/ i = Len(q) + 1  BY <1>5, <1>6
    <3>2. j \in 1..Len(q) \/ j = Len(q) + 1  BY <1>5, <1>6
    <3>3. \A k \in 1..Len(q) : q2[k] # m  BY <2>1, <1>6, <1>7
    <3> QED  BY <3>1, <3>2, <3>3, <1>4, <1>6
  <2>3. D \cup {m} \subseteq Node  BY <1>4
  <2> QED  BY <1>1, <1>2, <1>3, <1>6, <2>2, <2>3 DEF SearchType
<1>14. Parents(from, new)
  BY <1>2, <1>3, <1>5, <1>7, <1>8 DEF Parents
<1>15. Order(from, new)
  <2> DEFINE rank2 == [n \in D \cup {m} |-> IF n = m THEN Cardinality(D) ELSE rank[n]]
  <2>1. rank2 \in [D \cup {m} -> Nat] /\ rank2[m] = Cardinality(D)
        /\ \A n \in D : rank2[n] = rank[n]
    BY <1>7, <1>11
  <2> HIDE DEF rank2
  <2>2. ASSUME NEW n \in D \cup {m}
        PROVE  rank2[n] < Cardinality(D) + 1 /\ (n # from => rank2[p2[n]] < rank2[n])
    <3>1. CASE n = m  BY <3>1, <2>1, <1>3, <1>5, <1>10, <1>11
    <3>2. CASE n \in D
      <4>1. rank[n] \in Nat /\ rank[n] < Cardinality(D)  BY <3>2, <1>10
      <4>2. n # from => par[n] \in D /\ rank[par[n]] < rank[n]  BY <3>2, <1>8, <1>10
      <4> QED  BY <4>1, <4>2, <3>2, <2>1, <1>3, <1>11
    <3> QED  BY <3>1, <3>2
  <2> QED  BY <2>1, <2>2, <1>2, <1>3, <1>12, ZenonT(30) DEF Order
<1>16. Confined(from, new)
  <2> SUFFICES ASSUME NEW S \in SUBSET Node, from \in S, ClosedSet(S)
               PROVE  D \cup {m} \subseteq S
    BY <1>2, <1>3 DEF Confined
  <2>1. D \subseteq S  BY <1>9
  <2>2. m \in S  BY <2>1, <1>5, <1>7 DEF ClosedSet
  <2> QED  BY <2>1, <2>2
<1>17. Tree(from, new)  BY <1>13, <1>14, <1>15, <1>16 DEF Tree
<1> QED  BY <1>2, <1>3, <1>17 DEF q, par, h, D, new, p2, q2

\* After visiting some of the head's neighbours: what there was is still there,
\* what is new is in the queue and has the head for a parent.
Grown(from, st, seen) ==
    /\ Tree(from, seen)
    /\ Len(st.queue) <= Len(seen.queue)
    /\ \A i \in 1..Len(st.queue) : seen.queue[i] = st.queue[i]
    /\ DOMAIN st.parent \subseteq DOMAIN seen.parent
    /\ \A n \in DOMAIN st.parent : seen.parent[n] = st.parent[n]
    /\ \A n \in DOMAIN seen.parent \ DOMAIN st.parent :
         seen.parent[n] = Head(st.queue) /\ n \in Range(seen.queue)
    /\ \A i \in 1..Len(seen.queue) :
         i <= Len(st.queue) \/ seen.queue[i] \notin DOMAIN st.parent

LEMMA GrownStart ==
    ASSUME NEW from, NEW st, Tree(from, st)
    PROVE  Grown(from, st, st)
<1>1. st.queue \in Seq(DOMAIN st.parent)  BY DEF Tree, SearchType
<1>2. Len(st.queue) \in Nat  BY <1>1
<1> QED  BY <1>2 DEF Grown

LEMMA GrownStep ==
    ASSUME Graph, NEW from \in Node, NEW st, Tree(from, st), st.queue # << >>,
           NEW seen, Grown(from, st, seen), NEW k \in 1..Len(edges)
    PROVE  /\ Grown(from, st, Follow(st, seen, k))
           /\ DOMAIN seen.parent \subseteq DOMAIN Follow(st, seen, k).parent
           /\ edges[k][1] = Head(st.queue) => edges[k][2] \in DOMAIN Follow(st, seen, k).parent
<1> DEFINE m == edges[k][2]
           q == st.queue
           r == seen.queue
           D == DOMAIN st.parent
           E == DOMAIN seen.parent
<1>1. CASE edges[k][1] # Head(q)
  BY <1>1 DEF Follow
<1>2. CASE edges[k][1] = Head(q) /\ m \in E
  BY <1>2 DEF Follow, Visit
<1>3. CASE edges[k][1] = Head(q) /\ m \notin E
  <2> DEFINE new == Visit(seen, m)
  <2>1. Follow(st, seen, k) = new  BY <1>3 DEF Follow
  <2>2. m \in Node /\ Leads(Head(q), m)  BY <1>3 DEF Graph, Leads
  <2>3. q \in Seq(D) /\ r \in Seq(E) /\ q # << >>  BY DEF Grown, Tree, SearchType
  <2>4. Len(q) <= Len(r) /\ \A i \in 1..Len(q) : r[i] = q[i]  BY DEF Grown
  <2>5. Len(q) \in Nat \ {0} /\ Len(r) \in Nat \ {0} /\ r # << >> /\ Head(r) = Head(q)
        /\ Head(q) = q[1] /\ \A i \in 1..Len(r) : r[i] \in E
    <3> HIDE DEF q, r, D, E
    <3>1. Len(q) \in Nat \ {0} /\ Len(r) \in Nat  BY <2>3
    <3>2. Len(r) # 0 /\ r # << >>  BY <3>1, <2>4
    <3>3. Head(q) = q[1] /\ Head(r) = r[1]  BY <2>3, <3>2
    <3> QED  BY <3>1, <3>2, <3>3, <2>3, <2>4
  <2>6. Tree(from, seen)  BY DEF Grown
  <2>7. /\ new.queue = Append(r, m) /\ DOMAIN new.parent = E \cup {m}
        /\ new.parent[m] = Head(q) /\ \A n \in E : new.parent[n] = seen.parent[n]
        /\ Tree(from, new)
    BY <1>3, <2>2, <2>5, <2>6, VisitNew
  <2> DEFINE u == Append(r, m)
  <2>8. Len(u) = Len(r) + 1 /\ DOMAIN u = 1..(Len(r) + 1) /\ u[Len(r) + 1] = m
        /\ \A i \in 1..Len(r) : u[i] = r[i]
    <3> DEFINE T == E \cup {m}
    <3>1. r \in Seq(T) /\ m \in T  BY <2>3
    <3> HIDE DEF r, T
    <3> QED  BY <3>1, AppendProperties
  <2>9. /\ D \subseteq E /\ \A n \in D : seen.parent[n] = st.parent[n]
        /\ \A n \in E \ D : seen.parent[n] = Head(q) /\ n \in Range(r)
        /\ \A i \in 1..Len(r) : i <= Len(q) \/ r[i] \notin D
    BY DEF Grown
  <2>10. Range(r) \subseteq Range(u) /\ m \in Range(u)
    <3>1. DOMAIN r = 1..Len(r)  BY <2>3
    <3>2. \A i \in 1..Len(r) : i \in 1..(Len(r) + 1)  BY <2>5
    <3>3. Len(r) + 1 \in 1..(Len(r) + 1)  BY <2>5
    <3> HIDE DEF u, r
    <3> QED  BY <3>1, <3>2, <3>3, <2>8 DEF Range
  <2>11. new.queue = u  BY <2>7
  <2> HIDE DEF m, q, r, D, E, new, u
  <2>12. Len(q) <= Len(u) /\ \A i \in 1..Len(q) : u[i] = q[i]
    BY <2>4, <2>5, <2>8
  <2>13. \A i \in 1..Len(u) : i <= Len(q) \/ u[i] \notin D
    <3> SUFFICES ASSUME NEW i \in 1..Len(u), i > Len(q) PROVE u[i] \notin D
      BY <2>5, <2>8
    <3>1. CASE i \in 1..Len(r)  BY <3>1, <2>5, <2>8, <2>9
    <3>2. CASE i = Len(r) + 1  BY <3>2, <1>3, <2>8, <2>9
    <3> QED  BY <3>1, <3>2, <2>5, <2>8
  <2>14. \A n \in (E \cup {m}) \ D : new.parent[n] = Head(q) /\ n \in Range(u)
    BY <2>7, <2>9, <2>10
  <2>15. \A n \in D : new.parent[n] = st.parent[n]
    BY <2>7, <2>9
  <2>16. Grown(from, st, new)
    BY <2>7, <2>9, <2>11, <2>12, <2>13, <2>14, <2>15 DEF Grown, q, D
  <2> QED  BY <2>1, <2>7, <2>16 DEF E, m
<1> QED  BY <1>1, <1>2, <1>3

\* All of the head's neighbours are visited.
LEMMA VisitStepsGrow ==
    ASSUME Graph, NEW from \in Node, NEW st, Tree(from, st), st.queue # << >>
    PROVE  /\ Grown(from, st, VisitSteps(st)[Len(edges)])
           /\ \A n \in Node : Leads(Head(st.queue), n) =>
                 n \in DOMAIN VisitSteps(st)[Len(edges)].parent
<1> DEFINE size == Len(edges)
           v == VisitSteps(st)
           Good(k) == /\ Grown(from, st, v[k])
                      /\ \A j \in 1..size : j <= k /\ edges[j][1] = Head(st.queue) =>
                             edges[j][2] \in DOMAIN v[k].parent
           S == {k \in 0..size : Good(k)}
<1>1. size \in Nat  BY DEF Graph
<1>2. v[0] = st /\ \A i \in 1..size : v[i] = Follow(st, v[i - 1], i)  BY <1>1, VisitStepsRec
<1> HIDE DEF size, v
<1>3. 0 \in S
  <2>1. Grown(from, st, v[0])  BY <1>2, GrownStart
  <2> QED  BY <2>1, <1>1
<1>4. ASSUME NEW k \in 1..size, k - 1 \in S PROVE k \in S
  <2>1. Good(k - 1)  BY <1>4
  <2>2. /\ Grown(from, st, v[k])
        /\ DOMAIN v[k - 1].parent \subseteq DOMAIN v[k].parent
        /\ edges[k][1] = Head(st.queue) => edges[k][2] \in DOMAIN v[k].parent
    <3>1. Grown(from, st, v[k - 1])  BY <2>1
    <3>2. k \in 1..Len(edges)  BY DEF size
    <3> QED  BY <3>1, <3>2, <1>2, GrownStep
  <2>3. \A j \in 1..size : j <= k => j = k \/ j <= k - 1  BY <1>1
  <2> QED  BY <2>1, <2>2, <2>3, <1>1
<1> HIDE DEF S
<1>5. size \in S
  <2>1. 0..size \subseteq S  BY <1>1, <1>3, <1>4, BoundedInduction
  <2> QED  BY <2>1, <1>1
<1>6. Good(size)  BY <1>5 DEF S
<1>7. ASSUME NEW n \in Node, Leads(Head(st.queue), n) PROVE n \in DOMAIN v[size].parent
  <2>1. PICK k \in 1..size : edges[k][1] = Head(st.queue) /\ edges[k][2] = n
    BY <1>7 DEF Leads, size
  <2> QED  BY <2>1, <1>1, <1>6
<1> QED  BY <1>6, <1>7 DEF size, v

\* The head is taken and its neighbours are visited.
LEMMA TakeIs ==
    ASSUME Graph, NEW from \in Node, NEW to, NEW st, Tree(from, st),
           st.queue # << >>, Head(st.queue) # to
    PROVE  /\ Tree(from, Take(st, to))
           /\ Head(st.queue) \in DOMAIN st.parent \ Finished(st)
           /\ Finished(Take(st, to)) = Finished(st) \cup {Head(st.queue)}
           /\ DOMAIN st.parent \subseteq DOMAIN Take(st, to).parent
           /\ \A n \in DOMAIN st.parent : Take(st, to).parent[n] = st.parent[n]
           /\ \A n \in DOMAIN Take(st, to).parent \ DOMAIN st.parent :
                 Take(st, to).parent[n] = Head(st.queue)
           /\ \A n \in Node : Leads(Head(st.queue), n) => n \in DOMAIN Take(st, to).parent
<1> DEFINE v == VisitSteps(st)[Len(edges)]
           q == st.queue
           r == v.queue
           D == DOMAIN st.parent
           E == DOMAIN v.parent
           new == Take(st, to)
           u == Tail(r)
           h == Head(q)
<1>1. Grown(from, st, v) /\ \A n \in Node : Leads(h, n) => n \in E
  BY VisitStepsGrow
<1>2. Tree(from, v)  BY <1>1 DEF Grown
<1>3. SearchType(from, st) /\ SearchType(from, v)  BY <1>2 DEF Tree
<1>4. new = [queue |-> u, parent |-> v.parent]
  BY <1>3 DEF Take, SearchType
<1>5. new.queue = u /\ new.parent = v.parent  BY <1>4
<1>6. q \in Seq(D) /\ r \in Seq(E) /\ E \subseteq Node
      /\ (\A i, j \in 1..Len(q) : q[i] = q[j] => i = j)
      /\ (\A i, j \in 1..Len(r) : r[i] = r[j] => i = j)
      /\ v.parent = [n \in E |-> v.parent[n]]
  BY <1>3 DEF SearchType
<1>7. /\ Len(q) <= Len(r) /\ (\A i \in 1..Len(q) : r[i] = q[i])
      /\ D \subseteq E /\ (\A n \in D : v.parent[n] = st.parent[n])
      /\ (\A n \in E \ D : v.parent[n] = h /\ n \in Range(r))
      /\ (\A i \in 1..Len(r) : i <= Len(q) \/ r[i] \notin D)
  BY <1>1 DEF Grown
<1>8. q # << >>  OBVIOUS
<1> DEFINE k == Len(q)
           l == Len(r)
<1>9. k \in Nat \ {0} /\ l \in Nat \ {0} /\ h = q[1] /\ r # << >> /\ h = r[1] /\ h \in D
  <2> HIDE DEF D, E, q, r, h
  <2>1. k \in Nat \ {0} /\ l \in Nat  BY <1>6, <1>8
  <2>2. l # 0 /\ r # << >>  BY <2>1, <1>7
  <2>3. h = q[1]  BY <1>6, <1>8 DEF h
  <2> QED  BY <2>1, <2>2, <2>3, <1>6, <1>7
<1>10. u \in Seq(E) /\ Len(u) = l - 1 /\ \A i \in 1..(l - 1) : u[i] = r[i + 1]
  <2> HIDE DEF E, r
  <2> QED  BY <1>6, <1>9
<1>11. DOMAIN q = 1..k /\ DOMAIN r = 1..l /\ DOMAIN u = 1..(l - 1)
  <2> HIDE DEF D, E, q, r, u
  <2> QED  BY <1>6, <1>10
<1> HIDE DEF v, q, r, D, E, new, u, h, k, l
<1>12. SearchType(from, new)
  <2>1. \A i, j \in 1..Len(u) : u[i] = u[j] => i = j
    <3> SUFFICES ASSUME NEW i \in 1..(l - 1), NEW j \in 1..(l - 1), u[i] = u[j] PROVE i = j
      BY <1>10
    <3>1. i + 1 \in 1..l /\ j + 1 \in 1..l  BY <1>9
    <3>2. r[i + 1] = r[j + 1]  BY <1>10
    <3>3. i + 1 = j + 1  BY <3>1, <3>2, <1>6 DEF l
    <3> QED  BY <3>3
  <2> QED  BY <2>1, <1>4, <1>5, <1>6, <1>10 DEF SearchType, E
<1>13. Tree(from, new)
  BY <1>2, <1>5, <1>12 DEF Tree, Parents, Order, Confined
<1>14. h \in D \ Finished(st)
  <2>1. 1 \in DOMAIN q /\ q[1] = h  BY <1>9, <1>11
  <2>2. h \in Range(q)  BY <2>1 DEF Range
  <2> QED  BY <2>2, <1>9 DEF Finished, q, D
<1>15. Finished(new) = Finished(st) \cup {h}
  <2>1. Finished(new) = E \ Range(u)  BY <1>5 DEF Finished, E
  <2>2. Finished(st) = D \ Range(q)  BY DEF Finished, D, q
  <2>3. h \in E \ Range(u)
    <3>1. \A i \in 1..(l - 1) : u[i] # h
      <4> SUFFICES ASSUME NEW i \in 1..(l - 1), u[i] = h PROVE FALSE  OBVIOUS
      <4>1. r[i + 1] = r[1] /\ i + 1 \in 1..l /\ 1 \in 1..l  BY <1>9, <1>10
      <4>2. i + 1 = 1  BY <4>1, <1>6 DEF l
      <4> QED  BY <4>2
    <3> QED  BY <3>1, <1>7, <1>9, <1>11 DEF Range
  <2>4. ASSUME NEW n \in E \ Range(u), n # h PROVE n \in D \ Range(q)
    <3>1. n \notin Range(r)
      <4> SUFFICES ASSUME NEW i \in 1..l, r[i] = n PROVE FALSE  BY <1>11 DEF Range
      <4>1. i # 1  BY <2>4, <1>9
      <4>2. i - 1 \in 1..(l - 1) /\ (i - 1) + 1 = i  BY <4>1, <1>9
      <4>3. u[i - 1] = n  BY <4>2, <1>10
      <4> QED  BY <4>2, <4>3, <2>4, <1>11 DEF Range
    <3>2. n \in D  BY <3>1, <2>4, <1>7
    <3>3. ASSUME NEW i \in 1..k, q[i] = n PROVE FALSE
      <4>1. i \in 1..l /\ r[i] = n  BY <3>3, <1>7, <1>9 DEF k, l
      <4> QED  BY <4>1, <3>1, <1>11 DEF Range
    <3> QED  BY <3>2, <3>3, <1>11 DEF Range
  <2>5. ASSUME NEW n \in D \ Range(q) PROVE n \in E \ Range(u)
    <3>1. n \in E  BY <1>7
    <3>2. ASSUME NEW i \in 1..(l - 1), u[i] = n PROVE FALSE
      <4>1. i + 1 \in 1..l /\ r[i + 1] = n  BY <3>2, <1>9, <1>10
      <4>2. i + 1 <= k  BY <4>1, <1>7 DEF k, l
      <4>3. i + 1 \in 1..k /\ q[i + 1] = n  BY <4>1, <4>2, <1>7, <1>9 DEF k, l
      <4> QED  BY <4>3, <1>11 DEF Range
    <3> QED  BY <3>1, <3>2, <1>11 DEF Range
  <2> QED  BY <2>1, <2>2, <2>3, <2>4, <2>5
<1>16. /\ D \subseteq DOMAIN new.parent
       /\ \A n \in D : new.parent[n] = st.parent[n]
       /\ \A n \in DOMAIN new.parent \ D : new.parent[n] = h
       /\ \A n \in Node : Leads(h, n) => n \in DOMAIN new.parent
  BY <1>1, <1>5, <1>7 DEF E
<1> QED  BY <1>13, <1>14, <1>15, <1>16 DEF D, h, q, new

\* The search for a node, after i rounds: its target was not taken; of what was
\* taken, the neighbours are visited, those of the first node from there; and
\* unless it has ended, each round took a node.
Ended(st, to) == st.queue = << >> \/ Head(st.queue) = to

Explored(st) ==
    \A m \in Finished(st), n \in Node : Leads(m, n) => n \in DOMAIN st.parent

Near(from, st) ==
    \A n \in Node : Leads(from, n) /\ n # from =>
        n \in DOMAIN st.parent /\ st.parent[n] = from

Searched(from, to, i, st) ==
    /\ Tree(from, st) /\ to \notin Finished(st) /\ Explored(st)
    /\ IF i = 0 THEN st = Start(from) ELSE Near(from, st)
    /\ Ended(st, to) \/ Cardinality(Finished(st)) = i

LEMMA SearchedStep ==
    ASSUME Graph, NEW from \in Node, NEW to \in Node, from # to, NEW i \in Nat,
           NEW st, Searched(from, to, i, st)
    PROVE  Searched(from, to, i + 1, Take(st, to))
<1> DEFINE new == Take(st, to)
           h == Head(st.queue)
           F == Finished(st)
<1>1. Tree(from, st) /\ to \notin F /\ Explored(st)  BY DEF Searched
<1>2. i = 0 => st.queue = <<from>> /\ DOMAIN st.parent = {from} /\ h = from
  <2> SUFFICES ASSUME i = 0 PROVE st.queue = <<from>> /\ DOMAIN st.parent = {from} /\ h = from
    OBVIOUS
  <2>1. st = Start(from)  BY DEF Searched
  <2> QED  BY <2>1 DEF Start
<1>3. CASE Ended(st, to)
  <2>1. i # 0  BY <1>2, <1>3 DEF Ended
  <2>2. new = st  BY <1>3 DEF Take, Ended
  <2> QED  BY <2>1, <2>2, <1>3 DEF Searched
<1>4. CASE ~Ended(st, to)
  <2>1. st.queue # << >> /\ h # to  BY <1>4 DEF Ended
  <2>2. /\ Tree(from, new)
        /\ h \in DOMAIN st.parent \ F
        /\ Finished(new) = F \cup {h}
        /\ DOMAIN st.parent \subseteq DOMAIN new.parent
        /\ \A n \in DOMAIN st.parent : new.parent[n] = st.parent[n]
        /\ \A n \in DOMAIN new.parent \ DOMAIN st.parent : new.parent[n] = h
        /\ \A n \in Node : Leads(h, n) => n \in DOMAIN new.parent
    BY <2>1, <1>1, TakeIs
  <2> HIDE DEF new, h, F
  <2>3. to \notin Finished(new)  BY <2>1, <2>2, <1>1
  <2>4. Explored(new)  BY <2>2, <1>1 DEF Explored, F
  <2>5. Near(from, new)
    <3>1. CASE i = 0
      BY <3>1, <2>2, <1>2 DEF Near
    <3>2. CASE i # 0
      <4>1. Near(from, st)  BY <3>2 DEF Searched
      <4> QED  BY <4>1, <2>2 DEF Near
    <3> QED  BY <3>1, <3>2
  <2>6. Cardinality(Finished(new)) = i + 1
    <3>1. Cardinality(F) = i  BY <1>4 DEF Searched, F
    <3>2. F \subseteq Node  BY <1>1 DEF Tree, SearchType, Finished, F
    <3>3. IsFiniteSet(F)  BY <3>2, FS_Subset DEF Graph
    <3> QED  BY <3>1, <3>3, <2>2, FS_AddElement
  <2>7. i + 1 # 0  OBVIOUS
  <2>8. Searched(from, to, i + 1, new)
    BY <2>2, <2>3, <2>4, <2>5, <2>6, <2>7 DEF Searched
  <2> QED  BY <2>8 DEF new
<1> QED  BY <1>3, <1>4

\* After the last round the search has ended: with an empty queue, when all that
\* the first node leads to was visited, or with the target at the head.
LEMMA SearchIs ==
    ASSUME Graph, NEW from \in Node, NEW to \in Node, from # to
    PROVE  LET st == SearchSteps(from, to)[Rounds]
           IN  /\ Tree(from, st) /\ Near(from, st)
               /\ to \in DOMAIN st.parent <=>
                     \A S \in SUBSET Node : from \in S /\ ClosedSet(S) => to \in S
<1> DEFINE v == SearchSteps(from, to)
           size == Rounds
           st == v[size]
           S == {i \in 0..size : Searched(from, to, i, v[i])}
<1>1. Cardinality(Node) \in Nat /\ size = Cardinality(Node) + 1 /\ size \in Nat
  BY FS_CardinalityType DEF Graph, Rounds, Node
<1>2. v[0] = Start(from) /\ \A i \in 1..size : v[i] = Take(v[i - 1], to)
  BY <1>1, SearchStepsRec DEF Start
<1> HIDE DEF size, v
<1>3. 0 \in S
  <2>1. Tree(from, v[0]) /\ Finished(v[0]) = {}  BY <1>2, StartIs
  <2>2. Cardinality({}) = 0  BY FS_EmptySet
  <2> QED  BY <2>1, <2>2, <1>1, <1>2 DEF Searched, Explored
<1>4. ASSUME NEW i \in 1..size, i - 1 \in S PROVE i \in S
  <2>1. Searched(from, to, i - 1, v[i - 1]) /\ i - 1 \in Nat /\ (i - 1) + 1 = i
    BY <1>1, <1>4
  <2> DEFINE j == i - 1
  <2>2. Searched(from, to, j, v[j]) /\ j \in Nat  BY <2>1
  <2> HIDE DEF j
  <2>3. Searched(from, to, j + 1, Take(v[j], to))  BY <2>2, SearchedStep
  <2> QED  BY <2>1, <2>3, <1>1, <1>2 DEF j
<1> HIDE DEF S
<1>5. size \in S
  <2>1. 0..size \subseteq S  BY <1>1, <1>3, <1>4, BoundedInduction
  <2> QED  BY <2>1, <1>1
<1>6. Searched(from, to, size, st)  BY <1>5 DEF S
<1> HIDE DEF st
<1>7. Tree(from, st) /\ to \notin Finished(st) /\ Explored(st) /\ Near(from, st)
  BY <1>1, <1>6 DEF Searched
<1>8. SearchType(from, st) /\ Parents(from, st) /\ Confined(from, st)  BY <1>7 DEF Tree
<1>9. Ended(st, to)
  <2> SUFFICES ASSUME ~Ended(st, to) PROVE FALSE  OBVIOUS
  <2>1. Cardinality(Finished(st)) = size  BY <1>6 DEF Searched
  <2>2. Finished(st) \subseteq Node  BY <1>8 DEF SearchType, Finished
  <2>3. Cardinality(Finished(st)) <= Cardinality(Node)  BY <2>2, FS_Subset DEF Graph
  <2> QED  BY <2>1, <2>3, <1>1
<1>10. ASSUME to \in DOMAIN st.parent, NEW T \in SUBSET Node, from \in T, ClosedSet(T)
       PROVE  to \in T
  BY <1>8, <1>10 DEF Confined
<1>11. ASSUME \A T \in SUBSET Node : from \in T /\ ClosedSet(T) => to \in T
       PROVE  to \in DOMAIN st.parent
  <2>1. CASE st.queue = << >>
    <3>1. Range(st.queue) = {}  BY <2>1 DEF Range
    <3>2. Finished(st) = DOMAIN st.parent  BY <3>1 DEF Finished
    <3>3. ClosedSet(DOMAIN st.parent)  BY <3>2, <1>7 DEF ClosedSet, Explored
    <3>4. DOMAIN st.parent \subseteq Node /\ from \in DOMAIN st.parent
      BY <1>8 DEF SearchType, Parents
    <3> QED  BY <3>3, <3>4, <1>11
  <2>2. CASE st.queue # << >>
    <3> DEFINE q == st.queue
               D == DOMAIN st.parent
    <3>1. q \in Seq(D) /\ q # << >> /\ Head(q) = to
      BY <2>2, <1>8, <1>9 DEF SearchType, Ended
    <3> HIDE DEF q, D
    <3>2. Head(q) \in D  BY <3>1
    <3> QED  BY <3>1, <3>2 DEF D
  <2> QED  BY <2>1, <2>2
<1> QED  BY <1>7, <1>10, <1>11 DEF st, v, size

\* An element before a sequence.
LEMMA ConsIs ==
    ASSUME NEW T, NEW x \in T, NEW s \in Seq(T)
    PROVE  /\ <<x>> \o s \in Seq(T) /\ Len(<<x>> \o s) = Len(s) + 1
           /\ (<<x>> \o s)[1] = x /\ \A i \in 1..Len(s) : (<<x>> \o s)[i + 1] = s[i]
<1>1. <<x>> \in Seq(T) /\ Len(<<x>>) = 1 /\ <<x>>[1] = x  OBVIOUS
<1> DEFINE c == <<x>>
<1> HIDE DEF c
<1>2. Len(s) \in Nat  OBVIOUS
<1>3. c \o s \in Seq(T) /\ Len(c \o s) = Len(c) + Len(s)
      /\ \A i \in 1..(Len(c) + Len(s)) : (c \o s)[i] = IF i <= Len(c) THEN c[i] ELSE s[i - Len(c)]
  BY <1>1 DEF c
<1>4. Len(c) = 1 /\ c[1] = x  BY <1>1 DEF c
<1>5. \A i \in 1..Len(s) : i + 1 \in 1..(1 + Len(s)) /\ ~(i + 1 <= 1) /\ (i + 1) - 1 = i
  BY <1>2
<1>6. ASSUME NEW i \in 1..Len(s) PROVE (c \o s)[i + 1] = s[i]
  <2> DEFINE j == i + 1
  <2>1. j \in 1..(Len(c) + Len(s)) /\ ~(j <= Len(c)) /\ j - Len(c) = i  BY <1>4, <1>5
  <2> HIDE DEF j
  <2>2. (c \o s)[j] = s[j - Len(c)]  BY <2>1, <1>3
  <2> QED  BY <2>1, <2>2 DEF j
<1>7. (c \o s)[1] = x  BY <1>2, <1>3, <1>4
<1> QED  BY <1>2, <1>3, <1>4, <1>6, <1>7 DEF c

\* Reading the path off the parents, after k steps: it leads to the target, each of
\* its nodes but the first was reached from the one before, and unless it has come
\* to the first node of the search, each step took it back in the order of visits.
BackAt(st, rank, from, to, k, b) ==
    /\ b \in Seq(DOMAIN st.parent) /\ b # << >> /\ b[Len(b)] = to
    /\ \A i \in 1..(Len(b) - 1) : b[i + 1] # from /\ b[i] = st.parent[b[i + 1]]
    /\ b[1] = from \/ rank[b[1]] + k <= rank[to]
    /\ from = to \/ k = 0 => b = <<to>>
    /\ from # to /\ st.parent[to] = from /\ k # 0 => Len(b) = 2

LEMMA BackStep ==
    ASSUME NEW from, NEW to, NEW st, Tree(from, st), to \in DOMAIN st.parent,
           NEW rank \in [DOMAIN st.parent -> Nat],
           \A n \in DOMAIN st.parent : n # from => rank[st.parent[n]] < rank[n],
           NEW k \in Nat, NEW b, BackAt(st, rank, from, to, k, b)
    PROVE  BackAt(st, rank, from, to, k + 1, Back(b, st.parent, from))
<1> DEFINE D == DOMAIN st.parent
           par == st.parent
           c == <<par[b[1]]>>
           new == c \o b
           l == Len(b)
<1>1. /\ b \in Seq(D) /\ b # << >> /\ b[l] = to
      /\ \A i \in 1..(l - 1) : b[i + 1] # from /\ b[i] = par[b[i + 1]]
      /\ b[1] = from \/ rank[b[1]] + k <= rank[to]
      /\ from = to \/ k = 0 => b = <<to>>
      /\ from # to /\ par[to] = from /\ k # 0 => l = 2
  BY DEF BackAt
<1>2. l \in Nat \ {0} /\ Head(b) = b[1] /\ b[1] \in D
  <2> HIDE DEF D
  <2> QED  BY <1>1
<1>3. \A n \in D \ {from} : par[n] \in D  BY DEF Tree, Parents
<1>4. CASE b[1] = from
  <2>1. Back(b, par, from) = b  BY <1>2, <1>4 DEF Back
  <2>2. from # to => k # 0
    <3> SUFFICES ASSUME from # to, k = 0 PROVE FALSE  OBVIOUS
    <3>1. b = <<to>>  BY <1>1
    <3> QED  BY <3>1, <1>4
  <2> QED  BY <2>1, <2>2, <1>1, <1>4 DEF BackAt
<1>5. CASE b[1] # from
  <2>1. Back(b, par, from) = new  BY <1>2, <1>5 DEF Back
  <2>2. from # to
    <3> SUFFICES ASSUME from = to PROVE FALSE  OBVIOUS
    <3>1. b = <<to>>  BY <1>1
    <3> QED  BY <3>1, <1>5
  <2>3. par[b[1]] \in D  BY <1>2, <1>3, <1>5
  <2>5. new \in Seq(D) /\ Len(new) = l + 1 /\ new[1] = par[b[1]]
        /\ \A i \in 1..l : new[i + 1] = b[i]
    <3> HIDE DEF D, par
    <3> QED  BY <1>1, <2>3, ConsIs
  <2> HIDE DEF D, par, c, new, l
  <2>6. new # << >>  BY <2>5, <1>2
  <2>7. new[l + 1] = to  BY <2>5, <1>1, <1>2
  <2>8. ASSUME NEW i \in 1..((l + 1) - 1)
        PROVE  new[i + 1] # from /\ new[i] = par[new[i + 1]]
    <3>1. CASE i = 1  BY <3>1, <2>5, <1>2, <1>5
    <3>2. CASE i # 1
      <4> DEFINE j == i - 1
      <4>1. j \in 1..(l - 1) /\ j + 1 = i /\ i \in 1..l  BY <3>2, <1>2
      <4> HIDE DEF j
      <4>2. j \in 1..l  BY <4>1, <1>2
      <4>3. new[j + 1] = b[j] /\ new[i + 1] = b[i]  BY <4>1, <4>2, <2>5
      <4> QED  BY <4>1, <4>3, <1>1
    <3> QED  BY <3>1, <3>2
  <2>9. rank[new[1]] + (k + 1) <= rank[to]
    <3>1. rank[b[1]] \in Nat /\ rank[par[b[1]]] \in Nat /\ rank[to] \in Nat
      BY <1>2, <2>3 DEF D
    <3>2. rank[par[b[1]]] < rank[b[1]]  BY <1>2, <1>5 DEF D, par
    <3> QED  BY <3>1, <3>2, <2>5, <1>1, <1>5
  <2>10. par[to] = from => Len(new) = 2
    <3> SUFFICES ASSUME par[to] = from PROVE Len(new) = 2  OBVIOUS
    <3>1. CASE k = 0
      <4>1. b = <<to>> /\ l = 1  BY <3>1, <1>1 DEF l
      <4> QED  BY <4>1, <2>5
    <3>2. CASE k # 0
      <4>1. l = 2  BY <3>2, <2>2, <1>1
      <4>2. b[1] = from  BY <4>1, <1>1
      <4> QED  BY <4>2, <1>5
    <3> QED  BY <3>1, <3>2
  <2>11. k + 1 # 0  OBVIOUS
  <2>12. BackAt(st, rank, from, to, k + 1, new)
    BY <2>2, <2>5, <2>6, <2>7, <2>8, <2>9, <2>10, <2>11 DEF BackAt, D, par
  <2> QED  BY <2>1, <2>12 DEF new, par
<1> QED  BY <1>4, <1>5 DEF par

\* The path of a search that visited its target.
IsPath(from, to, st, path) ==
    /\ path \in Seq(DOMAIN st.parent) /\ path # << >>
    /\ path[1] = from /\ path[Len(path)] = to
    /\ \A i \in 1..(Len(path) - 1) : Leads(path[i], path[i + 1])
    /\ from = to => path = <<to>>
    /\ from # to /\ st.parent[to] = from => Len(path) = 2

LEMMA BackIs ==
    ASSUME Graph, NEW from \in Node, NEW to, NEW st, Tree(from, st), to \in DOMAIN st.parent
    PROVE  IsPath(from, to, st, BackSteps(st.parent, from, to)[Rounds])
<1> DEFINE D == DOMAIN st.parent
           size == Rounds
           v == BackSteps(st.parent, from, to)
<1>1. Cardinality(Node) \in Nat /\ size = Cardinality(Node) + 1 /\ size \in Nat
  BY FS_CardinalityType DEF Graph, Rounds, Node
<1>2. v[0] = <<to>> /\ \A i \in 1..size : v[i] = Back(v[i - 1], st.parent, from)
  BY <1>1, BackStepsRec
<1>3. PICK rank \in [D -> Nat] :
        \A n \in D : rank[n] < Cardinality(D) /\ (n # from => rank[st.parent[n]] < rank[n])
  BY DEF Tree, Order
<1>4. Cardinality(D) \in Nat /\ Cardinality(D) <= Cardinality(Node)
  <2>1. D \subseteq Node  BY DEF Tree, SearchType
  <2> QED  BY <2>1, FS_Subset, FS_CardinalityType DEF Graph
<1> DEFINE S == {k \in 0..size : BackAt(st, rank, from, to, k, v[k])}
<1> HIDE DEF size, v
<1>5. 0 \in S
  <2> DEFINE b == <<to>>
  <2>1. b \in Seq(D) /\ b # << >> /\ Len(b) = 1 /\ b[1] = to
    <3>1. to \in D  OBVIOUS
    <3> HIDE DEF D
    <3> QED  BY <3>1
  <2>2. rank[to] \in Nat  BY <1>3
  <2>3. b = <<to>>  OBVIOUS
  <2> HIDE DEF b
  <2>4. BackAt(st, rank, from, to, 0, b)  BY <2>1, <2>2, <2>3 DEF BackAt
  <2> QED  BY <2>3, <2>4, <1>1, <1>2
<1>6. ASSUME NEW k \in 1..size, k - 1 \in S PROVE k \in S
  <2> DEFINE j == k - 1
  <2>1. BackAt(st, rank, from, to, j, v[j]) /\ j \in Nat /\ j + 1 = k  BY <1>1, <1>6
  <2>2. v[k] = Back(v[j], st.parent, from)  BY <1>2
  <2>3. \A n \in DOMAIN st.parent : n # from => rank[st.parent[n]] < rank[n]  BY <1>3
  <2> HIDE DEF j
  <2>4. BackAt(st, rank, from, to, j + 1, Back(v[j], st.parent, from))
    BY <2>1, <2>3, BackStep
  <2> QED  BY <2>1, <2>2, <2>4, <1>1
<1> HIDE DEF S
<1>7. size \in S
  <2>1. 0..size \subseteq S  BY <1>1, <1>5, <1>6, BoundedInduction
  <2> QED  BY <2>1, <1>1
<1> DEFINE path == v[size]
<1>8. BackAt(st, rank, from, to, size, path)  BY <1>7 DEF S
<1> HIDE DEF path
<1>9. /\ path \in Seq(D) /\ path # << >> /\ path[Len(path)] = to
      /\ \A i \in 1..(Len(path) - 1) :
           path[i + 1] # from /\ path[i] = st.parent[path[i + 1]]
      /\ path[1] = from \/ rank[path[1]] + size <= rank[to]
      /\ from = to => path = <<to>>
      /\ from # to /\ st.parent[to] = from => Len(path) = 2
  BY <1>1, <1>8 DEF BackAt
<1>10. Len(path) \in Nat \ {0} /\ \A i \in 1..Len(path) : path[i] \in D
  <2> HIDE DEF D
  <2> QED  BY <1>9
<1>11. path[1] = from
  <2>1. rank[to] < Cardinality(D) /\ rank[to] \in Nat  BY <1>3
  <2>2. rank[path[1]] \in Nat  BY <1>3, <1>10
  <2> QED  BY <2>1, <2>2, <1>1, <1>4, <1>9
<1>12. ASSUME NEW i \in 1..(Len(path) - 1) PROVE Leads(path[i], path[i + 1])
  <2>1. i + 1 \in 1..Len(path)  BY <1>10
  <2>2. path[i + 1] \in D \ {from}  BY <2>1, <1>9, <1>10
  <2>3. Leads(st.parent[path[i + 1]], path[i + 1])  BY <2>2 DEF Tree, Parents
  <2> QED  BY <2>3, <1>9
<1>13. IsPath(from, to, st, path)  BY <1>9, <1>11, <1>12 DEF IsPath
<1> QED  BY <1>13 DEF path, v, size

\* FindPath finds a path where the edges lead, along edges, and the edge itself where
\* there is one; it stays in every closed set it begins in.
Found(from, to, path) ==
    /\ from = to => path = <<to>>
    /\ from # to => (path # << >> <=>
                       \A S \in SUBSET Node : from \in S /\ ClosedSet(S) => to \in S)
    /\ path # << >> =>
         /\ path[1] = from /\ path[Len(path)] = to /\ Len(path) \in Nat
         /\ \A i \in 1..(Len(path) - 1) : Leads(path[i], path[i + 1])
         /\ \A S \in SUBSET Node : from \in S /\ ClosedSet(S) =>
              \A i \in 1..Len(path) : path[i] \in S
    /\ from # to /\ Leads(from, to) => Len(path) = 2

LEMMA PathIs ==
    ASSUME Graph, NEW from \in Node, NEW to \in Node
    PROVE  Found(from, to, FindPath(from, to))
<1> DEFINE st == SearchSteps(from, to)[Rounds]
           path == BackSteps(st.parent, from, to)[Rounds]
<1>1. FindPath(from, to) = IF to \in DOMAIN st.parent THEN path ELSE << >>
  BY DEF FindPath, Node
<1>2. Tree(from, st)
  <2>1. CASE from = to
    <3> DEFINE v == SearchSteps(from, to)
               size == Rounds
               S == {i \in 0..size : v[i] = Start(from)}
    <3>1. size \in Nat  BY FS_CardinalityType DEF Graph, Rounds, Node
    <3>2. v[0] = Start(from) /\ \A i \in 1..size : v[i] = Take(v[i - 1], to)
      BY <3>1, SearchStepsRec DEF Start
    <3>3. Take(Start(from), to) = Start(from)  BY <2>1 DEF Take, Start
    <3> HIDE DEF v, size
    <3>4. 0 \in S  BY <3>1, <3>2
    <3>5. \A i \in 1..size : i - 1 \in S => i \in S  BY <3>2, <3>3
    <3> HIDE DEF S
    <3>6. 0..size \subseteq S  BY <3>1, <3>4, <3>5, BoundedInduction
    <3>7. v[size] = Start(from)  BY <3>1, <3>6 DEF S
    <3> QED  BY <3>7, StartIs DEF v, size
  <2>2. CASE from # to  BY <2>2, SearchIs
  <2> QED  BY <2>1, <2>2
<1>3. from # to =>
        /\ Near(from, st)
        /\ to \in DOMAIN st.parent <=>
             \A S \in SUBSET Node : from \in S /\ ClosedSet(S) => to \in S
  BY SearchIs
<1>4. to \in DOMAIN st.parent => IsPath(from, to, st, path)
  <2> HIDE DEF st
  <2> QED  BY <1>2, BackIs
<1>5. from \in DOMAIN st.parent  BY <1>2 DEF Tree, Parents
<1>6. \A S \in SUBSET Node : from \in S /\ ClosedSet(S) => DOMAIN st.parent \subseteq S
  BY <1>2 DEF Tree, Confined
<1> HIDE DEF st, path
<1>7. from # to /\ Leads(from, to) => to \in DOMAIN st.parent /\ st.parent[to] = from
  BY <1>3 DEF Near
<1>8. to \in DOMAIN st.parent =>
        Len(path) \in Nat /\ \A i \in 1..Len(path) : path[i] \in DOMAIN st.parent
  <2> DEFINE D == DOMAIN st.parent
  <2> SUFFICES ASSUME path \in Seq(D)
               PROVE  Len(path) \in Nat /\ \A i \in 1..Len(path) : path[i] \in D
    BY <1>4 DEF IsPath
  <2> HIDE DEF D
  <2> QED  OBVIOUS
<1>9. CASE to \in DOMAIN st.parent
  <2>1. FindPath(from, to) = path  BY <1>1, <1>9
  <2>2. \A S \in SUBSET Node : from \in S /\ ClosedSet(S) =>
          \A i \in 1..Len(path) : path[i] \in S
    BY <1>6, <1>8, <1>9
  <2>3. /\ path # << >> /\ path[1] = from /\ path[Len(path)] = to
        /\ \A i \in 1..(Len(path) - 1) : Leads(path[i], path[i + 1])
        /\ from = to => path = <<to>>
        /\ from # to /\ st.parent[to] = from => Len(path) = 2
    BY <1>4, <1>9 DEF IsPath
  <2>4. Found(from, to, path)  BY <2>2, <2>3, <1>3, <1>7, <1>8, <1>9 DEF Found
  <2> QED  BY <2>1, <2>4
<1>10. CASE to \notin DOMAIN st.parent
  <2>1. FindPath(from, to) = << >>  BY <1>1, <1>10
  <2>2. from # to  BY <1>5, <1>10
  <2> QED  BY <2>1, <2>2, <1>3, <1>7, <1>10 DEF Found
<1> QED  BY <1>9, <1>10

\* Of the node of the skill b of p: all skills at its level or below have nodes,
\* and those it needs are joined to it.
Below(p, b)   == \A s \in Skills : SkillLevel[s] <= SkillLevel[b] => <<p, s>> \in Node
Joined(p, b)  == \A s \in Prereqs[b] : <<p, s>> \in Node => Leads(<<p, s>>, <<p, b>>)
InPlace(p, b) == <<p, b>> \in Node => Below(p, b) /\ Joined(p, b)

Initialising(w) == call[w].pc \in {"insert", "node"}

\* The skills of a call are those up to a level; each has its node, or it is
\* still to come; and skills of higher levels are not disturbed.
InitInv(w) ==
    /\ call[w].learner \in Profiles
    /\ \A b \in call[w].skills, s \in Skills :
         SkillLevel[s] <= SkillLevel[b] => s \in call[w].skills
    /\ \A s \in call[w].skills :
         \/ <<call[w].learner, s>> \in Node
         \/ s \in call[w].todo
         \/ call[w].pc = "node" /\ s = call[w].skill
    /\ call[w].todo \subseteq call[w].skills
    /\ call[w].pc = "node" => call[w].skill \in call[w].skills
    /\ \A b \in Skills \ call[w].skills : InPlace(call[w].learner, b)

\* Edges join a learner's skill to one that needs it.
EdgesHonest ==
    \A k \in 1..Len(edges) : edges[k][1][1] = edges[k][2][1]
                             /\ edges[k][1][2] \in Prereqs[edges[k][2][2]]

GraphInv ==
    /\ Graph /\ Node \subseteq Profiles \X Skills /\ EdgesHonest
    /\ \A w \in Writers : Initialising(w) => InitInv(w)
    /\ \A p \in Profiles :
         \/ \E w \in Writers : Initialising(w) /\ call[w].learner = p
         \/ \A b \in Skills : InPlace(p, b)

\* Initially there are no nodes.
LEMMA GraphInit == Init => GraphInv
<1> SUFFICES ASSUME Init PROVE GraphInv  OBVIOUS
<1>1. Node = {} /\ edges = << >> /\ Len(edges) = 0  BY DEF Init, Node, Empty
<1>2. \A w \in Writers : ~Initialising(w)  BY DEF Init, Idle, Initialising
<1>3. Graph  BY <1>1, FS_EmptySet DEF Graph
<1> QED  BY <1>1, <1>2, <1>3 DEF GraphInv, EdgesHonest, InPlace

\* A step that keeps nodes, edges and the initialising calls keeps GraphInv.
LEMMA GraphKept ==
    ASSUME GraphInv, DOMAIN nodes' = DOMAIN nodes, edges' = edges,
           \A w \in Writers : Initialising(w)' = Initialising(w)
                              /\ (Initialising(w) => call'[w] = call[w])
    PROVE  GraphInv'
<1>1. Node' = Node /\ edges' = edges  BY DEF Node
<1>2. Graph' /\ EdgesHonest'  BY <1>1 DEF GraphInv, Graph, EdgesHonest
<1>3. \A p, b : InPlace(p, b)' = InPlace(p, b)
  BY <1>1 DEF InPlace, Below, Joined, Leads
<1>4. ASSUME NEW w \in Writers, Initialising(w)' PROVE InitInv(w)'
  <2>1. InitInv(w) /\ call'[w] = call[w]  BY <1>4 DEF GraphInv
  <2> QED  BY <2>1, <1>1, <1>3 DEF InitInv
<1> QED  BY <1>1, <1>2, <1>3, <1>4 DEF GraphInv

\* SetToSeq lists a finite set.
LEMMA Listed ==
    ASSUME NEW S, IsFiniteSet(S)
    PROVE  SetToSeq(S) \in Seq(S) /\ Range(SetToSeq(S)) = S
<1> DEFINE size == Cardinality(S)
           f == SetToSeq(S)
<1>1. size \in Nat /\ ExistsBijection(1..size, S)  BY FS_CardinalityType
<1>2. PICK g \in Bijection(1..size, S) : TRUE  BY <1>1 DEF ExistsBijection
<1>3. g \in [1..size -> S] /\ IsInjective(g)
  BY <1>2 DEF Bijection, Injection, IsInjective
<1>4. f \in [1..size -> S] /\ IsInjective(f)  BY <1>3 DEF SetToSeq
<1> HIDE DEF f
<1>5. f \in Injection(1..size, S)  BY <1>4 DEF Injection, IsInjective
<1>6. Cardinality(1..size) = size  BY <1>1, FS_Interval
<1>7. f \in Surjection(1..size, S)  BY <1>5, <1>6, FS_Injection
<1>8. Range(f) = S  BY <1>4, <1>7 DEF Surjection, Range
<1>9. f \in Seq(S)
  <2> HIDE DEF size
  <2> QED  BY <1>1, <1>4
<1> QED  BY <1>8, <1>9 DEF f

\* The set of edges a call is about to create is finite.
LEMMA JoinedFinite ==
    ASSUME IsFiniteSet(Node), NEW E, E \subseteq Node \X Node
    PROVE  IsFiniteSet(E)
<1>1. IsFiniteSet(Node \X Node)  BY FS_Product
<1> QED  BY <1>1, FS_Subset

\* A call that begins finds its learner in no other; it is about all skills up to
\* its level.
LEMMA GraphBegin ==
    ASSUME ~Overlap, GraphInv, CallInv, NEW w \in Writers, NEW p \in Profiles, NEW l \in Levels,
           InitializeLearnerSkills(w, p, l)
    PROVE  GraphInv'
<1> DEFINE up == {s \in Skills : SkillLevel[s] <= l}
           c == [Idle EXCEPT !.pc = "insert", !.learner = p, !.skills = up, !.todo = up]
<1>1. /\ call' = [call EXCEPT ![w] = c] /\ call[w] = Idle /\ ~Busy(p)
      /\ UNCHANGED <<nodes, edges>>
  BY DEF InitializeLearnerSkills, Enter, graphVars, Idle
<1>2. c.pc = "insert" /\ c.learner = p /\ c.skills = up /\ c.todo = up  BY DEF Idle
<1>3. call'[w] = c /\ \A v \in Writers : v # w => call'[v] = call[v]
  BY <1>1 DEF CallInv
<1>4. Node' = Node  BY <1>1 DEF Node
<1>5. \A q, b : InPlace(q, b)' = InPlace(q, b)
  BY <1>1, <1>4 DEF InPlace, Below, Joined, Leads
<1>6. Graph' /\ EdgesHonest' /\ (Node \subseteq Profiles \X Skills)'
  BY <1>1, <1>4 DEF GraphInv, Graph, EdgesHonest
<1>7. \A b \in Skills : InPlace(p, b)
  <2>1. \A v \in Writers : call[v].learner # p  BY <1>1 DEF Busy
  <2> QED  BY <2>1 DEF GraphInv
<1>8. \A b \in up, s \in Skills : SkillLevel[s] <= SkillLevel[b] => s \in up
  BY StoresAssumption
<1> HIDE DEF c, up
<1>9. InitInv(w)'
  BY <1>2, <1>3, <1>5, <1>7, <1>8 DEF InitInv
<1>10. \A v \in Writers : Initialising(v)' => InitInv(v)'
  <2> SUFFICES ASSUME NEW v \in Writers, Initialising(v)', v # w PROVE InitInv(v)'
    BY <1>9
  <2>1. Initialising(v) /\ call'[v] = call[v]  BY <1>3 DEF Initialising
  <2>2. InitInv(v)  BY <2>1 DEF GraphInv
  <2> QED  BY <2>1, <2>2, <1>4, <1>5 DEF InitInv
<1>11. ASSUME NEW q \in Profiles
       PROVE  \/ \E v \in Writers : Initialising(v)' /\ call'[v].learner = q
              \/ \A b \in Skills : InPlace(q, b)'
  <2>1. CASE \A b \in Skills : InPlace(q, b)  BY <2>1, <1>5
  <2>2. CASE \E v \in Writers : Initialising(v) /\ call[v].learner = q
    <3>1. PICK v \in Writers : Initialising(v) /\ call[v].learner = q  BY <2>2
    <3>2. v # w  BY <3>1, <1>1 DEF Initialising, Idle
    <3> QED  BY <3>1, <3>2, <1>3 DEF Initialising
  <2> QED  BY <2>1, <2>2 DEF GraphInv
<1> QED  BY <1>6, <1>10, <1>11 DEF GraphInv

\* The row of a skill is inserted; its node is next.
LEMMA GraphInsert ==
    ASSUME GraphInv, CallInv, NEW w \in Writers, InitInsert(w)
    PROVE  GraphInv'
<1> DEFINE c == call[w]
<1>1. PICK s \in c.todo :
        call' = [call EXCEPT ![w] = [c EXCEPT !.pc = "node", !.todo = @ \ {s}, !.skill = s]]
  BY DEF InitInsert
<1>2. c.pc = "insert" /\ UNCHANGED <<nodes, edges>>  BY DEF InitInsert, graphVars
<1>3. c \in CallType  BY DEF CallInv
<1>4. /\ call'[w].pc = "node" /\ call'[w].learner = c.learner /\ call'[w].skills = c.skills
      /\ call'[w].todo = c.todo \ {s} /\ call'[w].skill = s
      /\ \A v \in Writers : v # w => call'[v] = call[v]
  BY <1>1, <1>3 DEF CallInv, CallType
<1>5. Node' = Node  BY <1>2 DEF Node
<1>6. \A q, b : InPlace(q, b)' = InPlace(q, b)
  BY <1>2, <1>5 DEF InPlace, Below, Joined, Leads
<1>7. Graph' /\ EdgesHonest' /\ (Node \subseteq Profiles \X Skills)'
  BY <1>2, <1>5 DEF GraphInv, Graph, EdgesHonest
<1>8. InitInv(w)  BY <1>2 DEF GraphInv, Initialising
<1> HIDE DEF c
<1>9. InitInv(w)'  BY <1>2, <1>4, <1>5, <1>6, <1>8 DEF InitInv, c
<1>10. \A v \in Writers : Initialising(v)' = Initialising(v)
  BY <1>2, <1>4 DEF Initialising, c
<1>11. \A v \in Writers : Initialising(v)' => InitInv(v)'
  <2> SUFFICES ASSUME NEW v \in Writers, Initialising(v)', v # w PROVE InitInv(v)'
    BY <1>9
  <2>1. InitInv(v)  BY <1>10 DEF GraphInv
  <2> QED  BY <2>1, <1>4, <1>5, <1>6 DEF InitInv
<1>12. \A v \in Writers : call'[v].learner = call[v].learner  BY <1>4 DEF c
<1> QED  BY <1>6, <1>7, <1>10, <1>11, <1>12 DEF GraphInv

\* The node of a skill is created.  A node that stood before and is no skill of the
\* call is at a higher level, so the new one is none it lacked.
LEMMA GraphNode ==
    ASSUME GraphInv, CallInv, NEW w \in Writers, InitNode(w)
    PROVE  GraphInv'
<1>0. PICK p \in Profiles : p = call[w].learner
  BY DEF InitNode, GraphInv, Initialising, InitInv
<1> DEFINE c == call[w]
           n == <<p, c.skill>>
<1>1. /\ c.pc = "node" /\ edges' = edges /\ nodes' = Put(nodes, n, NewValue)
      /\ call' = [call EXCEPT ![w].pc = "insert"]
  BY <1>0 DEF InitNode
<1>2. InitInv(w)  BY <1>1 DEF GraphInv, Initialising
<1>3. c.skill \in c.skills /\ c.skills \subseteq Skills
  BY <1>1, <1>2 DEF InitInv, CallInv, CallType
<1>4. Node' = Node \cup {n}  BY <1>1 DEF Node, Put
<1>5. c \in CallType  BY DEF CallInv
<1>6. /\ call'[w].pc = "insert" /\ call'[w].learner = p /\ call'[w].skills = c.skills
      /\ call'[w].todo = c.todo
      /\ \A v \in Writers : v # w => call'[v] = call[v]
  BY <1>0, <1>1, <1>5 DEF CallInv, CallType
<1>7. Graph' /\ EdgesHonest' /\ (Node \subseteq Profiles \X Skills)'
  <2>1. IsFiniteSet(Node') /\ Node' \subseteq Profiles \X Skills
    <3>1. n \in Profiles \X Skills  BY <1>3
    <3>2. IsFiniteSet(Node \cup {n})  BY FS_AddElement DEF GraphInv, Graph
    <3> HIDE DEF n
    <3> QED  BY <3>1, <3>2, <1>4 DEF GraphInv
  <2>2. edges \in Seq(Node' \X Node')
    <3>1. Node \X Node \subseteq Node' \X Node'  BY <1>4
    <3>2. edges \in Seq(Node \X Node)  BY DEF GraphInv, Graph
    <3> QED  BY <3>1, <3>2
  <2> QED  BY <2>1, <2>2, <1>1 DEF GraphInv, Graph, EdgesHonest
<1>8. \A m1, m2 : Leads(m1, m2)' = Leads(m1, m2)  BY <1>1 DEF Leads
<1> HIDE DEF c
<1>9. ASSUME NEW q \in Profiles, NEW b \in Skills, InPlace(q, b), q # p
      PROVE  InPlace(q, b)'
  <2>1. \A s : <<q, s>> \in Node' <=> <<q, s>> \in Node  BY <1>4, <1>9
  <2> QED  BY <2>1, <1>8, <1>9 DEF InPlace, Below, Joined
<1>10. ASSUME NEW b \in Skills \ c.skills PROVE InPlace(p, b)'
  <2>1. InPlace(p, b)  BY <1>0, <1>2 DEF InitInv, c
  <2> SUFFICES ASSUME <<p, b>> \in Node' PROVE Below(p, b)' /\ Joined(p, b)'
    BY DEF InPlace
  <2>2. <<p, b>> \in Node  BY <1>3, <1>4
  <2>3. Below(p, b) /\ Joined(p, b)  BY <2>1, <2>2 DEF InPlace
  <2>4. ~(SkillLevel[b] <= SkillLevel[c.skill])  BY <1>2, <1>3 DEF InitInv, c
  <2>5. SkillLevel[c.skill] <= SkillLevel[b]  BY <2>4, <1>3, StoresAssumption
  <2>6. n \in Node  BY <2>3, <2>5, <1>3 DEF Below
  <2>7. Node' = Node  BY <2>6, <1>4
  <2> QED  BY <2>3, <2>7, <1>8 DEF Below, Joined
<1>11. InitInv(w)'
  <2>1. \A s \in c.skills : <<p, s>> \in Node' \/ s \in c.todo
    <3> SUFFICES ASSUME NEW s \in c.skills, s \notin c.todo PROVE <<p, s>> \in Node'
      OBVIOUS
    <3>1. <<p, s>> \in Node \/ s = c.skill  BY <1>0, <1>2 DEF InitInv, c
    <3> QED  BY <3>1, <1>4
  <2>2. \A b \in c.skills, s \in Skills : SkillLevel[s] <= SkillLevel[b] => s \in c.skills
    BY <1>2 DEF InitInv, c
  <2>3. c.todo \subseteq c.skills  BY <1>2 DEF InitInv, c
  <2> QED  BY <2>1, <2>2, <2>3, <1>3, <1>6, <1>10 DEF InitInv
<1>12. \A v \in Writers : Initialising(v)' = Initialising(v) /\ call'[v].learner = call[v].learner
  BY <1>0, <1>1, <1>6 DEF Initialising, c
<1>13. ASSUME NEW v \in Writers, Initialising(v)', v # w PROVE InitInv(v)'
  <2>1. InitInv(v) /\ call'[v] = call[v]  BY <1>6, <1>12, <1>13 DEF GraphInv
  <2>2. call[v].learner # p /\ call[v].learner \in Profiles
    BY <2>1, <1>0, <1>1, <1>12, <1>13 DEF CallInv, Initialising, InitInv, c
  <2>3. \A s : <<call[v].learner, s>> \in Node' <=> <<call[v].learner, s>> \in Node
    BY <2>2, <1>4
  <2>4. \A b \in Skills \ call[v].skills : InPlace(call[v].learner, b)'
    BY <2>1, <2>2, <1>9 DEF InitInv
  <2> QED  BY <2>1, <2>3, <2>4 DEF InitInv
<1>14. ASSUME NEW q \in Profiles
       PROVE  \/ \E v \in Writers : Initialising(v)' /\ call'[v].learner = q
              \/ \A b \in Skills : InPlace(q, b)'
  <2>1. CASE q = p  BY <2>1, <1>0, <1>1, <1>12 DEF Initialising, c
  <2>2. CASE q # p
    <3>1. CASE \A b \in Skills : InPlace(q, b)  BY <3>1, <2>2, <1>9
    <3>2. CASE \E v \in Writers : Initialising(v) /\ call[v].learner = q  BY <3>2, <1>12
    <3> QED  BY <3>1, <3>2 DEF GraphInv
  <2> QED  BY <2>1, <2>2
<1> QED  BY <1>7, <1>11, <1>13, <1>14 DEF GraphInv

\* The edges of a call are created when all its skills have nodes.
LEMMA GraphEdges ==
    ASSUME GraphInv, CallInv, NEW w \in Writers, InitEdges(w)
    PROVE  GraphInv'
<1>0. PICK p \in Profiles : p = call[w].learner
  BY DEF InitEdges, GraphInv, Initialising, InitInv
<1> DEFINE c == call[w]
           new == {e \in ({p} \X Skills) \X ({p} \X c.skills) :
                      e[1][2] \in Prereqs[e[2][2]] /\ {e[1], e[2]} \subseteq DOMAIN nodes}
           list == SetToSeq(new)
<1>1. /\ c.pc = "insert" /\ c.todo = {} /\ edges' = edges \o list /\ nodes' = nodes
      /\ call' = [call EXCEPT ![w] = Idle]
  BY <1>0 DEF InitEdges, Leave
<1>2. InitInv(w)  BY <1>1 DEF GraphInv, Initialising
<1>3. c.skills \subseteq Skills  BY DEF CallInv, CallType
<1>4. Node' = Node  BY <1>1 DEF Node
<1>5. call'[w] = Idle /\ \A v \in Writers : v # w => call'[v] = call[v]
  BY <1>1 DEF CallInv
<1>6. \A e \in new : /\ e \in Node \X Node /\ e[1][1] = e[2][1]
                     /\ e[1][2] \in Prereqs[e[2][2]]
  BY DEF Node
<1>7. ASSUME NEW s \in Skills, NEW b \in c.skills, s \in Prereqs[b],
             <<p, s>> \in Node, <<p, b>> \in Node
      PROVE  <<<<p, s>>, <<p, b>>>> \in new
  BY <1>7 DEF Node
<1> HIDE DEF c, new
<1>8. IsFiniteSet(Node) /\ edges \in Seq(Node \X Node)  BY DEF GraphInv, Graph
<1>9. IsFiniteSet(new)  BY <1>6, <1>8, JoinedFinite
<1>10. list \in Seq(new) /\ Range(list) = new  BY <1>9, Listed
<1> HIDE DEF list
<1> DEFINE E == Node \X Node
<1>11. list \in Seq(E)
  <2>1. new \subseteq E  BY <1>6
  <2> HIDE DEF E
  <2> QED  BY <2>1, <1>10
<1>12. /\ edges' \in Seq(E) /\ Len(edges') = Len(edges) + Len(list)
       /\ Len(edges) \in Nat /\ Len(list) \in Nat /\ DOMAIN list = 1..Len(list)
       /\ \A k \in 1..(Len(edges) + Len(list)) :
             edges'[k] = IF k <= Len(edges) THEN edges[k] ELSE list[k - Len(edges)]
  <2> HIDE DEF E
  <2> QED  BY <1>1, <1>8, <1>11 DEF E
<1>13. \A k \in 1..Len(edges) : k \in 1..Len(edges') /\ edges'[k] = edges[k]
  BY <1>12
<1>14. \A e \in new : \E k \in 1..Len(edges') : edges'[k] = e
  <2> SUFFICES ASSUME NEW e \in new PROVE \E k \in 1..Len(edges') : edges'[k] = e
    OBVIOUS
  <2>1. PICK j \in 1..Len(list) : list[j] = e  BY <1>10, <1>12 DEF Range
  <2> DEFINE k == Len(edges) + j
  <2>2. k \in 1..Len(edges') /\ ~(k <= Len(edges)) /\ k - Len(edges) = j  BY <1>12
  <2> HIDE DEF k
  <2>3. edges'[k] = list[k - Len(edges)]  BY <2>2, <1>12
  <2> QED  BY <2>1, <2>2, <2>3
<1>15. \A k \in 1..Len(edges') : edges'[k] \in new \/ \E j \in 1..Len(edges) : edges'[k] = edges[j]
  <2> SUFFICES ASSUME NEW k \in 1..Len(edges')
               PROVE  edges'[k] \in new \/ \E j \in 1..Len(edges) : edges'[k] = edges[j]
    OBVIOUS
  <2>1. CASE k <= Len(edges)
    <3>1. k \in 1..Len(edges) /\ edges'[k] = edges[k]  BY <2>1, <1>12
    <3> QED  BY <3>1
  <2>2. CASE ~(k <= Len(edges))
    <3> DEFINE j == k - Len(edges)
    <3>1. j \in 1..Len(list) /\ edges'[k] = list[j]  BY <2>2, <1>12
    <3> HIDE DEF j
    <3>2. list[j] \in new  BY <3>1, <1>10, <1>12 DEF Range
    <3> QED  BY <3>1, <3>2
  <2> QED  BY <2>1, <2>2
<1> HIDE DEF E
<1>16. Graph' /\ EdgesHonest' /\ (Node \subseteq Profiles \X Skills)'
  <2>1. Graph' /\ (Node \subseteq Profiles \X Skills)'
    BY <1>4, <1>8, <1>12 DEF Graph, GraphInv, E
  <2>2. EdgesHonest'  BY <1>6, <1>15 DEF GraphInv, EdgesHonest
  <2> QED  BY <2>1, <2>2
<1>17. \A m1, m2 : Leads(m1, m2) => Leads(m1, m2)'  BY <1>13 DEF Leads
<1>18. ASSUME NEW q, NEW b, InPlace(q, b) PROVE InPlace(q, b)'
  BY <1>4, <1>17, <1>18 DEF InPlace, Below, Joined
<1>19. ASSUME NEW b \in Skills PROVE InPlace(p, b)'
  <2>1. CASE b \notin c.skills
    <3>1. InPlace(p, b)  BY <2>1, <1>0, <1>2 DEF InitInv, c
    <3> QED  BY <3>1, <1>18
  <2>2. CASE b \in c.skills
    <3>1. \A s \in c.skills : <<p, s>> \in Node  BY <1>0, <1>1, <1>2 DEF InitInv, c
    <3>2. Below(p, b)'
      BY <2>2, <3>1, <1>2, <1>4 DEF Below, InitInv, c
    <3>3. ASSUME NEW s \in Prereqs[b], <<p, s>> \in Node
          PROVE  Leads(<<p, s>>, <<p, b>>)'
      <4>1. s \in Skills  BY StoresAssumption
      <4>2. <<<<p, s>>, <<p, b>>>> \in new  BY <2>2, <3>1, <3>3, <4>1, <1>7
      <4>3. PICK k \in 1..Len(edges') : edges'[k] = <<<<p, s>>, <<p, b>>>>  BY <4>2, <1>14
      <4> QED  BY <4>3 DEF Leads
    <3> QED  BY <3>2, <3>3, <1>4 DEF InPlace, Joined
  <2> QED  BY <2>1, <2>2
<1>20. \A v \in Writers : Initialising(v)' => v # w /\ Initialising(v) /\ call'[v] = call[v]
  BY <1>5 DEF Initialising, Idle
<1>21. ASSUME NEW v \in Writers, Initialising(v)' PROVE InitInv(v)'
  <2>1. InitInv(v) /\ call'[v] = call[v]  BY <1>20, <1>21 DEF GraphInv
  <2> QED  BY <2>1, <1>4, <1>18 DEF InitInv
<1>22. ASSUME NEW q \in Profiles
       PROVE  \/ \E v \in Writers : Initialising(v)' /\ call'[v].learner = q
              \/ \A b \in Skills : InPlace(q, b)'
  <2>1. CASE q = p  BY <2>1, <1>19
  <2>2. CASE \A b \in Skills : InPlace(q, b)  BY <2>2, <1>18
  <2>3. CASE q # p /\ \E v \in Writers : Initialising(v) /\ call[v].learner = q
    <3>1. PICK v \in Writers : Initialising(v) /\ call[v].learner = q  BY <2>3
    <3>2. v # w  BY <3>1, <2>3, <1>0 DEF c
    <3> QED  BY <3>1, <3>2, <1>5 DEF Initialising
  <2> QED  BY <2>1, <2>2, <2>3 DEF GraphInv
<1> QED  BY <1>16, <1>21, <1>22 DEF GraphInv

\* When no two calls are about one learner at once, every step keeps GraphInv.
LEMMA GraphStep == ~Overlap /\ AgreeInv /\ GraphInv /\ [Next]_vars => GraphInv'
<1> SUFFICES ASSUME ~Overlap, AgreeInv, GraphInv, [Next]_vars PROVE GraphInv'  OBVIOUS
<1>1. CallInv  BY DEF AgreeInv
<1>2. CASE UNCHANGED <<graphVars, call>>
  BY <1>2, GraphKept DEF graphVars, Initialising
<1>3. ASSUME NEW w \in Writers, NEW p \in Profiles, NEW l \in Levels,
             InitializeLearnerSkills(w, p, l)
      PROVE  GraphInv'
  BY <1>1, <1>3, GraphBegin
<1>4. ASSUME NEW w \in Writers, InitInsert(w) PROVE GraphInv'  BY <1>1, <1>4, GraphInsert
<1>5. ASSUME NEW w \in Writers, InitNode(w) PROVE GraphInv'  BY <1>1, <1>5, GraphNode
<1>6. ASSUME NEW w \in Writers, InitEdges(w) PROVE GraphInv'  BY <1>1, <1>6, GraphEdges
<1>7. ASSUME NEW w \in Writers, NEW p \in Profiles, NEW s \in Skills, NEW conf \in Confidences,
             NEW status \in Statuses,
             UpdateSkillConfidence(w, p, s, [conf |-> conf, status |-> status])
      PROVE  GraphInv'
  <2> DEFINE value == [conf |-> conf, status |-> status]
  <2>1. UNCHANGED graphVars  BY <1>7 DEF UpdateSkillConfidence
  <2>2. CASE UNCHANGED call  BY <2>1, <2>2, <1>2
  <2>3. CASE Enter(w, [Idle EXCEPT !.pc = "property", !.learner = p,
                                   !.skill = s, !.value = value])
    <3>1. call[w] = Idle /\ call'[w].pc = "property"
          /\ \A v \in Writers : v # w => call'[v] = call[v]
      BY <2>3, <1>1 DEF Enter, CallInv, Idle
    <3>2. \A v \in Writers : Initialising(v)' = Initialising(v)
                             /\ (Initialising(v) => call'[v] = call[v])
      BY <3>1 DEF Initialising, Idle
    <3> QED  BY <3>2, <2>1, GraphKept DEF graphVars
  <2> QED  BY <1>7, <2>2, <2>3 DEF UpdateSkillConfidence
<1>8. ASSUME NEW w \in Writers, UpdateProperty(w) \/ UpdateStatus(w) PROVE GraphInv'
  <2>1. /\ call[w].pc \in {"property", "status"} /\ edges' = edges
        /\ DOMAIN nodes' = DOMAIN nodes
        /\ call' = [call EXCEPT ![w] = Idle] \/ call' = [call EXCEPT ![w].pc = "status"]
    BY <1>8 DEF UpdateProperty, UpdateStatus, Leave
  <2>2. /\ call'[w].pc \in {"idle", "status"}
        /\ \A v \in Writers : v # w => call'[v] = call[v]
    BY <2>1, <1>1 DEF CallInv, CallType, Idle
  <2>3. \A v \in Writers : Initialising(v)' = Initialising(v)
                           /\ (Initialising(v) => call'[v] = call[v])
    BY <2>1, <2>2 DEF Initialising, Idle
  <2> QED  BY <2>1, <2>3, GraphKept
<1>9. ASSUME NEW u \in Users, NEW e \in Emails, InsertUser(u, e) PROVE GraphInv'
  BY <1>9, <1>2 DEF InsertUser
<1>10. ASSUME NEW p \in Profiles, NEW u \in Users, InsertProfile(p, u) PROVE GraphInv'
  BY <1>10, <1>2 DEF InsertProfile
<1>11. ASSUME NEW s \in Sessions, NEW p \in Profiles, InsertSession(s, p) PROVE GraphInv'
  BY <1>11, <1>2 DEF InsertSession
<1>12. ASSUME NEW r \in Results, NEW s \in Sessions, NEW p \in Profiles, InsertResult(r, s, p)
       PROVE  GraphInv'
  BY <1>12, <1>2 DEF InsertResult
<1>13. ASSUME NEW r \in Results, NEW p \in Profiles, InsertActivityEvent(r, p) PROVE GraphInv'
  BY <1>13, <1>2 DEF InsertActivityEvent
<1>14. ASSUME NEW u \in Users, DeleteUser(u) PROVE GraphInv'
  BY <1>14, <1>2 DEF DeleteUser
<1>15. CASE UNCHANGED vars  BY <1>15, <1>2 DEF vars, graphVars
<1> QED  BY <1>3, <1>4, <1>5, <1>6, <1>7, <1>8, <1>9, <1>10, <1>11, <1>12, <1>13, <1>14, <1>15
         DEF Next

\* Of a learner no call is about, the graph joins exactly the prerequisites it has
\* nodes for.
LEMMA IncidentIs ==
    ASSUME GraphInv, NEW p \in Profiles, ~Busy(p)
    PROVE  LET Mine == {n \in DOMAIN nodes : n[1] = p}
               Edge == {e \in Mine \X Mine : e[1][2] \in Prereqs[e[2][2]]}
           IN  /\ Incident(p) = Edge
               /\ \A m, n : Leads(m, n) /\ (m \in Mine \/ n \in Mine) => <<m, n>> \in Edge
               /\ \A m, n : <<m, n>> \in Edge => Leads(m, n)
<1> DEFINE Mine == {n \in DOMAIN nodes : n[1] = p}
           Edge == {e \in Mine \X Mine : e[1][2] \in Prereqs[e[2][2]]}
<1>1. edges \in Seq(Node \X Node) /\ Node \subseteq Profiles \X Skills /\ EdgesHonest
  BY DEF GraphInv, Graph
<1> DEFINE E == Node \X Node
<1>2. Len(edges) \in Nat /\ DOMAIN edges = 1..Len(edges)
      /\ \A k \in 1..Len(edges) : edges[k] \in E
  <2> HIDE DEF E
  <2>1. edges \in Seq(E)  BY <1>1 DEF E
  <2> QED  BY <2>1
<1>3. \A b \in Skills : InPlace(p, b)
  BY DEF GraphInv, Busy
<1>4. \A m, n : Leads(m, n) => \E k \in 1..Len(edges) : edges[k] = <<m, n>>
  BY <1>2 DEF Leads
<1>5. \A m, n : Leads(m, n) => /\ m \in Node /\ n \in Node /\ m[1] = n[1]
                               /\ m[2] \in Prereqs[n[2]]
  BY <1>1, <1>2 DEF Leads, EdgesHonest
<1>6. ASSUME NEW m, NEW n, Leads(m, n), m \in Mine \/ n \in Mine
      PROVE  <<m, n>> \in Edge
  BY <1>5, <1>6 DEF Node
<1>7. ASSUME NEW m, NEW n, <<m, n>> \in Edge PROVE Leads(m, n)
  <2>1. m \in Node /\ n \in Node /\ m[1] = p /\ n[1] = p /\ m[2] \in Prereqs[n[2]]
    BY <1>7 DEF Node
  <2>2. m = <<p, m[2]>> /\ n = <<p, n[2]>> /\ n[2] \in Skills  BY <2>1, <1>1
  <2>3. Joined(p, n[2])  BY <2>1, <2>2, <1>3 DEF InPlace
  <2> QED  BY <2>1, <2>2, <2>3 DEF Joined
<1>8. ASSUME NEW e \in Incident(p) PROVE e \in Edge
  <2>1. e \in Range(edges) /\ (e[1][1] = p \/ e[2][1] = p)  BY DEF Incident
  <2>2. PICK k \in 1..Len(edges) : edges[k] = e  BY <2>1, <1>2 DEF Range
  <2>3. e \in E /\ Leads(e[1], e[2])  BY <2>2, <1>2 DEF Leads
  <2>4. e = <<e[1], e[2]>> /\ (e[1] \in Mine \/ e[2] \in Mine)  BY <2>1, <2>3 DEF Node
  <2> QED  BY <2>3, <2>4, <1>6
<1>9. ASSUME NEW e \in Edge PROVE e \in Incident(p)
  <2>1. e = <<e[1], e[2]>> /\ e[1][1] = p  OBVIOUS
  <2> HIDE DEF Edge
  <2>2. Leads(e[1], e[2])  BY <2>1, <1>7
  <2>3. PICK k \in 1..Len(edges) : edges[k] = e  BY <2>1, <2>2, <1>4
  <2>4. e \in Range(edges)  BY <2>3, <1>2 DEF Range
  <2> QED  BY <2>1, <2>4 DEF Incident
<1> QED  BY <1>6, <1>7, <1>8, <1>9

\* FindPath's promise follows from what the search promises.
LEMMA PathsFoundNow == GraphInv => PathsFound
<1> SUFFICES ASSUME GraphInv, NEW p \in Profiles, ~Busy(p)
             PROVE  LET Mine == {n \in DOMAIN nodes : n[1] = p}
                        Edge == {e \in Mine \X Mine : e[1][2] \in Prereqs[e[2][2]]}
                        Closed(S) == \A e \in Edge : e[1] \in S => e[2] \in S
                        Reaches(a, b) == \A S \in SUBSET Mine : a \in S /\ Closed(S) => b \in S
                    IN  /\ Incident(p) = Edge
                        /\ \A a, b \in Mine :
                             LET path == FindPath(a, b)
                             IN  IF a = b THEN path = <<a>>
                                 ELSE /\ path # << >> <=> Reaches(a, b)
                                      /\ path # << >> => path[1] = a /\ path[Len(path)] = b
                                      /\ <<a, b>> \in Edge => Len(path) = 2
                                      /\ \A i \in 1..(Len(path) - 1) :
                                           <<path[i], path[i + 1]>> \in Edge
  BY DEF PathsFound
<1> DEFINE Mine == {n \in DOMAIN nodes : n[1] = p}
           Edge == {e \in Mine \X Mine : e[1][2] \in Prereqs[e[2][2]]}
           Closed(S) == \A e \in Edge : e[1] \in S => e[2] \in S
           Reaches(a, b) == \A S \in SUBSET Mine : a \in S /\ Closed(S) => b \in S
<1>1. /\ Incident(p) = Edge
      /\ \A m, n : Leads(m, n) /\ (m \in Mine \/ n \in Mine) => <<m, n>> \in Edge
      /\ \A m, n : <<m, n>> \in Edge => Leads(m, n)
  BY IncidentIs
<1>2. Mine \subseteq Node /\ Graph  BY DEF GraphInv, Node
<1>3. \A e \in Edge : e = <<e[1], e[2]>> /\ e[1] \in Mine /\ e[2] \in Mine  OBVIOUS
<1> HIDE DEF Mine, Edge
<1>4. ASSUME NEW S \in SUBSET Mine, Closed(S) PROVE ClosedSet(S)
  <2> SUFFICES ASSUME NEW m \in S, NEW n \in Node, Leads(m, n) PROVE n \in S
    BY DEF ClosedSet
  <2>1. <<m, n>> \in Edge  BY <1>1
  <2> QED  BY <2>1, <1>4
<1>5. ASSUME NEW S \in SUBSET Node, ClosedSet(S) PROVE Closed(S \cap Mine)
  <2> SUFFICES ASSUME NEW e \in Edge, e[1] \in S PROVE e[2] \in S \cap Mine
    OBVIOUS
  <2>1. Leads(e[1], e[2]) /\ e[2] \in Mine  BY <1>1, <1>3
  <2> QED  BY <2>1, <1>2, <1>5 DEF ClosedSet
<1>6. ClosedSet(Mine)
  <2>1. Closed(Mine)  BY <1>3
  <2> QED  BY <2>1, <1>4
<1>7. ASSUME NEW a \in Mine, NEW b \in Mine, a # b
      PROVE  LET path == FindPath(a, b)
             IN  /\ path # << >> <=> Reaches(a, b)
                 /\ path # << >> => path[1] = a /\ path[Len(path)] = b
                 /\ <<a, b>> \in Edge => Len(path) = 2
                 /\ \A i \in 1..(Len(path) - 1) : <<path[i], path[i + 1]>> \in Edge
  <2> DEFINE path == FindPath(a, b)
  <2>1. Found(a, b, path)  BY <1>2, PathIs
  <2> HIDE DEF path
  <2>2. (\A S \in SUBSET Node : a \in S /\ ClosedSet(S) => b \in S) <=> Reaches(a, b)
    <3>1. ASSUME \A S \in SUBSET Node : a \in S /\ ClosedSet(S) => b \in S,
                 NEW S \in SUBSET Mine, a \in S, Closed(S)
          PROVE  b \in S
      BY <3>1, <1>2, <1>4
    <3>2. ASSUME Reaches(a, b), NEW S \in SUBSET Node, a \in S, ClosedSet(S)
          PROVE  b \in S
      <4>1. Closed(S \cap Mine)  BY <3>2, <1>5
      <4> QED  BY <3>2, <4>1
    <3> QED  BY <3>1, <3>2
  <2>3. path # << >> <=> Reaches(a, b)  BY <2>1, <2>2, <1>7 DEF Found
  <2>4. path # << >> => path[1] = a /\ path[Len(path)] = b  BY <2>1 DEF Found
  <2>5. <<a, b>> \in Edge => Len(path) = 2  BY <2>1, <1>1, <1>7 DEF Found
  <2>6. ASSUME NEW i \in 1..(Len(path) - 1) PROVE <<path[i], path[i + 1]>> \in Edge
    <3>1. CASE path = << >>
      <4>1. Len(path) = 0  BY <3>1
      <4> QED  BY <4>1
    <3>2. CASE path # << >>
      <4>1. /\ Len(path) \in Nat /\ Leads(path[i], path[i + 1])
            /\ \A j \in 1..Len(path) : path[j] \in Mine
        BY <3>2, <2>1, <1>2, <1>6 DEF Found
      <4>2. path[i] \in Mine  BY <4>1
      <4> QED  BY <4>1, <4>2, <1>1
    <3> QED  BY <3>1, <3>2
  <2> QED  BY <2>3, <2>4, <2>5, <2>6 DEF path
<1>8. ASSUME NEW a \in Mine PROVE FindPath(a, a) = <<a>>
  <2>1. Found(a, a, FindPath(a, a))  BY <1>2, PathIs
  <2> QED  BY <2>1 DEF Found
<1> HIDE DEF Closed, Reaches
<1>9. ASSUME NEW a \in Mine, NEW b \in Mine
      PROVE  LET path == FindPath(a, b)
             IN  IF a = b THEN path = <<a>>
                 ELSE /\ path # << >> <=> Reaches(a, b)
                      /\ path # << >> => path[1] = a /\ path[Len(path)] = b
                      /\ <<a, b>> \in Edge => Len(path) = 2
                      /\ \A i \in 1..(Len(path) - 1) : <<path[i], path[i + 1]>> \in Edge
  <2>1. CASE a = b  BY <2>1, <1>8
  <2>2. CASE a # b  BY <2>2, <1>7
  <2> QED  BY <2>1, <2>2
<1> QED  BY <1>1, <1>9 DEF Mine, Edge, Closed, Reaches

\* Once the skills of a learner are initialised, for any skills, prerequisites and
\* levels, at whatever levels again, and while other learners' calls and deletions
\* go on: the graph has exactly the learner's prerequisites, and FindPath finds a
\* path where there is one, in as many rounds as there are nodes.
THEOREM PathsAreFound == ~Overlap /\ Spec => []PathsFound
<1> SUFFICES ASSUME ~Overlap PROVE Spec => []PathsFound  OBVIOUS
<1>1. AgreeInv /\ [Next]_vars => AgreeInv'  BY AgreeStep
<1>2. AgreeInv /\ GraphInv /\ [Next]_vars => GraphInv'  BY GraphStep
<1> QED  BY <1>1, <1>2, AgreeInit, GraphInit, PathsFoundNow, PTL DEF Spec
=============================================================================
