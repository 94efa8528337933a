--------------------------- MODULE LearnerSkills ---------------------------
(***************************************************************************)
(* The skill rows of one learner and everything that reads and writes      *)
(* them: profile creation, the skill part of a submitted answer, the       *)
(* planning of a session, and the placement test, each a request of        *)
(* separate statements (handler/, store/skill.go) that overlap and may     *)
(* fail.  Rows are read and written whole.                                 *)
(***************************************************************************)
EXTENDS Placement, Fsrs

CONSTANTS
    Skills,
    SkillOrder,   \* the skills as ORDER BY skill_id answers them
    SkillLevel,   \* SkillLevel[s]: the CEFR level of a skill
    Prereqs,      \* Prereqs[s]: what must be known before s
    Content,      \* the atoms: [id, skills, level, diff, quality]
    RecentlyUsed, \* the sets of atoms a week may have seen
    Requests,     \* slots for requests being served at once
    Recalls,      \* the recall, in percent, an answer may come at
    Attempts,     \* the answers: [right, hints, slow, err]
    MaxItems,     \* items of a session
    MaxAnswers,   \* bound: answers submitted
    MaxPlans,     \* bound: sessions generated
    MaxTests      \* bound: placement tests submitted

ASSUME SkillsAssumption ==
    /\ IsFiniteSet(Skills)
    /\ SkillOrder \in Seq(Skills)
    /\ \A i, j \in DOMAIN SkillOrder : SkillOrder[i] = SkillOrder[j] => i = j
    /\ SkillLevel \in [Skills -> 1..6]
    /\ Prereqs \in [Skills -> SUBSET Skills]
    /\ Recalls \subseteq 0..100
    /\ Attempts \subseteq [right : BOOLEAN, hints : 0..3, slow : BOOLEAN, err : ErrorTypes]
    /\ MaxItems \in Nat

VARIABLES
    level,     \* learner_profiles.current_level; 0: no profile yet
    rows,      \* learner_skills, by skill
    req,       \* the statement each request is about to execute
    count,     \* answers, plans and tests so far
    unseeded   \* history: an InitializeSkills failed

vars == <<level, rows, req, count, unseeded, test>>

\* The values of the column type skill_status.
Storable == Statuses \ {"relearning"}

Idle == [pc |-> "idle"]

Init ==
    /\ level = 0
    /\ rows = [s \in {} |-> NewSkillState]
    /\ req = [p \in Requests |-> Idle]
    /\ count = [answers |-> 0, plans |-> 0, tests |-> 0]
    /\ unseeded = FALSE
    /\ test = NoTest

Go(p, next) == req' = [req EXCEPT ![p] = next]

\* The row InitializeSkills inserts, which is not NewSkillState.
SeededRow == [NewSkillState EXCEPT !.stab = 0, !.diff = 50]

\* Mutant of UpTo (SeededUpToLevel): the levels below the target only.
UpToBelow(l) == {s \in Skills : SkillLevel[s] = 1 \/ SkillLevel[s] < l}

\* The skills of a level and of those below it.
UpTo(l) == {s \in Skills : SkillLevel[s] <= l}

\* InitializeSkills: one insert that leaves the rows there are alone.
InitializeSkills(l) ==
    rows' = [s \in DOMAIN rows \cup UpTo(l) |->
                IF s \in DOMAIN rows THEN rows[s] ELSE SeededRow]

\* It succeeds, or fails and is only logged.
SeedOrFail(l) ==
    \/ InitializeSkills(l) /\ unseeded' = unseeded
    \/ unseeded' = TRUE /\ rows' = rows

-----------------------------------------------------------------------------
(* Creating the profile *)

CreateProfile(p) ==
    /\ req[p] = Idle /\ level = 0
    /\ level' = 1
    /\ Go(p, [pc |-> "init"])
    /\ UNCHANGED <<rows, count, unseeded, test>>

CreateInit(p) ==
    /\ req[p].pc = "init"
    /\ SeedOrFail(1)
    /\ Go(p, Idle)
    /\ UNCHANGED <<level, count, test>>

-----------------------------------------------------------------------------
(* Submitting an answer *)

\* The row is read and the schedule computed.
SubmitRead(p, s, a, r) ==
    /\ req[p] = Idle /\ count.answers < MaxAnswers
    /\ s \in DOMAIN rows
    /\ ~rows[s].reviewed => r = 100
    /\ count' = [count EXCEPT !.answers = @ + 1]
    /\ Go(p, [pc |-> "upsert", skill |-> s,
              row |-> UpdateSkillState(rows[s], Grade(a.right, a.hints, a.slow), a.err, r)])
    /\ UNCHANGED <<level, rows, unseeded, test>>

\* UpsertLearnerSkill writes the whole row; the statement fails on a status
\* the column does not have, or for another reason, and is only logged.
UpsertLearnerSkill(s, row) ==
    \/ row.status \in Storable /\ rows' = [rows EXCEPT ![s] = row]
    \/ rows' = rows

SubmitUpsert(p) ==
    /\ req[p].pc = "upsert"
    /\ UpsertLearnerSkill(req[p].skill, req[p].row)
    /\ Go(p, Idle)
    /\ UNCHANGED <<level, count, unseeded, test>>

-----------------------------------------------------------------------------
(* Planning a session *)

\* What a plan looks at of a row.
Read(s) == [skill |-> s, conf |-> rows[s].conf, status |-> rows[s].status,
            attempts |-> rows[s].attempts]

\* A query that answers at most MaxItems of these skills in an order of its own.
QueryOf(set, Before(_, _)) ==
    {q \in {[i \in DOMAIN o |-> Read(o[i])] : o \in SetToSeqs(set)} :
         \A i, j \in DOMAIN q : i < j => ~Before(q[j], q[i])}

GetDueForReview == {Prefix(q, MaxItems) :
    q \in QueryOf({s \in DOMAIN rows : rows[s].due}, LAMBDA a, b : FALSE)}

GetWeakest == {Prefix(q, MaxItems) :
    q \in QueryOf({s \in DOMAIN rows : rows[s].status # "new"},
                  LAMBDA a, b : a.conf < b.conf)}

GetLearnerSkills ==
    LET seeded == Kept(SkillOrder, {i \in DOMAIN SkillOrder : SkillOrder[i] \in DOMAIN rows})
    IN  [i \in DOMAIN seeded |-> Read(seeded[i])]

\* Mutant of GetUnlockedSkills (PlanSound): any row of a prerequisite will do.
GetUnlockedSkillsSeen == {s \in Skills : Prereqs[s] \subseteq DOMAIN rows}

\* Skills all of whose prerequisites are known with a confidence of 0.3.
GetUnlockedSkills ==
    {s \in Skills : \A k \in Prereqs[s] : k \in DOMAIN rows /\ rows[k].conf >= 300}

\* The skills confident enough to build on (PrerequisiteThreshold).
Known == {s \in DOMAIN rows : rows[s].conf >= 300}

PlanRead(p) ==
    /\ req[p] = Idle /\ level # 0 /\ count.plans < MaxPlans
    /\ count' = [count EXCEPT !.plans = @ + 1]
    /\ Go(p, [pc |-> "due", level |-> level])
    /\ UNCHANGED <<level, rows, unseeded, test>>

PlanDue(p) ==
    /\ req[p].pc = "due"
    /\ \E due \in GetDueForReview :
           Go(p, [pc |-> "weak", level |-> req[p].level, due |-> due])
    /\ UNCHANGED <<level, rows, count, unseeded, test>>

PlanWeak(p) ==
    /\ req[p].pc = "weak"
    /\ \E weak \in GetWeakest :
           Go(p, [pc |-> "all", level |-> req[p].level, due |-> req[p].due, weak |-> weak])
    /\ UNCHANGED <<level, rows, count, unseeded, test>>

WithAll(p) == [pc |-> "unlocked", level |-> req[p].level, due |-> req[p].due,
               weak |-> req[p].weak, all |-> GetLearnerSkills]

\* A learner without rows gets those of the level read at the beginning.
PlanAll(p) ==
    /\ req[p].pc = "all"
    /\ IF rows = << >>
       THEN SeedOrFail(req[p].level) /\ Go(p, [req[p] EXCEPT !.pc = "again"])
       ELSE /\ Go(p, WithAll(p))
            /\ UNCHANGED <<rows, unseeded>>
    /\ UNCHANGED <<level, count, test>>

PlanAgain(p) ==
    /\ req[p].pc = "again"
    /\ Go(p, WithAll(p))
    /\ UNCHANGED <<level, rows, count, unseeded, test>>

\* The atoms of the level read at the beginning for one of these skills.  The
\* learner's segment is asked first, the others when that gives less than two
\* atoms an item: with a catalogue this small, always.
AvailableContent(plan, l) ==
    {c \in Content : c.level = l /\ \E i \in DOMAIN plan : Contains(c.skills, plan[i].row.skill)}

\* With no selection the request answers without creating a session.  Content
\* does not change, so its queries and BuildSession are taken with the last
\* read of the rows.  The field knew is history: what was known at that read.
PlanUnlocked(p) ==
    /\ req[p].pc = "unlocked"
    /\ \E plan \in {SelectSkills(req[p].due, req[p].weak, req[p].all, MaxItems,
                                GetUnlockedSkills)} :
       \E content \in {AvailableContent(plan, req[p].level)} :
           IF plan = << >> THEN Go(p, Idle)
           ELSE \E used \in {r \cap {c.id : c \in content} : r \in RecentlyUsed} :
                \E items \in BuildSession(plan, content, used) :
                    Go(p, [pc |-> "planned", selections |-> plan, content |-> content,
                           used |-> used, items |-> items, knew |-> Known])
    /\ UNCHANGED <<level, rows, count, unseeded, test>>

\* The session and its items are created (SessionLifecycle) and answered.
PlanAnswer(p) ==
    /\ req[p].pc = "planned"
    /\ Go(p, Idle)
    /\ UNCHANGED <<level, rows, count, unseeded, test>>

-----------------------------------------------------------------------------
(* The placement test *)

\* The page, for a learner with a profile.  Until it submits it shares nothing
\* with the requests, so its steps commute with theirs and are taken before them.
Page ==
    /\ level # 0 /\ count.tests < MaxTests
    /\ \A p \in Requests : req[p] = Idle
    /\ PageStep
    /\ UNCHANGED <<level, rows, req, count, unseeded>>

\* SubmitPlacement finds the profile; the page waits for the answer.
PlacementSubmit(p) ==
    /\ req[p] = Idle /\ test.phase = "submitting"
    /\ count' = [count EXCEPT !.tests = @ + 1]
    /\ Go(p, [pc |-> "level", level |-> DeterminedLevel(test.results, test.stopped),
              known |-> [i \in DOMAIN SelectSeq(test.results, LAMBDA x : x.right) |->
                            SelectSeq(test.results, LAMBDA x : x.right)[i].skill]])
    /\ test' = [NoTest EXCEPT !.phase = "result"]
    /\ UNCHANGED <<level, rows, unseeded>>

\* UpdateLevel, whose failure is only logged.
PlacementLevel(p) ==
    /\ req[p].pc = "level"
    /\ level' \in {req[p].level, level}
    /\ Go(p, [req[p] EXCEPT !.pc = "seed"])
    /\ UNCHANGED <<rows, count, unseeded, test>>

PlacementSeed(p) ==
    /\ req[p].pc = "seed"
    /\ SeedOrFail(req[p].level)
    /\ Go(p, [req[p] EXCEPT !.pc = "grant"])
    /\ UNCHANGED <<level, count, test>>

\* Mutant of Granted (StatusHonest): the attempts are left alone.
GrantedKept(row) == [row EXCEPT !.conf = 500, !.status = "learning", !.streak = 1]

\* The row of a skill answered right, with the four columns set over whatever
\* the learner had.
Granted(row) ==
    [row EXCEPT !.conf = 500, !.status = "learning", !.attempts = 1, !.streak = 1]

\* The next skill answered right is read, if it has a row.
PlacementRead(p) ==
    /\ req[p].pc = "grant"
    /\ IF req[p].known = << >> THEN Go(p, Idle)
       ELSE LET s == Head(req[p].known)
                rest == [req[p] EXCEPT !.known = Tail(@)]
            IN  IF s \in DOMAIN rows
                THEN Go(p, [pc |-> "granted", skill |-> s, row |-> Granted(rows[s]), rest |-> rest])
                ELSE Go(p, rest)
    /\ UNCHANGED <<level, rows, count, unseeded, test>>

PlacementGrant(p) ==
    /\ req[p].pc = "granted"
    /\ UpsertLearnerSkill(req[p].skill, req[p].row)
    /\ Go(p, req[p].rest)
    /\ UNCHANGED <<level, count, unseeded, test>>

-----------------------------------------------------------------------------
Next ==
    \/ Page
    \/ \E p \in Requests :
           \/ CreateProfile(p) \/ CreateInit(p)
           \/ \E s \in Skills, a \in Attempts, r \in Recalls : SubmitRead(p, s, a, r)
           \/ SubmitUpsert(p)
           \/ PlanRead(p) \/ PlanDue(p) \/ PlanWeak(p) \/ PlanAll(p) \/ PlanAgain(p)
           \/ PlanUnlocked(p) \/ PlanAnswer(p)
           \/ PlacementSubmit(p) \/ PlacementLevel(p) \/ PlacementSeed(p)
           \/ PlacementRead(p) \/ PlacementGrant(p)

Spec == Init /\ [][Next]_vars

-----------------------------------------------------------------------------
(* Properties *)

\* Every row, stored or about to be, has the columns' types.
RowsOK ==
    /\ DOMAIN rows \subseteq Skills
    /\ \A s \in DOMAIN rows : rows[s] \in SkillRow
    /\ \A p \in Requests : req[p].pc \in {"upsert", "granted"} => req[p].row \in SkillRow

\* Rows keep to their columns, and a status tells the truth, whichever of two
\* overlapping requests wrote the row last: only a skill never answered is
\* new, and a mastered one has its five right answers in a row, among its
\* attempts.
StatusHonest ==
    /\ RowsOK
    /\ \A s \in DOMAIN rows :
        /\ rows[s].status = "new" <=> rows[s].attempts = 0
        /\ rows[s].streak <= rows[s].attempts
        /\ rows[s].status = "mastered" => rows[s].streak >= MasteredStreak

\* Unless an InitializeSkills failed, a learner whom no request is moving has
\* a row for every skill up to the level, however placements and plans overlapped.
SeededUpToLevel ==
    ~unseeded /\ (\A p \in Requests : req[p] = Idle) =>
        \A s \in Skills : SkillLevel[s] <= level => s \in DOMAIN rows

\* A plan made of four queries, between which answers and placements change
\* the rows, takes no skill twice and no more than were asked for.  A skill that
\* is new to the plan, or that the learner never attempted, is taken only if the
\* learner knew every prerequisite with a confidence of 0.3 when the plan was
\* made ("STRICTLY only unlocked"); only a review of an attempted skill may be
\* locked.  Where there is content, each selection has its item, and content
\* comes twice, or again so soon, only when nothing else is left for the skill.
PlanSound ==
    \A p \in Requests : req[p].pc = "planned" =>
        LET plan  == req[p].selections
            items == req[p].items
            Stale(i) == req[p].used \cup {items[k].content.id : k \in 1..(i - 1)}
            Better(i, c) == c.id \notin Stale(i) /\ Contains(c.skills, items[i].skill)
        IN  /\ Len(plan) <= MaxItems
            /\ \A i, j \in DOMAIN plan : plan[i].row.skill = plan[j].row.skill => i = j
            /\ \A i \in DOMAIN plan : (~plan[i].review \/ plan[i].row.attempts = 0) =>
                   Prereqs[plan[i].row.skill] \subseteq req[p].knew
            /\ req[p].content # {} => Len(items) = Len(plan)
            /\ \A i \in DOMAIN items :
                   /\ items[i].skill = plan[i].row.skill
                   /\ items[i].content.id \in Stale(i) =>
                          ~\E c \in req[p].content : Better(i, c)

\* An answered skill has a stability, of which its next review is made
\* ("stability must be > 0.0").  Rows are seeded at stability 0, growth
\* multiplies the 0, and the lapse that would lift it to the minimum is refused
\* with its status, which the column does not have.
ReviewedIsStable == \A s \in DOMAIN rows : rows[s].reviewed => rows[s].stab > 0
=============================================================================
