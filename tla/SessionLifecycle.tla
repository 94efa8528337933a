-------------------------- MODULE SessionLifecycle --------------------------
(***************************************************************************)
(* A learner's practice sessions as services/api/internal/handler/         *)
(* session.go drives them over PostgreSQL: Generate creates a session and  *)
(* its items, Submit grades an answer and advances the session, Complete   *)
(* closes it and credits the learner's streak, XP and level.               *)
(*                                                                         *)
(* Each step is one SQL statement (or one transaction) of one HTTP request *)
(* together with the Go code up to the next statement, so requests         *)
(* interleave as the database lets them.  Any statement may fail and the   *)
(* process may stop between two of them.  There is one learner: no         *)
(* statement here touches two learners' rows.                              *)
(***************************************************************************)
EXTENDS Integers, FiniteSets

CONSTANTS
    Sessions,       \* session IDs
    Reqs,           \* HTTP requests in flight at once
    ItemCounts,     \* how many items BuildSession may return
    XpOf,           \* XpOf[right]: the values CalculateXP may give an answer
    XPForLevel,     \* XP thresholds of the levels from 2 upwards
    StreaksUsable,  \* whether learner_streaks has the columns StreakStore uses
    MaxResults,     \* bound: submissions
    MaxDays,        \* bound: calendar days
    MaxCompletes,   \* bound: Complete calls
    MaxFaults       \* bound: failed statements and process stops

ASSUME BoundsAssumption ==
    /\ ItemCounts \subseteq Nat
    /\ MaxResults \in Nat /\ MaxDays \in Nat
    /\ MaxCompletes \in Nat /\ MaxFaults \in Nat
    /\ XpOf \in [BOOLEAN -> SUBSET Nat]
    /\ IsFiniteSet(Reqs)
    /\ IsFiniteSet(DOMAIN XPForLevel)
    /\ StreaksUsable \in BOOLEAN

VARIABLES
    sess,       \* sessions rows: status, current_index, total_xp, accuracy_rate
    items,      \* number of session_items rows per session
    results,    \* exercise_results rows: how many, how many correct, XP earned
    attempts,   \* learner_skills.total_attempts of the practised skill
    streak,     \* the learner_streaks row
    day,        \* today's date
    req,        \* requests in flight: program counter and local variables
    calls,      \* submissions and completions started
    faults      \* statements failed and stops so far

\* History variables.
VARIABLES
    active,     \* days on which RecordActivity was executed
    summaries   \* summaries returned by Complete

vars == <<sess, items, results, attempts, streak, day, req, calls, faults,
           active, summaries>>

dbVars == <<sess, items, results, attempts, streak>>

None == [status |-> "none", idx |-> 0, xp |-> 0, acc |-> 0]

\* Local state of a request: the session it is about, the answer's correctness
\* and XP, the session row, skill counter, day and XP total it read.
Idle == [at |-> "idle", s |-> 0, right |-> FALSE, gain |-> 0, row |-> None,
         n |-> 0, today |-> 0, total |-> 0]

\* The row StreakStore.Get returns for a learner without one.
NoStreak == [cur |-> 0, longest |-> 0, last |-> 0, sessions |-> 0, xp |-> 0, level |-> 1]

Init ==
    /\ sess = [s \in Sessions |-> None]
    /\ items = [s \in Sessions |-> 0]
    /\ results = [s \in Sessions |-> [n |-> 0, right |-> 0, xp |-> 0]]
    /\ attempts = 0
    /\ streak = NoStreak
    /\ day = 1
    /\ req = [r \in Reqs |-> Idle]
    /\ calls = [submit |-> 0, complete |-> 0]
    /\ faults = 0
    /\ active = {}
    /\ summaries = {}

\* accuracy_rate is DECIMAL(4,3): thousandths, rounded to nearest on write.
Unit == 1000
Rounded(num, den) == (2 * num + den) \div (2 * den)

\* One more database statement may fail.
Fault == faults < MaxFaults /\ faults' = faults + 1

----------------------------------------------------------------------------
(* POST /sessions/generate                                                 *)

\* Everything up to the insert only reads (and initialises skills): when no
\* skill can be selected the handler answers without creating a session.
GenerateBegin(r, s) ==
    /\ req[r].at = "idle"
    /\ sess[s].status = "none"
    /\ \A q \in Reqs : req[q].at = "create" => req[q].s # s   \* uuid.New is fresh
    /\ req' = [req EXCEPT ![r] = [Idle EXCEPT !.at = "create", !.s = s]]
    /\ UNCHANGED <<dbVars, day, calls, faults, active, summaries>>

\* sessions.Create: the row is visible, active, before it has items.
GenerateCreate(r) ==
    LET s == req[r].s IN
    /\ req[r].at = "create"
    /\ \/ /\ sess' = [sess EXCEPT ![s] = [None EXCEPT !.status = "active"]]
          /\ req' = [req EXCEPT ![r].at = "items"]
          /\ UNCHANGED faults
       \/ Fault /\ req' = [req EXCEPT ![r] = Idle] /\ UNCHANGED sess
    /\ UNCHANGED <<items, results, attempts, streak, day, calls,
                   active, summaries>>

\* CreateSessionItems: one transaction of its own; on failure the handler
\* answers 500 and leaves the session as it is.
GenerateItems(r) ==
    LET s == req[r].s IN
    /\ req[r].at = "items"
    /\ \/ /\ \E n \in ItemCounts : items' = [items EXCEPT ![s] = n]
          /\ UNCHANGED faults
       \/ Fault /\ UNCHANGED items
    /\ req' = [req EXCEPT ![r] = Idle]
    /\ UNCHANGED <<sess, results, attempts, streak, day, calls,
                   active, summaries>>

----------------------------------------------------------------------------
(* POST /sessions/{id}/submit                                              *)

\* The session is loaded for the ownership check (its status is not looked
\* at), the error is classified, the content looked up, the learner's skill
\* row read, and the XP computed from them and the streak.  Content that names
\* no skill skips the skill update.
SubmitBegin(r, s, right) ==
    /\ req[r].at = "idle"
    /\ sess[s].status # "none"
    /\ calls.submit < MaxResults
    /\ calls' = [calls EXCEPT !.submit = @ + 1]
    /\ \E at \in {"upsert", "save"}, x \in XpOf[right] :
         req' = [req EXCEPT ![r] = [Idle EXCEPT !.at = at, !.s = s, !.gain = x,
                                        !.right = right, !.n = attempts]]
    /\ UNCHANGED <<dbVars, day, faults, active, summaries>>

\* UpdateSkillState on the copy, then UpsertLearnerSkill writes the whole row.
\* A failure is only logged.
SubmitUpsert(r) ==
    /\ req[r].at = "upsert"
    /\ \/ attempts' = req[r].n + 1 /\ UNCHANGED faults
       \/ Fault /\ UNCHANGED attempts
    /\ req' = [req EXCEPT ![r].at = "save"]
    /\ UNCHANGED <<sess, items, results, streak, day, calls, active,
                   summaries>>

\* Mutant of SubmitSave (NeverOvercounts): a failed insert is only logged.
SubmitSaveLogged(r) ==
    LET s == req[r].s IN
    /\ req[r].at = "save"
    /\ req' = [req EXCEPT ![r].at = "refetch"]
    /\ \/ /\ results' = [results EXCEPT
                ![s].n = @ + 1,
                ![s].right = @ + (IF req[r].right THEN 1 ELSE 0),
                ![s].xp = @ + req[r].gain]
          /\ UNCHANGED faults
       \/ Fault /\ UNCHANGED results
    /\ UNCHANGED <<sess, items, attempts, streak, day, calls, active, summaries>>

\* SaveResult inserts the answer with the XP it earned; on failure the
\* handler answers 500.
SubmitSave(r) ==
    LET s == req[r].s IN
    /\ req[r].at = "save"
    /\ \/ /\ results' = [results EXCEPT
                ![s].n = @ + 1,
                ![s].right = @ + (IF req[r].right THEN 1 ELSE 0),
                ![s].xp = @ + req[r].gain]
          /\ req' = [req EXCEPT ![r].at = "refetch"]
          /\ UNCHANGED faults
       \/ Fault /\ req' = [req EXCEPT ![r] = Idle] /\ UNCHANGED results
    /\ UNCHANGED <<sess, items, attempts, streak, day, calls, active,
                   summaries>>

\* The session is read again for its counters; if that fails, the answer
\* stands and the counters are not updated.
SubmitRefetch(r) ==
    /\ req[r].at = "refetch"
    /\ \/ /\ req' = [req EXCEPT ![r].at = "update", ![r].row = sess[req[r].s]]
          /\ UNCHANGED faults
       \/ Fault /\ req' = [req EXCEPT ![r] = Idle]
    /\ UNCHANGED <<dbVars, day, calls, active, summaries>>

\* Mutants of Advanced.  TypeOK: the old sum is taken over one answer too many.
AdvancedSum(row, right, gain) ==
    [idx |-> row.idx + 1, xp |-> row.xp + gain,
     acc |-> Rounded(row.acc * (row.idx + 1) + (IF right THEN Unit ELSE 0), row.idx + 1)]

\* SummaryWithinOne: the mean divides by one answer too many.
AdvancedMean(row, right, gain) ==
    [idx |-> row.idx + 1, xp |-> row.xp + gain,
     acc |-> Rounded(row.acc * row.idx + (IF right THEN Unit ELSE 0), row.idx + 2)]

\* XPNeverOvercounts: a right answer's bonus is added a second time.
AdvancedBonus(row, right, gain) ==
    [idx |-> row.idx + 1, xp |-> row.xp + (IF right THEN 2 * gain ELSE gain),
     acc |-> Rounded(row.acc * row.idx + (IF right THEN Unit ELSE 0), row.idx + 1)]

\* ProgressExact: a wrong answer's XP is not added to the session.
AdvancedRight(row, right, gain) ==
    [idx |-> row.idx + 1, xp |-> row.xp + (IF right THEN gain ELSE 0),
     acc |-> Rounded(row.acc * row.idx + (IF right THEN Unit ELSE 0), row.idx + 1)]

\* The counters computed from a row read by an earlier statement.
Advanced(row, right, gain) ==
    [idx |-> row.idx + 1,
     xp  |-> row.xp + gain,
     acc |-> Rounded(row.acc * row.idx + (IF right THEN Unit ELSE 0), row.idx + 1)]

\* Mutant of SubmitUpdate (CompletedStays): the whole row is written back, with
\* the status that was read.
SubmitUpdateRow(r) ==
    LET new == Advanced(req[r].row, req[r].right, req[r].gain) IN
    /\ req[r].at = "update"
    /\ sess' = [sess EXCEPT ![req[r].s] = [status |-> req[r].row.status, idx |-> new.idx,
                                          xp |-> new.xp, acc |-> new.acc]]
    /\ req' = [req EXCEPT ![r] = Idle]
    /\ UNCHANGED <<items, results, attempts, streak, day, calls, faults, active, summaries>>

\* UpdateSessionState writes absolute values and leaves the status alone; its
\* error is dropped.
SubmitUpdate(r) ==
    LET s == req[r].s
        new == Advanced(req[r].row, req[r].right, req[r].gain)
    IN
    /\ req[r].at = "update"
    /\ \/ /\ sess' = [sess EXCEPT ![s].idx = new.idx, ![s].xp = new.xp, ![s].acc = new.acc]
          /\ UNCHANGED faults
       \/ Fault /\ UNCHANGED sess
    /\ req' = [req EXCEPT ![r] = Idle]
    /\ UNCHANGED <<items, results, attempts, streak, day, calls, active, summaries>>

----------------------------------------------------------------------------
(* POST /sessions/{id}/complete                                            *)

\* The session is loaded; whatever its status, the handler goes on.
CompleteBegin(r, s) ==
    /\ req[r].at = "idle"
    /\ sess[s].status # "none"
    /\ calls.complete < MaxCompletes
    /\ calls' = [calls EXCEPT !.complete = @ + 1]
    /\ req' = [req EXCEPT ![r] = [Idle EXCEPT !.at = "complete", !.s = s, !.row = sess[s]]]
    /\ UNCHANGED <<dbVars, day, faults, active, summaries>>

\* CompleteSession writes back the XP and accuracy that were read.
CompleteWrite(r) ==
    LET s == req[r].s IN
    /\ req[r].at = "complete"
    /\ \/ /\ sess' = [sess EXCEPT ![s].status = "completed",
                                  ![s].xp = req[r].row.xp, ![s].acc = req[r].row.acc]
          /\ req' = [req EXCEPT ![r].at = "record", ![r].today = day]
          /\ UNCHANGED faults
       \/ Fault /\ req' = [req EXCEPT ![r] = Idle] /\ UNCHANGED sess
    /\ UNCHANGED <<items, results, attempts, streak, day, calls,
                   active, summaries>>

\* Mutant of Recorded (StreakHonest): a second session of the same day counts
\* as another day.
RecordedTwice(st, today, xp) ==
    LET next == IF st.last >= today - 1 THEN st.cur + 1 ELSE 1
    IN IF st.last = 0
       THEN [cur |-> 1, longest |-> 1, last |-> today, sessions |-> 1, xp |-> xp, level |-> 1]
       ELSE [cur |-> next, longest |-> IF next > st.longest THEN next ELSE st.longest,
             last |-> today, sessions |-> st.sessions + 1, xp |-> st.xp + xp,
             level |-> st.level]

\* Mutant of Recorded (KeepsLedger): the session's XP replaces the learner's.
RecordedInstead(st, today, xp) ==
    [cur |-> 1, longest |-> 1, last |-> today, sessions |-> st.sessions + 1, xp |-> xp,
     level |-> st.level]

\* The upsert of RecordActivity: one atomic statement over the current row,
\* for a date computed before it was sent.
Recorded(st, today, xp) ==
    LET next == IF st.last = today - 1 THEN st.cur + 1
                ELSE IF st.last = today THEN st.cur ELSE 1
        best == IF st.last = today - 1 THEN st.cur + 1 ELSE 1
    IN IF st.last = 0
       THEN [cur |-> 1, longest |-> 1, last |-> today, sessions |-> 1, xp |-> xp, level |-> 1]
       ELSE [cur |-> next,
             longest |-> IF best > st.longest THEN best ELSE st.longest,
             last |-> today, sessions |-> st.sessions + 1, xp |-> st.xp + xp,
             level |-> st.level]

\* RecordActivity's error is dropped; with a learner_streaks table that lacks
\* the columns last_active, total_sessions and current_level it always errs.
CompleteRecord(r) ==
    /\ req[r].at = "record"
    /\ \/ /\ StreaksUsable
          /\ streak' = Recorded(streak, req[r].today, req[r].row.xp)
          /\ active' = active \union {req[r].today}
          /\ UNCHANGED faults
       \/ /\ IF StreaksUsable THEN Fault ELSE UNCHANGED faults
          /\ UNCHANGED <<streak, active>>
    /\ req' = [req EXCEPT ![r].at = "stats"]
    /\ UNCHANGED <<sess, items, results, attempts, day, calls, summaries>>

\* LevelFromXP: the highest level whose threshold the total reaches.
LevelFromXP(total) == 1 + Cardinality({l \in DOMAIN XPForLevel : XPForLevel[l] <= total})

\* Mutant of CompleteStats (LevelMatchesXP): the level is that of the session's
\* XP, not of the learner's.
CompleteStatsOfSession(r) ==
    /\ req[r].at = "stats"
    /\ req' = [req EXCEPT ![r].at = "level", ![r].total = req[r].row.xp]
    /\ UNCHANGED <<dbVars, day, calls, faults, active, summaries>>

\* StreakStore.Get, which turns any error into zeroed stats.
CompleteStats(r) ==
    /\ req[r].at = "stats"
    /\ \/ /\ StreaksUsable
          /\ req' = [req EXCEPT ![r].at = "level", ![r].total = streak.xp]
          /\ UNCHANGED faults
       \/ /\ IF StreaksUsable THEN Fault ELSE UNCHANGED faults
          /\ req' = [req EXCEPT ![r].at = "level", ![r].total = 0]
    /\ UNCHANGED <<dbVars, day, calls, active, summaries>>

\* UpdateLevel (an UPDATE: no row, no effect), then the summary.  CorrectCount
\* is int(accuracy * len(items)) of the row read first.
CompleteLevel(r) ==
    LET s == req[r].s IN
    /\ req[r].at = "level"
    /\ \/ /\ streak' = IF StreaksUsable /\ streak.last # 0
                       THEN [streak EXCEPT !.level = LevelFromXP(req[r].total)]
                       ELSE streak
          /\ UNCHANGED faults
       \/ Fault /\ UNCHANGED streak
    /\ summaries' = summaries \union
         {[s |-> s, answered |-> req[r].row.idx, items |-> items[s],
           right |-> results[s].right,
           correct |-> (req[r].row.acc * items[s]) \div Unit]}
    /\ req' = [req EXCEPT ![r] = Idle]
    /\ UNCHANGED <<sess, items, results, attempts, day, calls, active>>

----------------------------------------------------------------------------

\* Midnight.
NextDay ==
    /\ day < MaxDays
    /\ day' = day + 1
    /\ UNCHANGED <<dbVars, req, calls, faults, active, summaries>>

\* The process stops: requests in flight vanish, committed rows stay.
Stop ==
    /\ Fault
    /\ \E r \in Reqs : req[r].at # "idle"
    /\ req' = [r \in Reqs |-> Idle]
    /\ UNCHANGED <<dbVars, day, calls, active, summaries>>

Next ==
    \/ \E r \in Reqs, s \in Sessions : GenerateBegin(r, s)
    \/ \E r \in Reqs : GenerateCreate(r)
    \/ \E r \in Reqs : GenerateItems(r)
    \/ \E r \in Reqs, s \in Sessions, b \in BOOLEAN : SubmitBegin(r, s, b)
    \/ \E r \in Reqs : SubmitUpsert(r)
    \/ \E r \in Reqs : SubmitSave(r)
    \/ \E r \in Reqs : SubmitRefetch(r)
    \/ \E r \in Reqs : SubmitUpdate(r)
    \/ \E r \in Reqs, s \in Sessions : CompleteBegin(r, s)
    \/ \E r \in Reqs : CompleteWrite(r)
    \/ \E r \in Reqs : CompleteRecord(r)
    \/ \E r \in Reqs : CompleteStats(r)
    \/ \E r \in Reqs : CompleteLevel(r)
    \/ NextDay
    \/ Stop

Spec == Init /\ [][Next]_vars

----------------------------------------------------------------------------
(* Properties.                                                             *)

Row == [status : {"none", "active", "completed"}, idx : Nat, xp : Nat, acc : 0..Unit]

StreakRow == [cur : Nat, longest : Nat, last : Nat, sessions : Nat, xp : Nat, level : Nat]

ReqState ==
    [at : {"idle", "create", "items", "upsert", "save", "refetch", "update",
           "complete", "record", "stats", "level"},
     s : Sessions \union {0}, right : BOOLEAN, gain : Nat, row : Row,
     n : Nat, today : Nat, total : Nat]

\* Every variable has its type; in particular the accuracy computed from rows
\* that other requests wrote stays between 0 and 1.
TypeOK ==
    /\ sess \in [Sessions -> Row]
    /\ items \in [Sessions -> Nat]
    /\ results \in [Sessions -> [n : Nat, right : Nat, xp : Nat]]
    /\ attempts \in Nat
    /\ streak \in StreakRow
    /\ day \in Nat
    /\ req \in [Reqs -> ReqState]
    /\ \A r \in Reqs : req[r].at # "idle" => req[r].s \in Sessions
    /\ calls \in [submit : Nat, complete : Nat]
    /\ faults \in Nat
    /\ active \subseteq Nat

\* Progress is never invented: a session's index never exceeds the number of
\* results saved for it, nor the skill's attempts the submissions, whatever
\* requests overlap, fail or are cut off.
NeverOvercounts ==
    /\ \A s \in Sessions : sess[s].idx <= results[s].n
    /\ attempts <= calls.submit

\* Nor is XP: a session's total never exceeds what its saved results earned.
XPNeverOvercounts == \A s \in Sessions : sess[s].xp <= results[s].xp

\* A completed session stays completed, although a Submit that overlaps or
\* follows the completion still writes the session's row.
CompletedStays ==
    [][\A s \in Sessions : sess[s].status = "completed" => sess'[s].status = "completed"]_vars

Quiet(s) == \A r \in Reqs : req[r].at # "idle" => req[r].s # s

\* Accumulated progress is exact: with no request in flight, a session's index
\* and XP are those of its results, and its accuracy is off by no more than
\* the roundings of its writes ("re-fetch for latest counters").
ProgressExact ==
    \A s \in Sessions : Quiet(s) =>
        LET n == results[s].n
            drift == sess[s].acc * n - Unit * results[s].right
        IN /\ sess[s].idx = n
           /\ sess[s].xp = results[s].xp
           /\ 4 * drift <= n * (n + 1) /\ -4 * drift <= n * (n + 1)

\* Days of an unbroken run of active days that ends on day d.
RunUpTo(d) == Cardinality({k \in 1..d : \A e \in k..d : e \in active})

\* The streak is honest: the current streak is the run of consecutive days
\* with a recorded completion that ends on the last active day, and the
\* longest streak is the longest such run ever.
StreakHonest ==
    /\ streak.cur = RunUpTo(streak.last)
    /\ \A d \in active : RunUpTo(d) <= streak.longest
    /\ active # {} => \E d \in active : RunUpTo(d) = streak.longest

\* The stored level is the level of the stored XP once nothing is in flight,
\* although RecordActivity and UpdateLevel are separate statements.
LevelMatchesXP ==
    (\A r \in Reqs : req[r].at = "idle") => streak.level = LevelFromXP(streak.xp)

\* The learner's session count is the number of completed sessions ("updates
\* streak after a completed session").
CountedOnce ==
    (\A r \in Reqs : req[r].at = "idle") =>
        streak.sessions = Cardinality({s \in Sessions : sess[s].status = "completed"})

\* A completed session shows in the learner's streak ("updates streak after a
\* completed session").
StreakUpdated ==
    (\A r \in Reqs : req[r].at = "idle") =>
        ((\E s \in Sessions : sess[s].status = "completed") => streak.sessions # 0)

\* Session and items are created together: an active session that no Generate
\* is still building has its items ("atomically creates a session and its
\* items").
ActiveHasItems ==
    \A s \in Sessions : (Quiet(s) /\ sess[s].status = "active") => items[s] > 0

\* The summary of a session whose every item was answered never credits an
\* answer that was wrong, and truncation costs it one correct answer at most.
SummaryWithinOne ==
    \A m \in summaries : m.answered = m.items => m.correct \in {m.right - 1, m.right}
=============================================================================
