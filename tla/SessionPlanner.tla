--------------------------- MODULE SessionPlanner ---------------------------
(***************************************************************************)
(* The session planner of internal/engine/session.go: which skills a       *)
(* practice session takes, the arc of roles over its items, the content    *)
(* each item may get, and the level a placement test shows.  The functions *)
(* are pure, so they are operators here.  Confidence is in thousandths,    *)
(* difficulty in hundredths; CEFR levels are 1 (A1) .. 6 (C2).             *)
(*                                                                         *)
(* A skill row is [skill, conf, status, attempts, ...]; a content atom is  *)
(* [id, skills, level, diff, quality, ...].                                *)
(***************************************************************************)
EXTENDS Integers, Sequences, FiniteSets, SequencesExt

\* The larger and the smaller of two numbers.
Larger(a, b)  == IF a > b THEN a ELSE b
Smaller(a, b) == IF a < b THEN a ELSE b

\* The first n elements of s, or all of s if it is shorter.
Prefix(s, n) == SubSeq(s, 1, Smaller(n, Len(s)))

\* The elements of s at these of its indices, in their order.
Kept(s, indices) ==
    LET Nth(k) == CHOOSE i \in indices : Cardinality({j \in indices : j <= i}) = k
    IN  [k \in 1..Cardinality(indices) |-> s[Nth(k)]]

\* s in the order Before, equal elements kept in place: sort.Slice sorts up
\* to twelve elements by insertion, which is stable.
Ordered(s, Before(_, _)) ==
    LET Rank(i) == Cardinality({j \in 1..Len(s) :
                       \/ Before(s[j], s[i])
                       \/ j <= i /\ ~Before(s[i], s[j])})
    IN  [k \in 1..Len(s) |-> s[CHOOSE i \in 1..Len(s) : Rank(i) = k]]

-----------------------------------------------------------------------------
(* Choosing the skills *)

\* The number of items of a session of so many minutes, at 1.5 a piece.
SessionItems(minutes) ==
    LET m == IF minutes <= 0 THEN 15 ELSE minutes
    IN  Smaller(20, Larger(5, (2 * m + 2) \div 3))

\* Six items in ten are reviews.
ReviewCount(max) == (6 * max + 9) \div 10

Review(row, priority) == [row |-> row, priority |-> priority, review |-> TRUE]

\* A due skill comes first, a fossilized one before the others, a locked one
\* after them.
DuePriority(row, unlocked) ==
    10000 - 5 * row.conf
    + (IF row.status = "fossilized" THEN 3000 ELSE 0)
    - (IF row.skill \in unlocked THEN 0 ELSE 4000)

\* The indices of the rows that are unlocked or were attempted before.
Reviewable(due, unlocked) ==
    {i \in DOMAIN due : due[i].skill \in unlocked \/ due[i].attempts > 0}

\* Mutant of SelectSkills (PlanSound): the weak skills are not checked against
\* the reviews already chosen.
SelectSkillsAgain(due, weak, all, max, unlocked) ==
    LET offered == Kept(due, Reviewable(due, unlocked))
        reviews == Prefix(offered, ReviewCount(max))
        filled  == reviews \o Prefix(weak, ReviewCount(max) - Len(reviews))
    IN  [i \in DOMAIN filled |-> Review(filled[i], DuePriority(filled[i], unlocked))]

\* The selections by falling priority.
MostUrgentFirst(sel) == Ordered(sel, LAMBDA a, b : a.priority > b.priority)

\* due, weak and all are the rows the three queries answered, in their order.
SelectSkills(due, weak, all, max, unlocked) ==
    LET offered  == Kept(due, Reviewable(due, unlocked))
        reviews  == Prefix(offered, ReviewCount(max))
        Taken(s) == {s[i].skill : i \in DOMAIN s}
        poor     == Kept(weak, {i \in DOMAIN weak :
                                    weak[i].skill \in unlocked \ Taken(reviews)})
        filled   == reviews \o Prefix(poor, ReviewCount(max) - Len(reviews))
        unseen   == Kept(all, {i \in DOMAIN all :
                                   /\ all[i].skill \in unlocked \ Taken(filled)
                                   /\ all[i].status = "new" \/ all[i].attempts < 3})
        fresh    == Prefix(unseen, max - ReviewCount(max))
        chosen   == [i \in DOMAIN reviews |->
                        Review(reviews[i], DuePriority(reviews[i], unlocked))]
                 \o [i \in 1..(Len(filled) - Len(reviews)) |->
                        LET r == filled[i + Len(reviews)] IN Review(r, 7000 - 3 * r.conf)]
                 \o [i \in DOMAIN fresh |->
                        [row |-> fresh[i], priority |-> 5000, review |-> FALSE]]
    IN  Prefix(MostUrgentFirst(chosen), max)

-----------------------------------------------------------------------------
(* The arc of roles and the content of an item *)

\* Mutant of AssignRoles (TypeOK): the core items of a session of three are
\* left without a role.
AssignRolesUnset(n) ==
    [i \in 1..n |-> IF i = 1 THEN "warmup" ELSE IF i = n THEN "cooldown"
                    ELSE IF n <= 3 THEN "" ELSE "core"]

\* Warm-up, ramp, core, relief, challenge, cooldown over n items.
AssignRoles(n) ==
    LET relief == n \div 2 + 2
        Role(i) == CASE i = 1                                -> "warmup"
                     [] i = n /\ n > 1                       -> "cooldown"
                     [] i = 2 /\ n > 3                       -> "ramp"
                     [] i = relief /\ n > 5                  -> "relief"
                     [] i > relief /\ i < n /\ n > 5         -> "challenge"
                     [] i > 1 /\ i < n /\ (i < relief \/ n <= 5)
                               /\ (i > 2 \/ n <= 3)          -> "core"
    IN  [i \in 1..n |-> Role(i)]

RoleDifficulty ==
    [warmup |-> 20, ramp |-> 40, core |-> 60, relief |-> 30, challenge |-> 85,
     cooldown |-> 30]

Apart(a, b) == IF a > b THEN a - b ELSE b - a

\* The atoms an item of this skill and role may get: of the skill's content,
\* or of all content when there is none, the atoms not used lately, or all of
\* them, and of these one of the three nearest to the role's difficulty.
MatchContent(skill, role, content, used) ==
    LET own   == {c \in content : Contains(c.skills, skill)}
        pool  == IF own = {} THEN content ELSE own
        fresh == {c \in pool : c.id \notin used}
        from  == IF fresh = {} THEN pool ELSE fresh
        Off(c) == Apart(c.diff, RoleDifficulty[role])
        Better(c, d) == \/ Off(c) < Off(d)
                        \/ Off(c) = Off(d) /\ c.quality > d.quality
    IN  {c \in from : Cardinality({d \in from : Better(d, c)}) < 3}

\* The sequences that continue items with one for the i-th selection: an atom
\* that is then counted as used.
Extended(items, i, plan, content, used) ==
    LET skill == plan[i].row.skill
        role  == AssignRoles(Len(plan))[i]
        taken == used \cup {items[k].content.id : k \in DOMAIN items}
    IN  {Append(items, [content |-> c, skill |-> skill, role |-> role]) :
             c \in MatchContent(skill, role, content, taken)}

\* Built(...)[i]: the sequences the first i selections may get.
Built(plan, content, used) ==
    LET built[i \in 0..Len(plan)] ==
            IF i = 0 THEN {<< >>}
            ELSE UNION {Extended(items, i, plan, content, used) : items \in built[i - 1]}
    IN  built

\* The sequences of items a plan may get from this content, which is no item
\* where there is no content.
BuildSession(plan, content, used) ==
    IF content = {} THEN {<< >>} ELSE Built(plan, content, used)[Len(plan)]

-----------------------------------------------------------------------------
(* Placement *)

\* results is a set of [skill, level, right].  A level is passed with seven
\* right answers in ten; the levels are walked upwards, those not tested are
\* passed over, and the first one failed ends the walk.
DeterminePlacementLevel(results) ==
    LET Total(l) == Cardinality({r \in results : r.level = l})
        Right(l) == Cardinality({r \in results : r.level = l /\ r.right})
        Passed(l) == Total(l) > 0 /\ 10 * Right(l) >= 7 * Total(l)
        Failed(l) == Total(l) > 0 /\ ~Passed(l)
    IN  Max({1} \cup {l \in 1..6 : Passed(l) /\ \A k \in 1..(l - 1) : ~Failed(k)})
=============================================================================
