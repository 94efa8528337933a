-------------------------- MODULE ContentSelector --------------------------
(***************************************************************************)
(* GenerateContentSet of internal/engine/content_selector.go: the content  *)
(* of a session, chosen phase by phase under a time budget.                *)
(*                                                                         *)
(* A content atom is [id, skills, level, diff, secs, type, segs, general]: *)
(* the sequence of the skills it targets, its CEFR level 1..6, difficulty  *)
(* in hundredths, estimated seconds (0 when unknown), exercise type or     *)
(* NoType, the segments it is tagged with, and whether it is tagged with   *)
(* the general domain.  An input is [content, skills, level, segment,      *)
(* seen, minutes, assigned], where assigned is the sequence of the skills  *)
(* a teacher's assignment targets, empty without one.                      *)
(***************************************************************************)
EXTENDS SessionPlanner

CONSTANTS NoType, NoSkill

\* A time estimate that is missing counts as half a minute.
Secs(c) == IF c.secs <= 0 THEN 30 ELSE c.secs

FirstSkill(c) == IF c.skills = << >> THEN NoSkill ELSE c.skills[1]

\* PartialSums(s)[i]: the sum of the first i numbers of s.
PartialSums(s) ==
    LET sum[i \in 0..Len(s)] == IF i = 0 THEN 0 ELSE sum[i - 1] + s[i]
    IN  sum
Sum(s) == PartialSums(s)[Len(s)]

SelectionTime(sel) == Sum([i \in DOMAIN sel |-> Secs(sel[i].content)])

\* Both the first filter and the fallback accept content that is untagged,
\* general or of the learner's segment; with fewer than five such atoms
\* everything not seen in the last week is accepted.
SegmentMatch(c, segment) == c.segs = {} \/ c.segs \cap {segment, "general"} # {}

FilterContent(in) ==
    LET unseen == Kept(in.content, {i \in DOMAIN in.content : in.content[i].id \notin in.seen})
        fit    == Kept(unseen, {i \in DOMAIN unseen : SegmentMatch(unseen[i], in.segment)})
    IN  IF Len(fit) >= 5 THEN fit ELSE unseen

\* The three pools of skills: due, not due but new, and else weak.
PoolOf(s) ==
    CASE s.due                                              -> "due"
      [] ~s.due /\ (s.status = "new" \/ s.attempts < 3)      -> "new"
      [] ~s.due /\ s.status # "new" /\ s.attempts >= 3       ->
             IF s.conf < 500 THEN "weak" ELSE "none"

\* Comfort is the learner's level and the one below, stretch the one above.
Comfort(level, in) == level \in {in.level, in.level - 1}
Stretch(level, in) == level = in.level + 1

Budget(in)    == 60 * (IF in.minutes <= 0 THEN 15 ELSE in.minutes)
TimeLimit(in) == (115 * Budget(in)) \div 100

EstimateItemCount(in, content) ==
    LET mean == Sum([i \in DOMAIN content |-> Secs(content[i])]) \div Len(content)
    IN  Smaller(20, Larger(5, Budget(in) \div mean))

-----------------------------------------------------------------------------
(* selectWithConstraints: [sel, time, stretch] accumulates the selections, *)
(* their time and the number of stretch items chosen as such.              *)

Used(acc)     == {acc.sel[i].content.id : i \in DOMAIN acc.sel}
Served(acc)   == {acc.sel[i].skill : i \in DOMAIN acc.sel}
TypeUse(acc, t) == Cardinality({i \in DOMAIN acc.sel : acc.sel[i].content.type = t})

\* Level first, then variety: a type other than the last one, and one used
\* less than three times.
Score(c, acc, in, prefer) ==
    LET last == IF acc.sel = << >> THEN NoType ELSE Last(acc.sel).content.type
    IN  (IF prefer /\ Stretch(c.level, in) THEN 10
         ELSE IF Comfort(c.level, in) THEN 5
         ELSE IF Stretch(c.level, in) THEN 4 ELSE 0)
        + (IF c.type \notin {NoType, last} THEN 3 ELSE 0)
        + (IF c.type # NoType THEN Larger(0, 3 - TypeUse(acc, c.type)) ELSE 0)

\* The indices of the best unused atoms for the skill; the first is picked.
PickContent(skill, acc, content, in, prefer) ==
    LET open == {i \in DOMAIN content : /\ Contains(content[i].skills, skill)
                                        /\ content[i].id \notin Used(acc)}
        Points(i) == Score(content[i], acc, in, prefer)
    IN  {i \in open : \A j \in open : Points(i) >= Points(j)}

AddSelection(acc, c, skill, review, stretch) ==
    [sel     |-> Append(acc.sel, [content |-> c, skill |-> skill, review |-> review]),
     time    |-> acc.time + Secs(c),
     stretch |-> acc.stretch + (IF stretch THEN 1 ELSE 0)]

\* Two items in ten may be stretch items; due and new skills may have them
\* preferred, a due skill only for every third item.
PrefersStretch(pool, acc, max) ==
    /\ acc.stretch < (2 * max + 9) \div 10
    /\ pool = "new" \/ (pool = "due" /\ Len(acc.sel) % 3 = 0)

\* Mutant of OfferSkill (SelectionSound): the budget is left to the fill phase.
OfferSkillUnbounded(acc, s, pool, content, in, max) ==
    LET best == PickContent(s.skill, acc, content, in, PrefersStretch(pool, acc, max))
    IN  IF Len(acc.sel) >= max \/ s.skill \in Served(acc) \/ best = {} THEN acc
        ELSE AddSelection(acc, content[Min(best)], s.skill, pool # "new", pool # "weak")

\* One skill of a pool: its best content, unless it would break the budget.
OfferSkill(acc, s, pool, content, in, max) ==
    LET best == PickContent(s.skill, acc, content, in, PrefersStretch(pool, acc, max))
        c    == content[Min(best)]
    IN  IF \/ Len(acc.sel) >= max
           \/ s.skill \in Served(acc)
           \/ best = {}
           \/ acc.time + Secs(c) > TimeLimit(in)
        THEN acc
        ELSE AddSelection(acc, c, s.skill, pool # "new",
                          pool # "weak" /\ Stretch(c.level, in))

NoneSelected == [sel |-> << >>, time |-> 0, stretch |-> 0]

\* The assignment's skills come first, up to two items in five, whatever the
\* budget.
OfferAssigned(acc, skill, content, in, max) ==
    LET best == PickContent(skill, acc, content, in, FALSE)
    IN  IF Len(acc.sel) >= (4 * max + 9) \div 10 \/ best = {} THEN acc
        ELSE AddSelection(acc, content[Min(best)], skill, FALSE, FALSE)

AssignmentSteps(content, in, max) ==
    LET acc[i \in 0..Len(in.assigned)] ==
            IF i = 0 THEN NoneSelected
            ELSE OfferAssigned(acc[i - 1], in.assigned[i], content, in, max)
    IN  acc
AssignmentPhase(content, in, max) == AssignmentSteps(content, in, max)[Len(in.assigned)]

\* Then the skills of each pool.
PoolSteps(pool, acc0, content, in, max) ==
    LET acc[i \in 0..Len(in.skills)] ==
            IF i = 0 THEN acc0
            ELSE IF PoolOf(in.skills[i]) # pool THEN acc[i - 1]
            ELSE OfferSkill(acc[i - 1], in.skills[i], pool, content, in, max)
    IN  acc
PoolPhase(pool, acc0, content, in, max) ==
    PoolSteps(pool, acc0, content, in, max)[Len(in.skills)]

\* What room is left goes to content of the right levels, general first.
OfferContent(acc, c, in, max) ==
    IF \/ Len(acc.sel) >= max
       \/ c.id \in Used(acc)
       \/ ~(Comfort(c.level, in) \/ Stretch(c.level, in))
       \/ acc.time + Secs(c) > TimeLimit(in)
    THEN acc
    ELSE AddSelection(acc, c, FirstSkill(c), FALSE, FALSE)

FillOrder(content) == Kept(content, {i \in DOMAIN content : content[i].general}) \o content

FillSteps(acc0, content, in, max) ==
    LET acc[i \in 0..Len(FillOrder(content))] ==
            IF i = 0 THEN acc0 ELSE OfferContent(acc[i - 1], FillOrder(content)[i], in, max)
    IN  acc
FillPhase(acc0, content, in, max) ==
    FillSteps(acc0, content, in, max)[Len(FillOrder(content))]

SelectWithConstraints(content, in) ==
    LET max   == EstimateItemCount(in, content)
        first == AssignmentPhase(content, in, max)
        due   == PoolPhase("due", first, content, in, max)
        weak  == PoolPhase("weak", due, content, in, max)
        new   == PoolPhase("new", weak, content, in, max)
    IN  FillPhase(new, content, in, max).sel

-----------------------------------------------------------------------------
(* enforceVariety *)

TypeAt(s, i)  == s[i].content.type
RunAt(s, i)   == i > 3 /\ \A k \in 1..3 : TypeAt(s, i - k) = TypeAt(s, i)

\* Mutant of HasLongRun (RunsOnlyAtTheEnd): only the last four items are looked at.
HasLongRunLast(s) == RunAt(s, Len(s))

HasLongRun(s) == \E i \in DOMAIN s : RunAt(s, i)

\* An item that ends a run of four changes places with the next item of
\* another type, if there is one.
BreakRun(s, i) ==
    LET other == {j \in (i + 1)..Len(s) : TypeAt(s, j) # TypeAt(s, i)}
    IN  IF ~RunAt(s, i) \/ other = {} THEN s
        ELSE [s EXCEPT ![i] = s[Min(other)], ![Min(other)] = s[i]]

\* One sweep over the list, from its beginning.
SweepSteps(s) ==
    LET swept[i \in 0..Len(s)] == IF i = 0 THEN s ELSE BreakRun(swept[i - 1], i)
    IN  swept
Sweep(s) == SweepSteps(s)[Len(s)]

\* At most ten sweeps.
VarietySteps(s) ==
    LET list[k \in 0..10] ==
            IF k = 0 THEN s
            ELSE IF HasLongRun(list[k - 1]) THEN Sweep(list[k - 1]) ELSE list[k - 1]
    IN  list
EnforceVariety(s) == VarietySteps(s)[10]

WithRole(x, role) ==
    [content |-> x.content, skill |-> x.skill, review |-> x.review, role |-> role]

GenerateContentSet(in) ==
    LET content == FilterContent(in)
    IN  IF content = << >> THEN << >>
        ELSE LET s == EnforceVariety(SelectWithConstraints(content, in))
             IN  [i \in DOMAIN s |-> WithRole(s[i], AssignRoles(Len(s))[i])]
=============================================================================
