-------------------------- MODULE SessionComposer --------------------------
(***************************************************************************)
(* internal/engine/session_composer.go: arranging the chosen content into  *)
(* the arc of a session, adapting what is left of it to the answers, and   *)
(* trimming it to the time budget.                                         *)
(*                                                                         *)
(* A session is [items, budget, total].  An item is [content, skill, role, *)
(* hint, secs]; its position is its index and its difficulty that of its   *)
(* content, as every assignment in the code keeps them.                    *)
(***************************************************************************)
EXTENDS ContentSelector

CONSTANT NoContent

Times(n, role) == [i \in 1..Larger(n, 0) |-> role]

\* What the code writes past the last slot is cut off.
Fit(roles, n) == Prefix(roles, n)

-----------------------------------------------------------------------------
(* The templates: one role per slot *)

ShortTemplate(n) ==
    [i \in 1..n |-> IF i = 1 THEN "warmup" ELSE IF i = n THEN "cooldown" ELSE "core"]

\* Mutant of StandardTemplate (ComposedWhole): one slot more is reserved than used.
StandardTemplateShort(n) ==
    IF n <= 3 THEN ShortTemplate(n)
    ELSE Times(2, "warmup") \o Times(1, "ramp") \o Times(n - 5, "core") \o Times(1, "cooldown")

\* The slots left after warm-up and ramp, split into core blocks around the
\* relief.
StandardTemplate(n) ==
    LET warm   == IF n >= 15 THEN 3 ELSE 2
        ramp   == IF n >= 12 THEN 2 ELSE 1
        left   == n - warm - ramp
        cores  == IF left >= 4 THEN left - 2 ELSE Larger(left - 1, 1)
        core1  == Larger(cores \div 2, 1)
        head   == warm + ramp + core1
        relief == IF head < n - 1 /\ left > 2 THEN 1 ELSE 0
    IN  IF n <= 3 THEN ShortTemplate(n)
        ELSE Fit(Times(warm, "warmup") \o Times(ramp, "ramp") \o Times(core1, "core")
                 \o Times(relief, "relief") \o Times(cores - core1, "core")
                 \o Times(1, "cooldown"), n)

\* Two reliefs and a challenge when ten slots or more allow it.
IntensiveTemplate(n) ==
    LET left    == n - 4
        special == IF left < 6 THEN 2 ELSE 4
        cores   == Larger(left - special, 2)
        core1   == cores \div 2
        relief1 == IF 4 + core1 < n - 1 THEN 1 ELSE 0
        head    == Smaller(n, 4 + relief1 + cores)
        relief2 == IF special = 4 /\ head < n - 2 THEN 1 ELSE 0
        boss    == IF special = 4 /\ head + relief2 < n - 1 THEN 1 ELSE 0
    IN  IF n <= 5 THEN StandardTemplate(n)
        ELSE Fit(Times(2, "warmup") \o Times(2, "ramp") \o Times(core1, "core")
                 \o Times(relief1, "relief") \o Times(cores - core1, "core")
                 \o Times(relief2, "relief") \o Times(boss, "challenge")
                 \o Times(1, "cooldown"), n)

Template(n, segment, minutes) ==
    IF segment = "migrant" \/ minutes <= 5 THEN ShortTemplate(n)
    ELSE IF (segment = "uni_prep" /\ minutes >= 25) \/ minutes >= 30
         THEN IntensiveTemplate(n)
    ELSE StandardTemplate(n)

-----------------------------------------------------------------------------
(* Placing the selections *)

Band(s) == IF s.content.diff < 30 THEN "easy"
           ELSE IF s.content.diff < 60 THEN "medium"
           ELSE IF s.content.diff < 80 THEN "hard" ELSE "very hard"

\* The bands a role takes its item from, the second one only when the first
\* is used up.
BandsOf(role) ==
    CASE role \in {"warmup", "cooldown"} -> <<"easy">>
      [] role \in {"ramp", "relief"}     -> <<"medium", "easy">>
      [] role = "core"                   -> <<"hard", "medium">>
      [] role = "challenge"              -> <<"very hard", "hard">>

ItemOf(sel, role) == [content |-> sel.content, skill |-> sel.skill, role |-> role,
                      hint |-> 0, secs |-> Secs(sel.content)]
EmptyItem(role)   == [content |-> NoContent, skill |-> NoSkill, role |-> role,
                      hint |-> 0, secs |-> 30]

\* The first pass gives each slot the first selection left of its band.
PlaceSlot(acc, role) ==
    LET InBand(b) == {i \in DOMAIN acc.left : Band(acc.left[i]) = BandsOf(role)[b]}
        open == {b \in DOMAIN BandsOf(role) : InBand(b) # {}}
        i    == Min(InBand(Min(open)))
    IN  IF open = {} THEN [acc EXCEPT !.items = Append(@, EmptyItem(role))]
        ELSE [items |-> Append(acc.items, ItemOf(acc.left[i], role)),
              left  |-> RemoveAt(acc.left, i)]

PlaceSteps(sorted, template) ==
    LET acc[k \in 0..Len(template)] ==
            IF k = 0 THEN [items |-> << >>, left |-> sorted]
            ELSE PlaceSlot(acc[k - 1], template[k])
    IN  acc

\* The second pass fills the slots left empty with what remains, in order.
PlaceItems(sorted, template) ==
    LET placed == PlaceSteps(sorted, template)[Len(template)]
        Empty(i) == placed.items[i].content = NoContent
        Nth(i) == Cardinality({j \in 1..i : Empty(j)})
    IN  [i \in DOMAIN placed.items |->
            IF Empty(i) /\ Nth(i) <= Len(placed.left)
            THEN ItemOf(placed.left[Nth(i)], template[i])
            ELSE placed.items[i]]

EasiestFirst(sel) == Ordered(sel, LAMBDA a, b : a.content.diff < b.content.diff)

TotalTime(items) == Sum([i \in DOMAIN items |-> items[i].secs])

ComposeSession(sel, minutes, segment) ==
    LET items == IF sel = << >> THEN << >>
                 ELSE PlaceItems(EasiestFirst(sel), Template(Len(sel), segment, minutes))
    IN  [items |-> items, budget |-> 60 * minutes, total |-> TotalTime(items)]

-----------------------------------------------------------------------------
(* Adaptation: done is the number of items answered, results the attempts  *)
(* [right, fast, skill], pool the atoms an item may be replaced with.      *)

LastOf(s, n) == SubSeq(s, Len(s) - n + 1, Len(s))

IsStruggling(results) ==
    Len(results) >= 3 /\ \A i \in 1..3 : ~LastOf(results, 3)[i].right
IsCoasting(results) ==
    Len(results) >= 5 /\ \A i \in 1..5 : LET r == LastOf(results, 5)[i]
                                         IN  r.right /\ r.fast

\* Of the atoms in a set of indices of pool, the first of the most difficult.
HardestIn(pool, S) ==
    pool[Min({i \in S : \A j \in S : pool[i].diff >= pool[j].diff})]

Replace(session, i, atom, hint) ==
    [session EXCEPT !.items[i] = [content |-> atom, skill |-> FirstSkill(atom),
                                  role |-> @.role, hint |-> hint, secs |-> Secs(atom)],
                    !.total = @ + Secs(atom) - session.items[i].secs]

\* Mutant of AdaptForStruggling (AnsweredFrozen): the hint goes to the item just answered.
AdaptForStrugglingBehind(session, done, results, pool) ==
    [session EXCEPT !.items[done].hint = 1]

\* The next item gets a hint, and the least easy of the easier variants for
\* the skill of the last wrong answer, if there is one.
AdaptForStruggling(session, done, results, pool) ==
    LET skill  == Last(results).skill
        next   == session.items[done + 1]
        easier == {i \in DOMAIN pool : /\ pool[i].diff < Smaller(next.content.diff, 40)
                                       /\ Contains(pool[i].skills, skill)}
    IN  IF easier = {} THEN [session EXCEPT !.items[done + 1].hint = 1]
        ELSE Replace(session, done + 1, HardestIn(pool, easier), 1)

\* Mutant of HarderFor (AdaptsTheRightWay): the difference is taken without its sign.
HarderForApart(session, i, pool) ==
    {j \in DOMAIN pool : Apart(pool[j].diff, session.items[i].content.diff) >= 15}

HarderFor(session, i, pool) ==
    {j \in DOMAIN pool : pool[j].diff >= session.items[i].content.diff + 15}
\* The first item ahead, the cooldown excepted, that some variant exceeds by
\* 0.15 is replaced with the hardest variant.
Hardenable(session, done, pool) ==
    {i \in (done + 1)..Len(session.items) : /\ session.items[i].role # "cooldown"
                                            /\ HarderFor(session, i, pool) # {}}
AdaptForCoasting(session, done, pool) ==
    LET i == Min(Hardenable(session, done, pool))
    IN  Replace(session, i, HardestIn(pool, HarderFor(session, i, pool)), 0)

\* Nothing changes after the last item but one.
Struggles(session, done, results) ==
    done < Len(session.items) /\ IsStruggling(results)
Coasts(session, done, results, pool) ==
    /\ done < Len(session.items)
    /\ IsCoasting(results)
    /\ Hardenable(session, done, pool) # {}

\* A session over its budget: a cooldown that comes last is cut to fifteen
\* seconds, then the last item that is no warm-up goes, down to two items.
TrimOnce(session) ==
    LET items  == session.items
        n      == Len(items)
        others == {i \in 2..n : items[i].role # "warmup"}
        gone   == Max(others)
    IN  IF session.total <= (115 * session.budget) \div 100 \/ n <= 2 THEN session
        ELSE IF items[n].role = "cooldown" /\ items[n].secs > 15
        THEN [session EXCEPT !.items[n].secs = 15, !.total = @ - items[n].secs + 15]
        ELSE IF others = {} THEN session
        ELSE [session EXCEPT !.items = RemoveAt(@, gone), !.total = @ - items[gone].secs]

\* An item is cut once and goes once, so the loop ends in 2 * n turns.
TrimSteps(session) ==
    LET turn[k \in 0..(2 * Len(session.items))] ==
            IF k = 0 THEN session ELSE TrimOnce(turn[k - 1])
    IN  turn
EnforceTimeBudget(session) == TrimSteps(session)[2 * Len(session.items)]

\* Mutant of AdaptAndEnforceBudget (BudgetKept): the budget is not enforced again.
AdaptAndEnforceNothing(session, done, results, pool) ==
    IF Struggles(session, done, results) THEN AdaptForStruggling(session, done, results, pool)
    ELSE IF Coasts(session, done, results, pool) THEN AdaptForCoasting(session, done, pool)
    ELSE session

\* adaptAndEnforceBudget: the total is recounted before the budget is enforced.
AdaptAndEnforceBudget(session, done, results, pool) ==
    LET Trim(s) == EnforceTimeBudget([s EXCEPT !.total = TotalTime(s.items)])
    IN  IF Struggles(session, done, results)
        THEN Trim(AdaptForStruggling(session, done, results, pool))
        ELSE IF Coasts(session, done, results, pool)
        THEN Trim(AdaptForCoasting(session, done, pool))
        ELSE session
=============================================================================
