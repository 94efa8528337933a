-------------------------- MODULE AdaptiveSession --------------------------
(***************************************************************************)
(* A session of the composition engine from beginning to end: the content  *)
(* is selected, composed, and adapted after each answer, the way the       *)
(* engine's integration tests drive ContentSelector and SessionComposer.   *)
(* The engine is called by one goroutine per session, so a call is a step. *)
(***************************************************************************)
EXTENDS SessionComposer

CONSTANTS
    Inputs,      \* what GenerateContentSet may be called with, with the
                 \* pool of variants offered to the adaptations as .pool
    MaxAnswers   \* bound: the learner may leave after so many answers

\* What the columns of a content atom hold; the fields no arithmetic is done
\* with may hold anything.
IsAtom(c) == c # NoContent /\ c.secs \in Int /\ c.diff \in Int

ASSUME InputsAssumption ==
    /\ MaxAnswers \in Nat
    /\ \A in \in Inputs :
           /\ in.minutes \in Int
           /\ in.content \in Seq(Range(in.content)) /\ in.pool \in Seq(Range(in.pool))
           /\ in.skills \in Seq(Range(in.skills)) /\ in.assigned \in Seq(Range(in.assigned))
           /\ \A c \in Range(in.content) \cup Range(in.pool) : IsAtom(c)

VARIABLES
    input,       \* the input of this session
    phase,       \* "select", "compose", "practice"
    selections,  \* what GenerateContentSet answered
    session,     \* the composed session
    results      \* the attempts, one per item answered

vars == <<input, phase, selections, session, results>>

NoSession == [items |-> << >>, budget |-> 0, total |-> 0]
Done      == Len(results)

Init ==
    /\ input \in Inputs
    /\ phase = "select"
    /\ selections = << >>
    /\ session = NoSession
    /\ results = << >>

Select ==
    /\ phase = "select"
    /\ phase' = "compose"
    /\ selections' = GenerateContentSet(input)
    /\ UNCHANGED <<input, session, results>>

Compose ==
    /\ phase = "compose"
    /\ phase' = "practice"
    /\ session' = ComposeSession(selections, input.minutes, input.segment)
    /\ UNCHANGED <<input, selections, results>>

\* The learner answers the next item; the rest of the session is adapted.
\* How fast a wrong answer came is never looked at.
Answer(right, fast) ==
    /\ phase = "practice"
    /\ Done < Smaller(MaxAnswers, Len(session.items))
    /\ fast => right
    /\ results' = Append(results, [right |-> right, fast |-> fast,
                                   skill |-> session.items[Done + 1].skill])
    /\ session' = AdaptAndEnforceBudget(session, Done + 1, results', input.pool)
    /\ UNCHANGED <<input, phase, selections>>

Next == Select \/ Compose \/ \E right, fast \in BOOLEAN : Answer(right, fast)

Spec == Init /\ [][Next]_vars

-----------------------------------------------------------------------------
(* Properties *)

Over(s) == s.total > (115 * s.budget) \div 100

\* Each variable has its kind of value.
TypeOK ==
    /\ input \in Inputs
    /\ phase \in {"select", "compose", "practice"}
    /\ \A i \in DOMAIN selections : selections[i].role \in DOMAIN RoleDifficulty
    /\ \A i \in DOMAIN session.items :
           /\ session.items[i].role \in DOMAIN RoleDifficulty
           /\ session.items[i].hint \in 0..1
           /\ session.items[i].secs \in Nat
    /\ session.total \in Nat
    /\ \A i \in DOMAIN results : results[i].right \in BOOLEAN /\ results[i].fast \in BOOLEAN

\* The phases of the selection do not undo each other's checks: no atom is
\* chosen twice or was seen lately, and once the assignment's items fit in
\* 115% of the budget, so does the whole selection.
SelectionSound ==
    LET Ids  == {selections[i].content.id : i \in DOMAIN selections}
        max  == EstimateItemCount(input, FilterContent(input))
        Time == SelectionTime(selections)
        Assigned == AssignmentPhase(FilterContent(input), input, max).time
    IN  phase # "select" /\ selections # << >> =>
            /\ Cardinality(Ids) = Len(selections)
            /\ Ids \cap input.seen = {}
            /\ Len(selections) <= max
            /\ Time <= TimeLimit(input) \/ Time = Assigned

\* enforceVariety leaves four items of one type in a row only where nothing
\* of another type comes later to break the run.
RunsOnlyAtTheEnd ==
    \A i \in DOMAIN selections :
        RunAt(selections, i) =>
            \A j \in i..Len(selections) : TypeAt(selections, j) = TypeAt(selections, i)

\* No four items of one type stand in a row where the others are enough to
\* break every run of them ("ensures no more than 3 consecutive exercises of
\* the same type").
VarietyKept ==
    \A i \in DOMAIN selections :
        LET Same == {j \in DOMAIN selections : TypeAt(selections, j) = TypeAt(selections, i)}
        IN  RunAt(selections, i) /\ TypeAt(selections, i) # NoType =>
                Cardinality(Same) > 3 * (Len(selections) - Cardinality(Same) + 1)

\* Whatever the number of items and the template, composing a session drops
\* no selection, repeats none and leaves no slot empty, and its estimated
\* time is that of the selections.
ComposedWhole ==
    phase = "practice" /\ results = << >> =>
        /\ {session.items[i].content : i \in DOMAIN session.items}
               = {selections[i].content : i \in DOMAIN selections}
        /\ Len(session.items) = Len(selections)
        /\ session.total = SelectionTime(selections)

\* The total kept beside the items stays the sum of their times through
\* replacements, shortened cooldowns and removals, and no adaptation turns a
\* session within 115% of its budget into one that is over it.
BudgetKept ==
    [][phase = "practice" =>
           /\ session'.total = TotalTime(session'.items)
           /\ ~Over(session) => \/ ~Over(session')
                                \/ Len(session'.items) <= 2
                                \/ \A i \in 2..Len(session'.items) :
                                       session'.items[i].role = "warmup"]_vars

\* An adaptation never touches what was already answered, as long as the
\* session was within its budget when it was composed.
AnsweredFrozen ==
    [][phase = "practice" /\ ~Over(session) =>
           \A i \in 1..Done' : /\ i <= Len(session'.items)
                               /\ session'.items[i] = session.items[i]]_vars

\* After three wrong answers the next item, if there is one left, is not
\* harder than it was and carries a hint; after a fast run of five no item
\* ahead gets easier.
AdaptsTheRightWay ==
    [][phase = "practice" =>
           \A i \in (Done' + 1)..Len(session'.items) :
               LET old == session.items[i].content.diff
                   new == session'.items[i].content.diff
               IN  /\ IsStruggling(results') /\ i = Done' + 1 =>
                          new <= old /\ session'.items[i].hint = 1
                   /\ IsCoasting(results') => new >= old]_vars
=============================================================================
