----------------------------- MODULE Placement -----------------------------
(***************************************************************************)
(* The placement test: the items handler/placement.go generates per stage, *)
(* the web page (dashboard/placement/page.tsx) that asks them stage by     *)
(* stage, and the level the handler determines from what the page submits. *)
(* Stages are numbered from 1; a stage the page did not stop at is 0.      *)
(***************************************************************************)
EXTENDS SessionPlanner

CONSTANTS
    Stages,       \* the stages: [skills (a sequence), level, minPass, maxItems]
    StageLevels,  \* the level a learner who stops at a stage is given at most
    WithContent   \* the skills some content atom targets

VARIABLE test     \* the page: phase, items, at, stage, results, stopped

NoTest == [phase |-> "closed", items |-> << >>, at |-> 0, stage |-> 1,
           results |-> << >>, stopped |-> 0]

\* One item per skill that has content, up to the stage's maximum.
StageItems(i) ==
    LET st   == Stages[i]
        with == SelectSeq(st.skills, LAMBDA s : s \in WithContent)
    IN  [k \in 1..Smaller(Len(with), st.maxItems) |->
            [skill |-> with[k], level |-> st.level, stage |-> i]]

GeneratePlacement == FlattenSeq([i \in DOMAIN Stages |-> StageItems(i)])

\* Opening the page fetches the items and shows the introduction.
OpenPage ==
    /\ test.phase \in {"closed", "result"}
    /\ test' = [NoTest EXCEPT !.phase = "intro", !.items = GeneratePlacement, !.at = 1]

StartAssessment ==
    /\ test.phase = "intro" /\ test.items # << >>
    /\ test' = [test EXCEPT !.phase = "testing"]

\* skipPlacement leaves for the practice page and submits nothing.
SkipPlacement ==
    /\ test.phase = "intro"
    /\ test' = NoTest

\* An answer waits for "continue" (phase "answered").
AnswerItem(right) ==
    /\ test.phase = "testing"
    /\ LET item == test.items[test.at]
       IN  test' = [test EXCEPT !.phase = "answered",
                                !.results = Append(@, [skill |-> item.skill, level |-> item.level,
                                                       stage |-> item.stage, right |-> right])]

OfStage(seq, stage) == SelectSeq(seq, LAMBDA x : x.stage = stage)

StageDone(stage) ==
    Len(OfStage(test.results, stage)) >= Len(OfStage(test.items, stage))

StagePassed(stage) ==
    Len(SelectSeq(test.results, LAMBDA r : r.stage = stage /\ r.right))
        >= Stages[stage].minPass

HandleContinue ==
    LET stage == test.items[test.at].stage
    IN  /\ test.phase = "answered"
        /\ \/ /\ ~StageDone(stage)
              /\ test' = [test EXCEPT !.phase = "testing", !.at = @ + 1]
           \/ /\ StageDone(stage) /\ ~StagePassed(stage)
              /\ test' = [test EXCEPT !.phase = "submitting", !.stopped = stage]
           \/ /\ StageDone(stage) /\ StagePassed(stage)
              /\ IF OfStage(test.items, stage + 1) = << >>
                 THEN test' = [test EXCEPT !.phase = "submitting", !.stopped = 0]
                 ELSE test' = [test EXCEPT !.phase = "stage_intro", !.stage = stage + 1]

ContinueToNextStage ==
    /\ test.phase = "stage_intro"
    /\ \E i \in DOMAIN test.items :
           /\ test.items[i].stage = test.stage
           /\ \A j \in 1..(i - 1) : test.items[j].stage # test.stage
           /\ test' = [test EXCEPT !.phase = "testing", !.at = i]

ThatsMyLevel ==
    /\ test.phase = "stage_intro"
    /\ test' = [test EXCEPT !.phase = "submitting", !.stopped = test.stage]

\* The level of the answers, or that of the stage the page stopped at if it
\* is lower.
DeterminedLevel(results, stopped) ==
    LET level == DeterminePlacementLevel(Range(results))
    IN  IF stopped = 0 THEN level ELSE Smaller(StageLevels[stopped], level)

PageStep ==
    \/ OpenPage \/ StartAssessment \/ SkipPlacement
    \/ \E right \in BOOLEAN : AnswerItem(right)
    \/ HandleContinue \/ ContinueToNextStage \/ ThatsMyLevel

\* The page alone: the result shows the level, whatever the server did.
ShowResult ==
    /\ test.phase = "submitting"
    /\ test' = [test EXCEPT !.phase = "result"]

PageSpec == test = NoTest /\ [][PageStep \/ ShowResult]_test

-----------------------------------------------------------------------------
(* Properties *)

\* Nobody who answered every letter question right is stopped at the letters:
\* "Must get at least 2/3 letter questions right to continue" (placement.go).
LettersLead ==
    test.phase = "submitting" /\ test.stopped = 1 =>
        \E i \in DOMAIN test.results :
            test.results[i].stage = 1 /\ ~test.results[i].right
=============================================================================
