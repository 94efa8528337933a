CONSTANTS
    a = a
    b = b
    Skills <- MCSkills
    SkillOrder <- MCOrder
    SkillLevel <- MCLevel
    Prereqs <- MCPrereqs
    Stages <- MCStages
    StageLevels <- MCStageLevels
    WithContent <- MCSkills
    Content <- MCContent
    RecentlyUsed = {{}, {2}}
    Requests = {r1}
    Recalls = {25, 100}
    Attempts <- MCAttempts
    MasteredStreak = 2
    FossilLapses = 5
    FossilErrors = 10
    MaxItems = 5
    MaxAnswers = 3
    MaxPlans = 0
    MaxTests = 0
SPECIFICATION Spec
\* The bounds on answers, plans and tests end every behaviour.
CHECK_DEADLOCK FALSE
INVARIANT
    ReviewedIsStable
