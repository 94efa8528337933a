CONSTANTS
    Stages <- RealStages
    StageLevels <- RealStageLevels
    WithContent <- AllSkills
SPECIFICATION PageSpec
INVARIANT LettersLead
