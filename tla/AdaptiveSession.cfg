CONSTANTS
    NoType = NoType
    NoSkill = NoSkill
    NoContent = NoContent
    Inputs <- AllInputs
    MaxAnswers = 7
SPECIFICATION Spec
\* A session ends when its items are answered.
CHECK_DEADLOCK FALSE
INVARIANTS
    TypeOK
    SelectionSound
    RunsOnlyAtTheEnd
    ComposedWhole
PROPERTIES
    BudgetKept
    AnsweredFrozen
    AdaptsTheRightWay
