CONSTANTS
    NoType = NoType
    NoSkill = NoSkill
    NoContent = NoContent
    Inputs <- AllInputs
    MaxAnswers = 0
SPECIFICATION Spec
\* A session ends when its items are answered.
CHECK_DEADLOCK FALSE
INVARIANTS
    VarietyKept
