CONSTANTS
    Users = {u1, u2}
    Emails = {x, y}
    Profiles = {p1, p2}
    Sessions = {"s"}
    Results = {"r"}
    Skills <- MCSkills
    SkillLevel <- MCLevel
    Prereqs <- MCPrereqs
    Levels = {1, 2}
    Confidences = {5}
    Statuses = {"learning"}
    Writers = {v, w}
    MaxCalls = 2
    Overlap = FALSE
SYMMETRY Interchangeable
SPECIFICATION Spec
\* The bound on calls and the fresh IDs end every behaviour.
CHECK_DEADLOCK FALSE
INVARIANTS
    StoresAgree
    PathsFound
PROPERTIES
    CascadeComplete
